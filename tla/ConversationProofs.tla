-------------------------- MODULE ConversationProofs --------------------------
(***************************************************************************)
(* Proofs about Conversation, for any characters and texts of any length.  *)
(*                                                                         *)
(* What one side writes the other side reads: what stands before the quotes*)
(* and backslashes of a text (JsonString, Unescaped, Escaped, ReadJson),   *)
(* and what stands between the parameters of a line (Middles, Trailing,    *)
(* Params).  Each is shown for a text from what holds of the text without  *)
(* its last character.  The inductive invariant, Talk, says what each      *)
(* variable was made from, and that a line the server says as the first end*)
(* of its MOTD is the first one the program reads (Welcomed); the three    *)
(* theorems at the end follow from it.                                     *)
(***************************************************************************)
EXTENDS ColorsProofs

(* Every character of a text that is asked, said, sent or told. *)
Names == Fields \cup {"quit"}
Verbs == {"PRIVMSG", "NOTICE", "JOIN", "PART", "INVITE", "NAMES", "LIST", "TOPIC", "MODE",
          "KICK", "NICK", "QUIT", "WHOIS", "PING", "AWAY", "001", "376", "422", "KILL", "1"}
Letter == Chars \cup Names \cup Verbs \cup
          {Space, Colon, Quote, Backslash, Comma, Soh, Action, Dcc, "(null)", "us", "you",
           "#c", "x", "old"}

LEMMA AppendIs ==
  ASSUME NEW S, NEW s \in Seq(S), NEW c \in S
  PROVE  /\ Append(s, c) \in Seq(S) /\ Append(s, c) = s \o <<c>>
         /\ Len(s) \in Nat /\ Len(Append(s, c)) = Len(s) + 1
         /\ DOMAIN s = 1..Len(s) /\ DOMAIN Append(s, c) = 1..(Len(s) + 1)
         /\ \A i \in 1..Len(s) : Append(s, c)[i] = s[i]
         /\ Append(s, c)[Len(s) + 1] = c
OBVIOUS

LEMMA FlattenConcat ==
  ASSUME NEW S, NEW a \in Seq(Seq(S)), NEW b \in Seq(Seq(S))
  PROVE  FlattenSeq(a \o b) = FlattenSeq(a) \o FlattenSeq(b)
<1> DEFINE T == {u \in Seq(Seq(S)) : FlattenSeq(a \o u) = FlattenSeq(a) \o FlattenSeq(u)}
<1>1. FlattenSeq(a) \in Seq(S)
  BY FlattenTyped
<1>2. <<>> \in T
  <2>1. a \o <<>> = a /\ FlattenSeq(a) \o <<>> = FlattenSeq(a) /\ <<>> \in Seq(Seq(S))
    BY <1>1, ConcatEmptySeq, EmptySeq
  <2> QED
    BY <2>1, FlattenEmpty
<1>3. ASSUME NEW u \in Seq(Seq(S)), NEW x \in Seq(S), u \in T PROVE Append(u, x) \in T
  <2>1. a \o Append(u, x) = Append(a \o u, x) /\ a \o u \in Seq(Seq(S)) /\ Append(u, x) \in Seq(Seq(S))
    OBVIOUS
  <2>2. FlattenSeq(Append(a \o u, x)) = FlattenSeq(a \o u) \o x
    BY <2>1, FlattenAppend
  <2>3. FlattenSeq(Append(u, x)) = FlattenSeq(u) \o x /\ FlattenSeq(u) \in Seq(S)
    BY FlattenAppend, FlattenTyped
  <2>4. (FlattenSeq(a) \o FlattenSeq(u)) \o x = FlattenSeq(a) \o (FlattenSeq(u) \o x)
    BY <1>1, <2>3, ConcatAssociative
  <2>5. FlattenSeq(a \o u) = FlattenSeq(a) \o FlattenSeq(u)
    BY <1>3
  <2>6. FlattenSeq(a \o Append(u, x)) = FlattenSeq(a) \o FlattenSeq(Append(u, x))
    BY <2>1, <2>2, <2>3, <2>4, <2>5
  <2> QED
    BY <2>1, <2>6
<1>4. b \in T
  <2> HIDE DEF T
  <2> QED
    BY <1>2, <1>3, ByPrefixes
<1> QED
  BY <1>4

LEMMA FlattenFew ==
  ASSUME NEW S, NEW a \in Seq(S), NEW b \in Seq(S), NEW c \in Seq(S)
  PROVE  /\ FlattenSeq(<<a>>) = a
         /\ FlattenSeq(<<a, b>>) = a \o b
         /\ FlattenSeq(<<a, b, c>>) = (a \o b) \o c
<1>1. FlattenSeq(<<a>>) = a
  <2>1. <<a>> = Append(<<>>, a) /\ <<>> \in Seq(Seq(S)) /\ <<>> \o a = a
    BY EmptySeq, ConcatEmptySeq
  <2> QED
    BY <2>1, FlattenAppend, FlattenEmpty
<1>2. FlattenSeq(<<a, b>>) = a \o b
  <2>1. <<a, b>> = Append(<<a>>, b) /\ <<a>> \in Seq(Seq(S))
    OBVIOUS
  <2> QED
    BY <1>1, <2>1, FlattenAppend
<1>3. FlattenSeq(<<a, b, c>>) = (a \o b) \o c
  <2>1. <<a, b, c>> = Append(<<a, b>>, c) /\ <<a, b>> \in Seq(Seq(S))
    OBVIOUS
  <2> QED
    BY <1>2, <2>1, FlattenAppend
<1> QED
  BY <1>1, <1>2, <1>3

-----------------------------------------------------------------------------
(* Quotes and backslashes. *)

LEMMA Specials ==
  /\ {Space, Colon, Quote, Backslash, Comma, Soh, Action, Dcc, "(null)"} \subseteq Letter
  /\ Quote # Backslash /\ Quote # Comma /\ Backslash # Comma /\ Space # Colon
  /\ Quote # "(null)" /\ Backslash # "(null)"
<1>1. /\ Quote # Backslash /\ Quote # Comma /\ Backslash # Comma /\ Space # Colon
      /\ Quote # "(null)" /\ Backslash # "(null)"
  BY DEF Space, Colon, Quote, Backslash, Comma, Soh, Action, Dcc
<1> QED
  BY <1>1, Zenon DEF Letter

(* What stands for a character in the JSON of an application. *)
Piece(c) == IF c \in {Quote, Backslash} THEN <<Backslash, c>> ELSE <<c>>

(* A text whose backslashes are doubled: what JSON's become when wIRCd has  *)
(* taken out those before quotes.                                           *)
DoubledPiece(c) == IF c = Backslash THEN <<Backslash, Backslash>> ELSE <<c>>
Doubled(t) == FlattenSeq([i \in DOMAIN t |-> DoubledPiece(t[i])])

EscapedPiece(c) == IF c = Quote THEN <<Backslash, Quote>> ELSE <<c>>

LEMMA PieceIs ==
  ASSUME NEW c \in Letter
  PROVE  /\ Piece(c) \in Seq(Letter) /\ DoubledPiece(c) \in Seq(Letter)
         /\ EscapedPiece(c) \in Seq(Letter) /\ <<c>> \in Seq(Letter)
         /\ Piece(c) = IF c = Quote THEN <<Backslash, Quote>>
                       ELSE IF c = Backslash THEN <<Backslash, Backslash>> ELSE <<c>>
<1>1. Backslash \in Letter /\ Quote \in Letter
  BY Specials
<1> HIDE DEF Letter
<1> QED
  BY <1>1 DEF Piece, DoubledPiece, EscapedPiece

LEMMA JsonPieces ==
  ASSUME NEW t \in Seq(Letter)
  PROVE  JsonString(t) = FlattenSeq([i \in DOMAIN t |-> Piece(t[i])])
<1>1. CASE t = NULL
  <2>1. Piece("(null)") = <<"(null)">>
    <3>1. "(null)" \notin {Quote, Backslash}
      BY Specials
    <3> QED
      BY <3>1, Zenon DEF Piece
  <2>2. t = <<"(null)">> /\ DOMAIN t = 1..1 /\ t[1] = "(null)"
    BY <1>1 DEF NULL
  <2>3. [i \in DOMAIN t |-> Piece(t[i])] = <<Piece("(null)")>>
    BY <2>2
  <2>4. FlattenSeq(<<<<"(null)">>>>) = <<"(null)">>
    <3>1. <<"(null)">> \in Seq(Letter)
      BY Specials, PieceIs
    <3> QED
      BY <3>1, FlattenFew
  <2> QED
    BY <1>1, <2>1, <2>2, <2>3, <2>4 DEF JsonString
<1>2. CASE t # NULL
  BY <1>2 DEF JsonString, Piece
<1> QED
  BY <1>1, <1>2

LEMMA JsonIs ==
  /\ JsonString(<<>>) = <<>>
  /\ \A t \in Seq(Letter) : JsonString(t) \in Seq(Letter)
  /\ \A t \in Seq(Letter), c \in Letter : JsonString(Append(t, c)) = JsonString(t) \o Piece(c)
<1> DEFINE Map(t) == [i \in DOMAIN t |-> Piece(t[i])]
<1>1. Map(<<>>) = <<>> /\ <<>> \in Seq(Letter)
  OBVIOUS
<1>2. \A t \in Seq(Letter) : Map(t) \in Seq(Seq(Letter))
  <2> SUFFICES ASSUME NEW t \in Seq(Letter) PROVE Map(t) \in Seq(Seq(Letter))
    OBVIOUS
  <2>1. DOMAIN t = 1..Len(t) /\ Len(t) \in Nat /\ \A i \in 1..Len(t) : t[i] \in Letter
    BY LenProperties
  <2>2. \A i \in 1..Len(t) : Piece(t[i]) \in Seq(Letter)
    BY <2>1, PieceIs
  <2> QED
    BY <2>1, <2>2, IsASeq
<1>3. ASSUME NEW t \in Seq(Letter), NEW c \in Letter PROVE Map(Append(t, c)) = Append(Map(t), Piece(c))
  <2> HIDE DEF Letter
  <2>1. Map(t) \in Seq(Seq(Letter)) /\ Len(Map(t)) = Len(t)
    BY <1>2, AppendIs
  <2> QED
    BY <2>1, AppendIs, PieceIs
<1>4. JsonString(<<>>) = <<>>
  BY <1>1, JsonPieces, FlattenEmpty
<1>5. \A t \in Seq(Letter) : JsonString(t) \in Seq(Letter)
  <2> HIDE DEF Map
  <2> QED
    BY <1>2, JsonPieces, FlattenTyped DEF Map
<1>6. ASSUME NEW t \in Seq(Letter), NEW c \in Letter
      PROVE  JsonString(Append(t, c)) = JsonString(t) \o Piece(c)
  <2>1. Append(t, c) \in Seq(Letter)
    OBVIOUS
  <2>2. JsonString(t) = FlattenSeq(Map(t)) /\ JsonString(Append(t, c)) = FlattenSeq(Map(Append(t, c)))
    BY <2>1, JsonPieces
  <2> HIDE DEF Map
  <2> QED
    BY <1>2, <1>3, <2>2, PieceIs, FlattenAppend
<1> QED
  BY <1>4, <1>5, <1>6

LEMMA DoubledIs ==
  /\ Doubled(<<>>) = <<>>
  /\ \A t \in Seq(Letter) : Doubled(t) \in Seq(Letter)
  /\ \A t \in Seq(Letter), c \in Letter : Doubled(Append(t, c)) = Doubled(t) \o DoubledPiece(c)
<1> DEFINE Map(t) == [i \in DOMAIN t |-> DoubledPiece(t[i])]
<1>1. \A t : Doubled(t) = FlattenSeq(Map(t))
  BY DEF Doubled
<1>2. Map(<<>>) = <<>>
  OBVIOUS
<1>3. \A t \in Seq(Letter) : Map(t) \in Seq(Seq(Letter))
  <2> SUFFICES ASSUME NEW t \in Seq(Letter) PROVE Map(t) \in Seq(Seq(Letter))
    OBVIOUS
  <2>1. DOMAIN t = 1..Len(t) /\ Len(t) \in Nat /\ \A i \in 1..Len(t) : t[i] \in Letter
    BY LenProperties
  <2>2. \A i \in 1..Len(t) : DoubledPiece(t[i]) \in Seq(Letter)
    BY <2>1, PieceIs
  <2> QED
    BY <2>1, <2>2, IsASeq
<1>4. ASSUME NEW t \in Seq(Letter), NEW c \in Letter
      PROVE  Map(Append(t, c)) = Append(Map(t), DoubledPiece(c))
  <2> HIDE DEF Letter
  <2>1. Map(t) \in Seq(Seq(Letter)) /\ Len(Map(t)) = Len(t)
    BY <1>3, AppendIs
  <2> QED
    BY <2>1, AppendIs, PieceIs
<1> HIDE DEF Map
<1>5. Doubled(<<>>) = <<>>
  BY <1>1, <1>2, FlattenEmpty
<1>6. \A t \in Seq(Letter) : Doubled(t) \in Seq(Letter)
  BY <1>1, <1>3, FlattenTyped
<1>7. ASSUME NEW t \in Seq(Letter), NEW c \in Letter
      PROVE  Doubled(Append(t, c)) = Doubled(t) \o DoubledPiece(c)
  BY <1>1, <1>3, <1>4, PieceIs, FlattenAppend
<1> QED
  BY <1>5, <1>6, <1>7

LEMMA EscapedIs ==
  /\ Escaped(<<>>) = <<>>
  /\ \A t \in Seq(Letter) : Escaped(t) \in Seq(Letter)
  /\ \A t \in Seq(Letter), c \in Letter : Escaped(Append(t, c)) = Escaped(t) \o EscapedPiece(c)
<1> DEFINE Map(t) == [i \in DOMAIN t |-> EscapedPiece(t[i])]
<1>1. \A t : Escaped(t) = FlattenSeq(Map(t))
  BY DEF Escaped, EscapedPiece
<1>2. Map(<<>>) = <<>>
  OBVIOUS
<1>3. \A t \in Seq(Letter) : Map(t) \in Seq(Seq(Letter))
  <2> SUFFICES ASSUME NEW t \in Seq(Letter) PROVE Map(t) \in Seq(Seq(Letter))
    OBVIOUS
  <2>1. DOMAIN t = 1..Len(t) /\ Len(t) \in Nat /\ \A i \in 1..Len(t) : t[i] \in Letter
    BY LenProperties
  <2>2. \A i \in 1..Len(t) : EscapedPiece(t[i]) \in Seq(Letter)
    BY <2>1, PieceIs
  <2> QED
    BY <2>1, <2>2, IsASeq
<1>4. ASSUME NEW t \in Seq(Letter), NEW c \in Letter
      PROVE  Map(Append(t, c)) = Append(Map(t), EscapedPiece(c))
  <2> HIDE DEF Letter
  <2>1. Map(t) \in Seq(Seq(Letter)) /\ Len(Map(t)) = Len(t)
    BY <1>3, AppendIs
  <2> QED
    BY <2>1, AppendIs, PieceIs
<1> HIDE DEF Map
<1>5. Escaped(<<>>) = <<>>
  BY <1>1, <1>2, FlattenEmpty
<1>6. \A t \in Seq(Letter) : Escaped(t) \in Seq(Letter)
  BY <1>1, <1>3, FlattenTyped
<1>7. ASSUME NEW t \in Seq(Letter), NEW c \in Letter
      PROVE  Escaped(Append(t, c)) = Escaped(t) \o EscapedPiece(c)
  BY <1>1, <1>3, <1>4, PieceIs, FlattenAppend
<1> QED
  BY <1>5, <1>6, <1>7

(* What Unescaped makes of a text with one character more.                  *)
LEMMA UnescapedIs ==
  ASSUME NEW t \in Seq(Letter)
  PROVE  /\ Unescaped(<<>>) = <<>> /\ Unescaped(t) \in Seq(Letter)
         /\ \A c \in Letter : c # Quote => Unescaped(Append(t, c)) = Unescaped(t) \o <<c>>
         /\ Unescaped(Append(Append(t, Backslash), Quote)) = Unescaped(t) \o <<Quote>>
<1> DEFINE Cut(u, i) == IF u[i] = Backslash /\ i < Len(u) /\ u[i + 1] = Quote
                        THEN <<>> ELSE <<u[i]>>
           Map(u) == [i \in DOMAIN u |-> Cut(u, i)]
<1>1. \A u : Unescaped(u) = FlattenSeq(Map(u))
  BY DEF Unescaped
<1>2. ASSUME NEW u \in Seq(Letter)
      PROVE  Map(u) \in Seq(Seq(Letter)) /\ DOMAIN u = 1..Len(u) /\ Len(u) \in Nat /\ Len(Map(u)) = Len(u)
  <2>1. DOMAIN u = 1..Len(u) /\ Len(u) \in Nat /\ \A i \in 1..Len(u) : u[i] \in Letter
    BY LenProperties
  <2>2. \A i \in 1..Len(u) : Cut(u, i) \in Seq(Letter)
    <3> HIDE DEF Letter
    <3> QED
      BY <2>1
  <2>3. Map(u) \in Seq(Seq(Letter))
    <3> HIDE DEF Cut, Letter
    <3> QED
      BY <2>1, <2>2, IsASeq
  <2>4. Len(Map(u)) = Len(u)
    <3> HIDE DEF Cut
    <3> QED
      BY <2>1
  <2> QED
    BY <2>1, <2>3, <2>4
<1>3. Unescaped(<<>>) = <<>>
  <2>1. Map(<<>>) = <<>>
    OBVIOUS
  <2> QED
    BY <1>1, <2>1, FlattenEmpty
<1>4. Unescaped(t) \in Seq(Letter)
  <2> HIDE DEF Map
  <2> QED
    BY <1>1, <1>2, FlattenTyped
<1>5. ASSUME NEW c \in Letter, c # Quote
      PROVE  Unescaped(Append(t, c)) = Unescaped(t) \o <<c>>
  <2> DEFINE u == Append(t, c)
  <2>1. /\ u \in Seq(Letter) /\ Len(u) = Len(t) + 1 /\ u[Len(t) + 1] = c
        /\ \A i \in 1..Len(t) : u[i] = t[i]
    BY AppendIs
  <2> HIDE DEF u
  <2>2. ASSUME NEW i \in 1..Len(t) PROVE Cut(u, i) = Cut(t, i)
    <3>1. i < Len(t) => i + 1 \in 1..Len(t) /\ i < Len(u)
      BY <1>2, <2>1
    <3>2. i = Len(t) => u[i + 1] # Quote
      BY <1>5, <2>1
    <3>3. i < Len(t) \/ (i = Len(t) /\ ~(i < Len(t)))
      BY <1>2
    <3>4. u[i] = t[i] /\ (i < Len(t) => u[i + 1] = t[i + 1])
      BY <2>1, <3>1
    <3> QED
      BY <3>1, <3>2, <3>3, <3>4
  <2>3. Cut(u, Len(t) + 1) = <<c>>
    BY <1>2, <2>1
  <2>4. Map(u) = Append(Map(t), <<c>>)
    <3> HIDE DEF Cut
    <3> QED
      BY <1>2, <2>1, <2>2, <2>3
  <2>5. <<c>> \in Seq(Letter)
    BY PieceIs
  <2>6. Unescaped(u) = Unescaped(t) \o <<c>>
    <3> HIDE DEF Map
    <3> QED
      BY <1>1, <1>2, <2>4, <2>5, FlattenAppend
  <2> QED
    BY <2>6 DEF u
<1>6. Unescaped(Append(Append(t, Backslash), Quote)) = Unescaped(t) \o <<Quote>>
  <2> DEFINE u == Append(Append(t, Backslash), Quote)
             n == Len(t)
  <2>1. /\ u \in Seq(Letter) /\ Len(u) = n + 2 /\ u[n + 1] = Backslash /\ u[n + 2] = Quote
        /\ \A i \in 1..n : u[i] = t[i]
    <3>1. Backslash \in Letter /\ Quote \in Letter
      BY Specials
    <3> HIDE DEF Letter
    <3> QED
      BY <3>1
  <2> HIDE DEF u
  <2>2. ASSUME NEW i \in 1..n PROVE Cut(u, i) = Cut(t, i)
    <3>1. i < n => i + 1 \in 1..n /\ i < Len(u)
      BY <1>2, <2>1
    <3>2. i = n => u[i + 1] # Quote
      BY <2>1, Specials
    <3>3. i < n \/ (i = n /\ ~(i < n))
      BY <1>2
    <3>4. u[i] = t[i] /\ (i < n => u[i + 1] = t[i + 1])
      BY <2>1, <3>1
    <3> QED
      BY <3>1, <3>2, <3>3, <3>4
  <2>3. Cut(u, n + 1) = <<>>
    <3>1. n + 1 < Len(u) /\ u[(n + 1) + 1] = Quote
      BY <1>2, <2>1
    <3> QED
      BY <2>1, <3>1
  <2>4. Cut(u, n + 2) = <<Quote>>
    <3>1. ~(n + 2 < Len(u))
      BY <1>2, <2>1
    <3> QED
      BY <2>1, <3>1
  <2>5. Map(u) = Append(Append(Map(t), <<>>), <<Quote>>)
    <3> HIDE DEF Cut
    <3>1. Map(t) \in Seq(Seq(Letter)) /\ Len(Map(t)) = n /\ n \in Nat /\ DOMAIN t = 1..n
      BY <1>2
    <3>2. DOMAIN u = 1..(n + 2)
      BY <1>2, <2>1
    <3> QED
      BY <3>1, <3>2, <2>2, <2>3, <2>4
  <2>6. <<Quote>> \in Seq(Letter) /\ <<>> \in Seq(Letter)
    BY Specials, PieceIs, EmptySeq
  <2>7. Unescaped(u) = Unescaped(t) \o <<Quote>>
    <3> HIDE DEF Map
    <3>1. Map(t) \in Seq(Seq(Letter)) /\ Append(Map(t), <<>>) \in Seq(Seq(Letter))
      <4>1. Map(t) \in Seq(Seq(Letter))
        BY <1>2
      <4> QED
        BY <2>6, <4>1
    <3>2. FlattenSeq(Append(Map(t), <<>>)) = FlattenSeq(Map(t)) \o <<>>
      BY <2>6, <3>1, FlattenAppend
    <3>3. FlattenSeq(Append(Append(Map(t), <<>>), <<Quote>>))
          = FlattenSeq(Append(Map(t), <<>>)) \o <<Quote>>
      BY <2>6, <3>1, FlattenAppend
    <3>4. FlattenSeq(Map(t)) \o <<>> = FlattenSeq(Map(t))
      BY <3>1, FlattenTyped, ConcatEmptySeq
    <3> QED
      BY <1>1, <2>5, <3>2, <3>3, <3>4
  <2> QED
    BY <2>7 DEF u
<1> QED
  BY <1>3, <1>4, <1>5, <1>6

LEMMA AppendTwo ==
  ASSUME NEW S, NEW t \in Seq(S), NEW a \in S, NEW b \in S
  PROVE  t \o <<a, b>> = Append(Append(t, a), b) /\ t \o <<a>> = Append(t, a)
         /\ Append(t, a) \in Seq(S) /\ Append(Append(t, a), b) \in Seq(S)
OBVIOUS

LEMMA LacksAppend ==
  ASSUME NEW t \in Seq(Letter), NEW c \in Letter, NEW x
  PROVE  Lacks(Append(t, c), x) <=> Lacks(t, x) /\ c # x
<1>1. /\ Len(t) \in Nat /\ Len(Append(t, c)) = Len(t) + 1 /\ Append(t, c)[Len(t) + 1] = c
      /\ \A i \in 1..Len(t) : Append(t, c)[i] = t[i]
  BY AppendIs
<1>2. \A i \in 1..(Len(t) + 1) : i \in 1..Len(t) \/ i = Len(t) + 1
  BY <1>1
<1>3. Len(t) + 1 \in 1..(Len(t) + 1) /\ \A i \in 1..Len(t) : i \in 1..(Len(t) + 1)
  BY <1>1
<1> QED
  BY <1>1, <1>2, <1>3 DEF Lacks, Contains

(* wIRCd takes out what JSON put before the quotes, and doubled backslashes *)
(* remain; with what it puts before quotes they are JSON again.             *)
LEMMA UnescapedJson == \A t \in Seq(Letter) : Unescaped(JsonString(t)) = Doubled(t)
<1> DEFINE T == {t \in Seq(Letter) : Unescaped(JsonString(t)) = Doubled(t)}
<1>1. <<>> \in T
  <2>1. <<>> \in Seq(Letter)
    BY EmptySeq
  <2>2. Unescaped(JsonString(<<>>)) = Doubled(<<>>)
    BY <2>1, JsonIs, DoubledIs, UnescapedIs
  <2> QED
    BY <2>1, <2>2, Zenon
<1>2. ASSUME NEW t \in Seq(Letter), NEW c \in Letter, t \in T PROVE Append(t, c) \in T
  <2> SUFFICES Unescaped(JsonString(Append(t, c))) = Doubled(Append(t, c))
    <3>1. Append(t, c) \in Seq(Letter)
      BY AppendIs
    <3> QED
      BY <3>1, Zenon
  <2> DEFINE j == JsonString(t)
             d == Doubled(t)
  <2>1. j \in Seq(Letter) /\ d \in Seq(Letter) /\ Unescaped(j) = d /\ Backslash \in Letter /\ Quote \in Letter
    BY <1>2, JsonIs, DoubledIs, Specials
  <2>2. JsonString(Append(t, c)) = j \o Piece(c) /\ Doubled(Append(t, c)) = d \o DoubledPiece(c)
    BY JsonIs, DoubledIs
  <2> HIDE DEF j, d
  <2>3. CASE c = Quote
    <3>1. Piece(c) = <<Backslash, Quote>> /\ DoubledPiece(c) = <<Quote>>
      BY <2>3, PieceIs, Specials DEF DoubledPiece
    <3>2. j \o Piece(c) = Append(Append(j, Backslash), Quote)
      BY <2>1, <3>1, AppendTwo
    <3>3. Unescaped(Append(Append(j, Backslash), Quote)) = d \o <<Quote>>
      BY <2>1, UnescapedIs
    <3> QED
      BY <2>2, <3>1, <3>2, <3>3, Zenon
  <2>4. CASE c = Backslash
    <3>1. Piece(c) = <<Backslash, Backslash>> /\ DoubledPiece(c) = <<Backslash, Backslash>>
      BY <2>4, PieceIs, Specials DEF DoubledPiece
    <3>2. j \o Piece(c) = Append(Append(j, Backslash), Backslash) /\ Append(j, Backslash) \in Seq(Letter)
      BY <2>1, <3>1, AppendTwo
    <3>3. Unescaped(Append(Append(j, Backslash), Backslash)) = (d \o <<Backslash>>) \o <<Backslash>>
      BY <2>1, <3>2, UnescapedIs, Specials
    <3>4. (d \o <<Backslash>>) \o <<Backslash>> = d \o <<Backslash, Backslash>>
      BY <2>1
    <3> QED
      BY <2>2, <3>1, <3>2, <3>3, <3>4, Zenon
  <2>5. CASE c # Quote /\ c # Backslash
    <3>1. Piece(c) = <<c>> /\ DoubledPiece(c) = <<c>>
      BY <2>5, PieceIs DEF DoubledPiece
    <3>2. j \o Piece(c) = Append(j, c)
      BY <2>1, <3>1, AppendTwo
    <3>3. Unescaped(Append(j, c)) = d \o <<c>>
      BY <2>1, <2>5, UnescapedIs
    <3> QED
      BY <2>2, <3>1, <3>2, <3>3, Zenon
  <2> QED
    BY <2>3, <2>4, <2>5
<1> HIDE DEF T
<1>3. \A t \in Seq(Letter) : t \in T
  BY <1>1, <1>2, ByPrefixes
<1> QED
  BY <1>3 DEF T

LEMMA EscapedDoubled == \A t \in Seq(Letter) : Escaped(Doubled(t)) = JsonString(t)
<1> DEFINE T == {t \in Seq(Letter) : Escaped(Doubled(t)) = JsonString(t)}
<1>1. <<>> \in T
  <2>1. <<>> \in Seq(Letter)
    BY EmptySeq
  <2>2. Escaped(Doubled(<<>>)) = JsonString(<<>>)
    BY <2>1, JsonIs, DoubledIs, EscapedIs
  <2> QED
    BY <2>1, <2>2, Zenon
<1>2. ASSUME NEW t \in Seq(Letter), NEW c \in Letter, t \in T PROVE Append(t, c) \in T
  <2> SUFFICES Escaped(Doubled(Append(t, c))) = JsonString(Append(t, c))
    <3>1. Append(t, c) \in Seq(Letter)
      BY AppendIs
    <3> QED
      BY <3>1, Zenon
  <2> DEFINE j == JsonString(t)
             d == Doubled(t)
  <2>1. j \in Seq(Letter) /\ d \in Seq(Letter) /\ Escaped(d) = j /\ Backslash \in Letter /\ Quote \in Letter
    BY <1>2, JsonIs, DoubledIs, Specials
  <2>2. JsonString(Append(t, c)) = j \o Piece(c) /\ Doubled(Append(t, c)) = d \o DoubledPiece(c)
    BY JsonIs, DoubledIs
  <2> HIDE DEF j, d
  <2>3. CASE c = Backslash
    <3>1. Piece(c) = <<Backslash, Backslash>> /\ DoubledPiece(c) = <<Backslash, Backslash>>
          /\ EscapedPiece(Backslash) = <<Backslash>>
      BY <2>3, PieceIs, Specials DEF DoubledPiece, EscapedPiece
    <3>2. d \o DoubledPiece(c) = Append(Append(d, Backslash), Backslash) /\ Append(d, Backslash) \in Seq(Letter)
      BY <2>1, <3>1, AppendTwo
    <3>5. Escaped(Append(d, Backslash)) = j \o <<Backslash>>
      BY <2>1, <3>1, EscapedIs
    <3>3. Escaped(Append(Append(d, Backslash), Backslash)) = (j \o <<Backslash>>) \o <<Backslash>>
      <4>1. Escaped(Append(Append(d, Backslash), Backslash))
            = Escaped(Append(d, Backslash)) \o EscapedPiece(Backslash)
        BY <2>1, <3>2, EscapedIs
      <4> QED
        BY <3>1, <3>5, <4>1, Zenon
    <3>4. (j \o <<Backslash>>) \o <<Backslash>> = j \o <<Backslash, Backslash>>
      BY <2>1
    <3> QED
      BY <2>2, <3>1, <3>2, <3>3, <3>4, Zenon
  <2>4. CASE c # Backslash
    <3>1. DoubledPiece(c) = <<c>> /\ EscapedPiece(c) = Piece(c)
      BY <2>4, PieceIs DEF DoubledPiece, EscapedPiece
    <3>2. d \o DoubledPiece(c) = Append(d, c)
      BY <2>1, <3>1, AppendTwo
    <3>3. Escaped(Append(d, c)) = j \o EscapedPiece(c)
      BY <2>1, EscapedIs
    <3> QED
      BY <2>2, <3>1, <3>2, <3>3, Zenon
  <2> QED
    BY <2>3, <2>4
<1> HIDE DEF T
<1>3. \A t \in Seq(Letter) : t \in T
  BY <1>1, <1>2, ByPrefixes
<1> QED
  BY <1>3 DEF T

(* A text without backslashes has none to double, and one without quotes    *)
(* has nothing else that JSON puts a backslash before.                      *)
LEMMA DoubledSame ==
  \A t \in Seq(Letter) : /\ Lacks(t, Backslash) => Doubled(t) = t
                         /\ Lacks(t, Quote) => JsonString(t) = Doubled(t)
<1> DEFINE T == {t \in Seq(Letter) : /\ Lacks(t, Backslash) => Doubled(t) = t
                                     /\ Lacks(t, Quote) => JsonString(t) = Doubled(t)}
<1>1. <<>> \in T
  <2>1. <<>> \in Seq(Letter)
    BY EmptySeq
  <2>2. Doubled(<<>>) = <<>> /\ JsonString(<<>>) = <<>>
    BY JsonIs, DoubledIs
  <2> QED
    BY <2>1, <2>2, Zenon
<1>2. ASSUME NEW t \in Seq(Letter), NEW c \in Letter, t \in T PROVE Append(t, c) \in T
  <2>7. Append(t, c) \in Seq(Letter) /\ t \o <<c>> = Append(t, c)
    BY AppendTwo
  <2>8. /\ JsonString(Append(t, c)) = JsonString(t) \o Piece(c)
        /\ Doubled(Append(t, c)) = Doubled(t) \o DoubledPiece(c)
    BY JsonIs, DoubledIs
  <2>1. /\ Append(t, c) \in Seq(Letter) /\ t \o <<c>> = Append(t, c)
        /\ JsonString(Append(t, c)) = JsonString(t) \o Piece(c)
        /\ Doubled(Append(t, c)) = Doubled(t) \o DoubledPiece(c)
    BY <2>7, <2>8, Zenon
  <2>2. Lacks(t, Backslash) => Doubled(t) = t
    BY <1>2
  <2>3. Lacks(t, Quote) => JsonString(t) = Doubled(t)
    BY <1>2
  <2>4. /\ c # Backslash => DoubledPiece(c) = <<c>>
        /\ c # Quote => Piece(c) = DoubledPiece(c)
    BY PieceIs DEF DoubledPiece
  <2>5. Lacks(Append(t, c), Backslash) => Doubled(Append(t, c)) = Append(t, c)
    BY <2>1, <2>2, <2>4, LacksAppend
  <2>6. Lacks(Append(t, c), Quote) => JsonString(Append(t, c)) = Doubled(Append(t, c))
    BY <2>1, <2>3, <2>4, LacksAppend
  <2> QED
    BY <2>1, <2>5, <2>6, Zenon
<1> HIDE DEF T
<1>3. \A t \in Seq(Letter) : t \in T
  BY <1>1, <1>2, ByPrefixes
<1> QED
  BY <1>3 DEF T

LEMMA DoubledEnds ==
  \A t \in Seq(Letter) :
    /\ Len(Doubled(t)) <= 2 * Len(t)
    /\ t = <<>> <=> Doubled(t) = <<>>
    /\ t # <<>> => Doubled(t)[1] = t[1] /\ Last(Doubled(t)) = Last(t)
<1> DEFINE T == {t \in Seq(Letter) :
                   /\ Len(Doubled(t)) <= 2 * Len(t)
                   /\ t = <<>> <=> Doubled(t) = <<>>
                   /\ t # <<>> => Doubled(t)[1] = t[1] /\ Last(Doubled(t)) = Last(t)}
<1>1. <<>> \in T
  <2>1. <<>> \in Seq(Letter) /\ Doubled(<<>>) = <<>> /\ Len(<<>>) = 0
    BY EmptySeq, DoubledIs
  <2> QED
    BY <2>1
<1>2. ASSUME NEW t \in Seq(Letter), NEW c \in Letter, t \in T PROVE Append(t, c) \in T
  <2> DEFINE d == Doubled(t)
             p == DoubledPiece(c)
  <2>1. /\ Append(t, c) \in Seq(Letter) /\ d \in Seq(Letter)
        /\ Doubled(Append(t, c)) = d \o p
    BY DoubledIs, AppendTwo
  <2>2. p \in Seq(Letter) /\ p[1] = c /\ p[Len(p)] = c /\ Len(p) \in 1..2
    BY PieceIs DEF DoubledPiece
  <2>3. /\ Len(d) <= 2 * Len(t)
        /\ t = <<>> <=> d = <<>>
        /\ t # <<>> => d[1] = t[1] /\ Last(d) = Last(t)
    BY <1>2
  <2> HIDE DEF d, p, Letter
  <2>4. /\ Len(t) \in Nat /\ Len(d) \in Nat /\ Len(Append(t, c)) = Len(t) + 1
        /\ Append(t, c)[Len(t) + 1] = c /\ Append(t, c) # <<>>
        /\ Len(d \o p) = Len(d) + Len(p)
        /\ \A i \in 1..(Len(d) + Len(p)) : (d \o p)[i] = IF i <= Len(d) THEN d[i] ELSE p[i - Len(d)]
    <3>1. /\ Len(t) \in Nat /\ Len(d) \in Nat /\ Len(Append(t, c)) = Len(t) + 1
          /\ Append(t, c)[Len(t) + 1] = c /\ Append(t, c) # <<>>
      <4>1. /\ Len(t) \in Nat /\ Len(d) \in Nat /\ Len(Append(t, c)) = Len(t) + 1
            /\ Append(t, c)[Len(t) + 1] = c
        BY <2>1, AppendIs, LenProperties
      <4> QED
        BY <4>1, EmptySeq
    <3>2. /\ Len(d \o p) = Len(d) + Len(p)
          /\ \A i \in 1..(Len(d) + Len(p)) : (d \o p)[i] = IF i <= Len(d) THEN d[i] ELSE p[i - Len(d)]
      BY <2>1, <2>2, ConcatProperties
    <3> QED
      BY <3>1, <3>2
  <2>5. Len(d \o p) <= 2 * Len(Append(t, c)) /\ d \o p # <<>>
    BY <2>2, <2>3, <2>4
  <2>6. Last(d \o p) = Last(Append(t, c))
    <3>1. Len(d) + Len(p) \in 1..(Len(d) + Len(p)) /\ ~(Len(d) + Len(p) <= Len(d))
          /\ (Len(d) + Len(p)) - Len(d) = Len(p)
      BY <2>2, <2>4
    <3> QED
      BY <2>2, <2>4, <3>1 DEF Last
  <2>7. (d \o p)[1] = Append(t, c)[1]
    <3>1. CASE t = <<>>
      <4>1. Len(d) = 0 /\ Append(t, c)[1] = c /\ 1 - Len(d) = 1
        BY <2>3, <2>4, <3>1
      <4> QED
        BY <2>2, <2>4, <4>1
    <3>2. CASE t # <<>>
      <4>1. Len(d) >= 1 /\ Append(t, c)[1] = t[1]
        BY <2>1, <2>3, <2>4, <3>2
      <4> QED
        BY <2>2, <2>3, <2>4, <3>2, <4>1
    <3> QED
      BY <3>1, <3>2
  <2>8. Append(t, c) # <<>>
    BY <2>4
  <2> QED
    BY <2>1, <2>5, <2>6, <2>7, <2>8, Zenon
<1> HIDE DEF T
<1>3. \A t \in Seq(Letter) : t \in T
  BY <1>1, <1>2, ByPrefixes
<1> QED
  BY <1>3 DEF T

-----------------------------------------------------------------------------
(* What a JSON reader reads. *)

LEMMA ReadingJsonIs ==
  ASSUME NEW json, Len(json) \in Nat
  PROVE  ReadingJson(json) = [i \in 0..Len(json) |->
           IF i = 0 THEN [at |-> "out", list |-> <<>>]
           ELSE ReadChar(ReadingJson(json)[i - 1], json[i])]
<1> DEFINE Step(s, i) == ReadChar(s, json[i])
           start == [at |-> "out", list |-> <<>>]
           Is(f, m) == f = [i \in 0..m |-> IF i = 0 THEN start ELSE Step(f[i - 1], i)]
           T == {m \in Nat : \E f : Is(f, m)}
<1>1. ReadingJson(json) = CHOOSE f : Is(f, Len(json))
  BY Zenon DEF ReadingJson
<1> HIDE DEF Step, start
<1>2. 0 \in T
  <2>1. Is([i \in 0..0 |-> start], 0)
    OBVIOUS
  <2> QED
    BY <2>1
<1>3. ASSUME NEW m \in 1..Len(json), m - 1 \in T PROVE m \in T
  <2>1. PICK f : Is(f, m - 1)
    BY <1>3
  <2> DEFINE g == [i \in 0..m |-> IF i < m THEN f[i] ELSE Step(f[m - 1], m)]
  <2>2. ASSUME NEW i \in 0..m PROVE g[i] = IF i = 0 THEN start ELSE Step(g[i - 1], i)
    <3>1. i \in Nat /\ m \in Nat /\ (i # 0 => i - 1 \in 0..m /\ i - 1 < m)
      OBVIOUS
    <3>2. i < m => i \in 0..(m - 1)
      BY <3>1
    <3>3. i # 0 => g[i - 1] = f[i - 1]
      BY <3>1
    <3>4. CASE i < m
      BY <2>1, <3>1, <3>2, <3>3, <3>4
    <3>5. CASE i = m
      BY <3>3, <3>5
    <3> QED
      BY <3>1, <3>4, <3>5
  <2>3. Is(g, m)
    BY <2>2
  <2>4. m \in Nat /\ \E h : Is(h, m)
    <3> HIDE DEF g
    <3> QED
      BY <2>3
  <2> QED
    BY <2>4, Zenon
<1>4. \E f : Is(f, Len(json))
  <2>1. Len(json) \in 0..Len(json)
    OBVIOUS
  <2>2. Len(json) \in T
    <3> HIDE DEF T
    <3> QED
      BY <1>2, <1>3, <2>1, Upwards
  <2> QED
    BY <2>2, Zenon
<1>5. Is(ReadingJson(json), Len(json))
  BY <1>1, <1>4, Zenon
<1> QED
  BY <1>5, Zenon DEF Step, start

(* Where a reader is at the end of a text. *)
After(json) == ReadingJson(json)[Len(json)]

LEMMA ReadJsonNext ==
  /\ After(<<>>) = [at |-> "out", list |-> <<>>]
  /\ \A json \in Seq(Letter), c \in Letter : After(Append(json, c)) = ReadChar(After(json), c)
<1>1. After(<<>>) = [at |-> "out", list |-> <<>>]
  <2>1. Len(<<>>) = 0
    OBVIOUS
  <2> DEFINE F(i) == IF i = 0 THEN [at |-> "out", list |-> <<>>]
                     ELSE ReadChar(ReadingJson(<<>>)[i - 1], <<>>[i])
  <2>2. ReadingJson(<<>>) = [i \in 0..Len(<<>>) |-> F(i)]
    BY <2>1, ReadingJsonIs
  <2>3. F(0) = [at |-> "out", list |-> <<>>]
    OBVIOUS
  <2> HIDE DEF F
  <2>4. ReadingJson(<<>>)[0] = F(0)
    BY <2>1, <2>2
  <2> QED
    BY <2>1, <2>3, <2>4 DEF After
<1>2. ASSUME NEW json \in Seq(Letter), NEW c \in Letter
      PROVE  After(Append(json, c)) = ReadChar(After(json), c)
  <2> DEFINE n == Len(json)
             more == Append(json, c)
             start == [at |-> "out", list |-> <<>>]
             F(i) == IF i = 0 THEN start ELSE ReadChar(ReadingJson(json)[i - 1], json[i])
             G(i) == IF i = 0 THEN start ELSE ReadChar(ReadingJson(more)[i - 1], more[i])
             K == {i \in 0..n : ReadingJson(more)[i] = ReadingJson(json)[i]}
  <2>1. n \in Nat /\ Len(more) = n + 1 /\ more[n + 1] = c /\ \A i \in 1..n : more[i] = json[i]
    BY AppendIs
  <2>2. ReadingJson(json) = [i \in 0..n |-> F(i)] /\ ReadingJson(more) = [i \in 0..(n + 1) |-> G(i)]
    <3> HIDE DEF more
    <3>1. Len(json) \in Nat /\ Len(more) \in Nat
      BY <2>1
    <3>2. ReadingJson(json) = [i \in 0..Len(json) |-> F(i)]
      BY <3>1, ReadingJsonIs, Zenon
    <3>3. ReadingJson(more) = [i \in 0..Len(more) |-> G(i)]
      BY <3>1, ReadingJsonIs, Zenon
    <3> QED
      BY <2>1, <3>2, <3>3, Zenon
  <2> HIDE DEF more, start
  <2>3. \A i \in 0..n : ReadingJson(json)[i] = F(i) /\ ReadingJson(more)[i] = G(i)
    <3> HIDE DEF F, G
    <3>1. \A i \in 0..n : i \in 0..(n + 1)
      BY <2>1
    <3> QED
      BY <2>2, <3>1
  <2>4. ReadingJson(more)[n + 1] = G(n + 1)
    <3> HIDE DEF F, G
    <3> QED
      BY <2>1, <2>2
  <2>5. 0 \in K
    <3>1. 0 \in 0..n /\ F(0) = G(0)
      BY <2>1
    <3> HIDE DEF F, G
    <3> QED
      BY <2>3, <3>1
  <2>6. ASSUME NEW i \in 1..n, i - 1 \in K PROVE i \in K
    <3>1. i \in 0..n /\ i # 0 /\ more[i] = json[i]
      BY <2>1
    <3>2. ReadingJson(more)[i - 1] = ReadingJson(json)[i - 1]
      BY <2>6
    <3>3. F(i) = G(i)
      BY <3>1, <3>2
    <3> HIDE DEF F, G
    <3> QED
      BY <2>3, <3>1, <3>3
  <2>7. n \in K
    <3>1. n \in 0..n
      BY <2>1
    <3> HIDE DEF K, n
    <3> QED
      BY <2>1, <2>5, <2>6, <3>1, Upwards
  <2>8. G(n + 1) = ReadChar(ReadingJson(more)[n], c)
    <3>1. n + 1 # 0 /\ (n + 1) - 1 = n
      BY <2>1
    <3> QED
      BY <2>1, <3>1
  <2> HIDE DEF G
  <2>9. ReadingJson(more)[n] = ReadingJson(json)[n]
    BY <2>7
  <2> QED
    BY <2>1, <2>4, <2>8, <2>9 DEF After, more
<1> QED
  BY <1>1, <1>2

(* A reader in a string, of which it has read u, behind the strings l. *)
Within(l, u) == [at |-> "in", list |-> Append(l, u)]

LEMMA ReadCharIs ==
  ASSUME NEW l \in Seq(Seq(Letter)), NEW u \in Seq(Letter), NEW c \in Letter
  PROVE  /\ ReadChar([at |-> "out", list |-> l], Quote) = Within(l, <<>>)
         /\ ReadChar([at |-> "out", list |-> l], Comma) = [at |-> "out", list |-> l]
         /\ ReadChar(Within(l, u), Quote) = [at |-> "out", list |-> Append(l, u)]
         /\ c \in {Quote, Backslash} =>
              ReadChar(ReadChar(Within(l, u), Backslash), c) = Within(l, Append(u, c))
         /\ c \notin {Quote, Backslash} => ReadChar(Within(l, u), c) = Within(l, Append(u, c))
<1>1. Front(Append(l, u)) = l /\ Last(Append(l, u)) = u
  <2>1. Append(l, u) \in Seq(Seq(Letter)) /\ Len(l) \in Nat /\ Len(Append(l, u)) = Len(l) + 1
        /\ Append(l, u)[Len(l) + 1] = u
    BY AppendIs
  <2>2. SubSeq(Append(l, u), 1, Len(l)) = l
    <3> HIDE DEF Letter
    <3> QED
      OBVIOUS
  <2> QED
    BY <2>1, <2>2 DEF Front, Last
<1>2. l \o <<Append(u, c)>> = Append(l, Append(u, c))
  BY AppendIs
<1>3. Quote # Backslash /\ Quote # Comma
  BY Specials
<1>4. ReadChar([at |-> "out", list |-> l], Quote) = Within(l, <<>>)
  BY <1>3 DEF ReadChar, Within
<1>5. ReadChar([at |-> "out", list |-> l], Comma) = [at |-> "out", list |-> l]
  BY <1>3 DEF ReadChar
<1>6. ReadChar(Within(l, u), Quote) = [at |-> "out", list |-> Append(l, u)]
  BY <1>3 DEF ReadChar, Within
<1>7. ASSUME c \notin {Quote, Backslash}
      PROVE  ReadChar(Within(l, u), c) = Within(l, Append(u, c))
  BY <1>1, <1>2, <1>7 DEF ReadChar, Within
<1>8. ASSUME c \in {Quote, Backslash}
      PROVE  ReadChar(ReadChar(Within(l, u), Backslash), c) = Within(l, Append(u, c))
  <2>1. ReadChar(Within(l, u), Backslash) = [at |-> "escape", list |-> Append(l, u)]
    BY <1>3 DEF ReadChar, Within
  <2>2. ReadChar([at |-> "escape", list |-> Append(l, u)], c) = Within(l, Append(u, c))
    BY <1>1, <1>2, <1>8 DEF ReadChar, Within
  <2> QED
    BY <2>1, <2>2
<1> QED
  BY <1>4, <1>5, <1>6, <1>7, <1>8

(* JSON's string of a text is read as the text.                             *)
LEMMA ReadsText ==
  ASSUME NEW json \in Seq(Letter), NEW l \in Seq(Seq(Letter)), After(json) = Within(l, <<>>)
  PROVE  \A t \in Seq(Letter) : After(json \o JsonString(t)) = Within(l, t)
<1> DEFINE T == {t \in Seq(Letter) : After(json \o JsonString(t)) = Within(l, t)}
<1>1. <<>> \in T
  <2>1. <<>> \in Seq(Letter)
    BY EmptySeq
  <2>2. json \o JsonString(<<>>) = json
    <3>1. json \o <<>> = json
      BY ConcatEmptySeq
    <3> QED
      BY <3>1, JsonIs
  <2> QED
    BY <2>1, <2>2, Zenon
<1>2. ASSUME NEW t \in Seq(Letter), NEW c \in Letter, t \in T PROVE Append(t, c) \in T
  <2> SUFFICES After(json \o JsonString(Append(t, c))) = Within(l, Append(t, c))
    <3>1. Append(t, c) \in Seq(Letter)
      BY AppendIs
    <3> QED
      BY <3>1, Zenon
  <2> DEFINE j == json \o JsonString(t)
  <2>1. /\ j \in Seq(Letter) /\ JsonString(t) \in Seq(Letter) /\ Piece(c) \in Seq(Letter)
        /\ Backslash \in Letter
    <3>1. JsonString(t) \in Seq(Letter) /\ Piece(c) \in Seq(Letter) /\ Backslash \in Letter
      BY JsonIs, PieceIs, Specials
    <3> QED
      BY <3>1, ConcatProperties
  <2>2. json \o JsonString(Append(t, c)) = j \o Piece(c)
    <3>1. JsonString(Append(t, c)) = JsonString(t) \o Piece(c)
      BY JsonIs
    <3>2. json \o (JsonString(t) \o Piece(c)) = (json \o JsonString(t)) \o Piece(c)
      BY <2>1, ConcatAssociative
    <3> QED
      BY <3>1, <3>2
  <2>3. After(j) = Within(l, t)
    BY <1>2
  <2> HIDE DEF j
  <2>4. CASE c \in {Quote, Backslash}
    <3>1. j \o Piece(c) = Append(Append(j, Backslash), c) /\ Append(j, Backslash) \in Seq(Letter)
      <4>1. Piece(c) = <<Backslash, c>>
        BY <2>4 DEF Piece
      <4> QED
        BY <2>1, <4>1, AppendTwo
    <3>2. After(Append(j, Backslash)) = ReadChar(Within(l, t), Backslash)
      BY <2>1, <2>3, ReadJsonNext
    <3>3. After(Append(Append(j, Backslash), c)) = ReadChar(ReadChar(Within(l, t), Backslash), c)
      BY <3>1, <3>2, ReadJsonNext
    <3>4. ReadChar(ReadChar(Within(l, t), Backslash), c) = Within(l, Append(t, c))
      BY <2>4, ReadCharIs
    <3> QED
      BY <2>2, <3>1, <3>3, <3>4, Zenon
  <2>5. CASE c \notin {Quote, Backslash}
    <3>1. j \o Piece(c) = Append(j, c)
      <4>1. Piece(c) = <<c>>
        BY <2>5, Zenon DEF Piece
      <4> QED
        BY <2>1, <4>1, AppendTwo
    <3>2. After(Append(j, c)) = ReadChar(Within(l, t), c)
      BY <2>1, <2>3, ReadJsonNext
    <3>3. ReadChar(Within(l, t), c) = Within(l, Append(t, c))
      BY <2>5, ReadCharIs
    <3> QED
      BY <2>2, <3>1, <3>2, <3>3, Zenon
  <2> QED
    BY <2>4, <2>5
<1> HIDE DEF T
<1>3. \A t \in Seq(Letter) : t \in T
  BY <1>1, <1>2, ByPrefixes
<1> QED
  BY <1>3 DEF T

(* What stands in the reply for a parameter. *)
JsonItem(first, p) == (IF first THEN <<>> ELSE <<Comma>>) \o <<Quote>> \o Escaped(p) \o <<Quote>>

LEMMA JsonItemTyped ==
  ASSUME NEW first \in BOOLEAN, NEW p \in Seq(Letter)
  PROVE  JsonItem(first, p) \in Seq(Letter)
<1>1. <<>> \in Seq(Letter) /\ <<Comma>> \in Seq(Letter) /\ <<Quote>> \in Seq(Letter) /\ Escaped(p) \in Seq(Letter)
  BY EmptySeq, PieceIs, EscapedIs, Specials
<1> HIDE DEF Letter
<1> QED
  BY <1>1, ConcatProperties DEF JsonItem

LEMMA ToJsonIs ==
  /\ ToJson(<<>>) = <<>>
  /\ \A ps \in Seq(Seq(Letter)) : ToJson(ps) \in Seq(Letter)
  /\ \A ps \in Seq(Seq(Letter)), p \in Seq(Letter) :
       ToJson(Append(ps, p)) = ToJson(ps) \o JsonItem(ps = <<>>, p)
<1> DEFINE Map(ps) == [i \in DOMAIN ps |-> JsonItem(i = 1, ps[i])]
<1>1. \A ps : ToJson(ps) = FlattenSeq(Map(ps))
  BY Zenon DEF ToJson, JsonItem
<1>2. Map(<<>>) = <<>>
  OBVIOUS
<1>3. \A ps \in Seq(Seq(Letter)) : Map(ps) \in Seq(Seq(Letter))
  <2> SUFFICES ASSUME NEW ps \in Seq(Seq(Letter)) PROVE Map(ps) \in Seq(Seq(Letter))
    OBVIOUS
  <2>1. DOMAIN ps = 1..Len(ps) /\ Len(ps) \in Nat /\ \A i \in 1..Len(ps) : ps[i] \in Seq(Letter)
    BY LenProperties
  <2>2. \A i \in 1..Len(ps) : JsonItem(i = 1, ps[i]) \in Seq(Letter)
    BY <2>1, JsonItemTyped
  <2> QED
    BY <2>1, <2>2, IsASeq
<1>4. ASSUME NEW ps \in Seq(Seq(Letter)), NEW p \in Seq(Letter)
      PROVE  Map(Append(ps, p)) = Append(Map(ps), JsonItem(ps = <<>>, p))
  <2> DEFINE n == Len(ps)
             more == Append(ps, p)
  <2>1. Map(ps) \in Seq(Seq(Letter)) /\ Len(Map(ps)) = n /\ n \in Nat
    BY <1>3, AppendIs
  <2>2. /\ DOMAIN more = 1..(n + 1) /\ more[n + 1] = p /\ \A i \in 1..n : more[i] = ps[i]
        /\ DOMAIN ps = 1..n
    BY AppendIs
  <2>3. (n + 1 = 1) = (ps = <<>>)
    <3>1. n = 0 <=> ps = <<>>
      BY <2>1, EmptySeq
    <3> QED
      BY <2>1, <3>1
  <2>4. \A i \in 1..n : JsonItem(i = 1, more[i]) = JsonItem(i = 1, ps[i])
    BY <2>2
  <2>5. JsonItem(n + 1 = 1, more[n + 1]) = JsonItem(ps = <<>>, p)
    BY <2>2, <2>3, Zenon
  <2> HIDE DEF n, more
  <2>6. Len(Map(ps)) = n /\ \A i \in 1..n : Map(ps)[i] = JsonItem(i = 1, ps[i])
    BY <2>1, <2>2
  <2>7. Map(more) = [i \in 1..(n + 1) |-> IF i <= n THEN Map(ps)[i] ELSE JsonItem(ps = <<>>, p)]
    <3>1. ASSUME NEW i \in 1..(n + 1)
          PROVE  JsonItem(i = 1, more[i]) = IF i <= n THEN Map(ps)[i] ELSE JsonItem(ps = <<>>, p)
      <4>1. i \in 1..n \/ (i = n + 1 /\ ~(i <= n))
        BY <2>1
      <4>2. i \in 1..n => i <= n
        BY <2>1
      <4>3. CASE i \in 1..n
        BY <2>4, <2>6, <4>2, <4>3
      <4>4. CASE i = n + 1 /\ ~(i <= n)
        BY <2>5, <4>4, Zenon
      <4> QED
        BY <4>1, <4>3, <4>4
    <3> QED
      BY <2>2, <3>1
  <2>8. Append(Map(ps), JsonItem(ps = <<>>, p))
        = [i \in 1..(n + 1) |-> IF i <= n THEN Map(ps)[i] ELSE JsonItem(ps = <<>>, p)]
    <3> DEFINE e == JsonItem(ps = <<>>, p)
               m == Map(ps)
    <3>1. m \in Seq(Seq(Letter)) /\ Len(m) = n /\ n \in Nat /\ e \in Seq(Letter)
      BY <2>1, JsonItemTyped
    <3> HIDE DEF e, m, Map, n, Letter
    <3>2. Append(m, e) \in Seq(Seq(Letter)) /\ Len(Append(m, e)) = n + 1
          /\ DOMAIN Append(m, e) = 1..(n + 1) /\ Append(m, e)[n + 1] = e
          /\ \A i \in 1..n : Append(m, e)[i] = m[i]
      BY <3>1, AppendIs
    <3>3. Append(m, e) = [i \in 1..(n + 1) |-> Append(m, e)[i]]
      <4> DEFINE a == Append(m, e)
      <4>1. a \in [1..(n + 1) -> Seq(Letter)]
        BY <3>2, LenProperties
      <4> HIDE DEF a
      <4>2. a = [i \in 1..(n + 1) |-> a[i]]
        BY <4>1
      <4> QED
        BY <4>2 DEF a
    <3>4. ASSUME NEW i \in 1..(n + 1) PROVE Append(m, e)[i] = IF i <= n THEN m[i] ELSE e
      BY <3>1, <3>2
    <3>5. Append(m, e) = [i \in 1..(n + 1) |-> IF i <= n THEN m[i] ELSE e]
      <4> HIDE DEF e
      <4> QED
        BY <3>3, <3>4, Zenon
    <3> QED
      BY <3>5 DEF e, m
  <2> QED
    BY <2>7, <2>8 DEF more
<1> HIDE DEF Map
<1>5. ToJson(<<>>) = <<>>
  BY <1>1, <1>2, FlattenEmpty
<1>6. \A ps \in Seq(Seq(Letter)) : ToJson(ps) \in Seq(Letter)
  BY <1>1, <1>3, FlattenTyped
<1>7. ASSUME NEW ps \in Seq(Seq(Letter)), NEW p \in Seq(Letter)
      PROVE  ToJson(Append(ps, p)) = ToJson(ps) \o JsonItem(ps = <<>>, p)
  <2>1. JsonItem(ps = <<>>, p) \in Seq(Letter)
    <3>1. (ps = <<>>) \in BOOLEAN
      OBVIOUS
    <3> QED
      BY <3>1, JsonItemTyped
  <2>2. ToJson(Append(ps, p)) = FlattenSeq(Append(Map(ps), JsonItem(ps = <<>>, p)))
    BY <1>1, <1>4
  <2>3. Map(ps) \in Seq(Seq(Letter)) /\ ToJson(ps) = FlattenSeq(Map(ps))
    BY <1>1, <1>3
  <2>4. FlattenSeq(Append(Map(ps), JsonItem(ps = <<>>, p))) = FlattenSeq(Map(ps)) \o JsonItem(ps = <<>>, p)
    <3> DEFINE e == JsonItem(ps = <<>>, p)
    <3>1. e \in Seq(Letter)
      BY <2>1
    <3> HIDE DEF e
    <3>2. FlattenSeq(Append(Map(ps), e)) = FlattenSeq(Map(ps)) \o e
      BY <2>3, <3>1, FlattenAppend
    <3> QED
      BY <3>2 DEF e
  <2> QED
    BY <2>2, <2>3, <2>4, Zenon
<1> QED
  BY <1>5, <1>6, <1>7

LEMMA Regrouped == \A s, t, u \in Seq(Letter) : s \o (t \o u) = (s \o t) \o u
BY ConcatAssociative

(* Two lists of texts, of which the first is told as the second is written. *)
Pairs(ps, qs) == Len(ps) = Len(qs) /\ \A i \in 1..Len(ps) : Escaped(ps[i]) = JsonString(qs[i])

(* What is told is read.                                                    *)
LEMMA ReadsBack ==
  ASSUME NEW ps \in Seq(Seq(Letter)), NEW qs \in Seq(Seq(Letter)), Pairs(ps, qs)
  PROVE  ReadJson(ToJson(ps)) = qs
<1> DEFINE T == {us \in Seq(Seq(Letter)) : \A vs \in Seq(Seq(Letter)) :
                   Pairs(us, vs) => After(ToJson(us)) = [at |-> "out", list |-> vs]}
<1>1. <<>> \in T
  <2>1. <<>> \in Seq(Seq(Letter)) /\ Len(<<>>) = 0
    BY EmptySeq
  <2>2. ASSUME NEW vs \in Seq(Seq(Letter)), Pairs(<<>>, vs)
        PROVE  After(ToJson(<<>>)) = [at |-> "out", list |-> vs]
    <3>1. vs = <<>>
      BY <2>1, <2>2, EmptySeq DEF Pairs
    <3> QED
      BY <3>1, ToJsonIs, ReadJsonNext
  <2> QED
    BY <2>1, <2>2, Zenon
<1>2. ASSUME NEW us \in Seq(Seq(Letter)), NEW p \in Seq(Letter), us \in T PROVE Append(us, p) \in T
  <2> SUFFICES ASSUME NEW vs \in Seq(Seq(Letter)), Pairs(Append(us, p), vs)
               PROVE  After(ToJson(Append(us, p))) = [at |-> "out", list |-> vs]
    <3>1. Append(us, p) \in Seq(Seq(Letter))
      BY AppendIs
    <3> QED
      BY <3>1, Zenon
  <2> DEFINE n == Len(us)
             l == SubSeq(vs, 1, n)
             v == vs[n + 1]
             j == ToJson(us)
  <2>1. /\ n \in Nat /\ Len(Append(us, p)) = n + 1 /\ Append(us, p)[n + 1] = p
        /\ \A i \in 1..n : Append(us, p)[i] = us[i]
    BY AppendIs
  <2>2. Len(vs) = n + 1 /\ \A i \in 1..(n + 1) : Escaped(Append(us, p)[i]) = JsonString(vs[i])
    BY <2>1 DEF Pairs
  <2>3. /\ l \in Seq(Seq(Letter)) /\ v \in Seq(Letter) /\ Append(l, v) = vs
        /\ Len(l) = n /\ \A i \in 1..n : l[i] = vs[i]
    <3> HIDE DEF Letter
    <3> QED
      BY <2>1, <2>2
  <2>4. Escaped(p) = JsonString(v)
    <3>1. n + 1 \in 1..(n + 1)
      BY <2>1
    <3> QED
      BY <2>1, <2>2, <3>1
  <2>5. Pairs(us, l)
    <3>1. ASSUME NEW i \in 1..n PROVE Escaped(us[i]) = JsonString(l[i])
      <4>1. i \in 1..(n + 1)
        BY <2>1
      <4> QED
        BY <2>1, <2>2, <2>3, <4>1
    <3> QED
      BY <2>3, <3>1 DEF Pairs
  <2>6. After(j) = [at |-> "out", list |-> l] /\ j \in Seq(Letter)
    BY <1>2, <2>3, <2>5, ToJsonIs
  <2>7. ToJson(Append(us, p)) = j \o JsonItem(us = <<>>, p)
    BY ToJsonIs
  <2> HIDE DEF j, l, v
  <2> DEFINE k == IF us = <<>> THEN j ELSE Append(j, Comma)
             o == Append(k, Quote)
  <2>8. Quote \in Letter /\ Comma \in Letter /\ JsonString(v) \in Seq(Letter)
    BY <2>3, Specials, JsonIs
  <2>9. k \in Seq(Letter) /\ o \in Seq(Letter) /\ o \o JsonString(v) \in Seq(Letter)
    <3>1. k \in Seq(Letter)
      BY <2>6, <2>8, AppendIs
    <3>2. o \in Seq(Letter)
      BY <2>8, <3>1, AppendIs
    <3> QED
      BY <2>8, <3>1, <3>2, ConcatProperties
  <2>10. j \o JsonItem(us = <<>>, p) = Append(o \o JsonString(v), Quote)
    <3>1. JsonItem(us = <<>>, p)
          = ((IF us = <<>> THEN <<>> ELSE <<Comma>>) \o <<Quote>>) \o JsonString(v) \o <<Quote>>
      BY <2>4, Zenon DEF JsonItem
    <3> DEFINE a == IF us = <<>> THEN <<>> ELSE <<Comma>>
               e == JsonString(v)
    <3>2. a \in Seq(Letter) /\ <<Quote>> \in Seq(Letter) /\ e \in Seq(Letter)
      BY <2>8, EmptySeq, PieceIs
    <3>3. j \o a = k
      <4>1. j \o <<>> = j /\ j \o <<Comma>> = Append(j, Comma)
        BY <2>6, <2>8, ConcatEmptySeq, AppendTwo
      <4> QED
        BY <4>1
    <3> HIDE DEF a, e, k
    <3>4. k \o <<Quote>> = o
      BY <2>8, <2>9, AppendTwo
    <3>5. (o \o e) \o <<Quote>> = Append(o \o e, Quote)
      <4>1. o \o e \in Seq(Letter)
        BY <2>9, <3>2, ConcatProperties
      <4> QED
        BY <2>8, <4>1, AppendTwo
    <3>6. /\ a \o <<Quote>> \in Seq(Letter) /\ (a \o <<Quote>>) \o e \in Seq(Letter)
      BY <3>2, ConcatProperties
    <3>7. j \o ((a \o <<Quote>>) \o e \o <<Quote>>) = (j \o ((a \o <<Quote>>) \o e)) \o <<Quote>>
      BY <2>6, <3>2, <3>6, Regrouped, Zenon
    <3>8. j \o ((a \o <<Quote>>) \o e) = (j \o (a \o <<Quote>>)) \o e
      BY <2>6, <3>2, <3>6, Regrouped, Zenon
    <3>9. j \o (a \o <<Quote>>) = (j \o a) \o <<Quote>>
      BY <2>6, <3>2, ConcatAssociative
    <3>10. JsonItem(us = <<>>, p) = (a \o <<Quote>>) \o e \o <<Quote>>
      BY <3>1, Zenon DEF a, e
    <3>11. Append(o \o JsonString(v), Quote) = Append(o \o e, Quote)
      BY DEF e
    <3> HIDE DEF o
    <3> QED
      BY <3>3, <3>4, <3>5, <3>7, <3>8, <3>9, <3>10, <3>11, Zenon
  <2>11. After(k) = [at |-> "out", list |-> l]
    <3>1. After(Append(j, Comma)) = ReadChar([at |-> "out", list |-> l], Comma)
      BY <2>6, <2>8, ReadJsonNext
    <3>2. ReadChar([at |-> "out", list |-> l], Comma) = [at |-> "out", list |-> l]
      BY <2>3, <2>8, ReadCharIs
    <3> QED
      BY <2>6, <3>1, <3>2
  <2> HIDE DEF k
  <2>12. After(o) = Within(l, <<>>)
    <3>1. After(o) = ReadChar(After(k), Quote)
      BY <2>8, <2>9, ReadJsonNext
    <3>2. ReadChar([at |-> "out", list |-> l], Quote) = Within(l, <<>>)
      BY <2>3, <2>8, ReadCharIs
    <3> QED
      BY <2>11, <3>1, <3>2, Zenon
  <2> HIDE DEF o
  <2>13. After(o \o JsonString(v)) = Within(l, v)
    BY <2>3, <2>9, <2>12, ReadsText
  <2>14. After(Append(o \o JsonString(v), Quote)) = [at |-> "out", list |-> Append(l, v)]
    <3>1. After(Append(o \o JsonString(v), Quote)) = ReadChar(Within(l, v), Quote)
      BY <2>8, <2>9, <2>13, ReadJsonNext
    <3>2. ReadChar(Within(l, v), Quote) = [at |-> "out", list |-> Append(l, v)]
      BY <2>3, <2>8, ReadCharIs
    <3> QED
      BY <3>1, <3>2, Zenon
  <2> QED
    BY <2>3, <2>7, <2>10, <2>14, Zenon
<1>3. ps \in T
  <2> HIDE DEF T
  <2> QED
    BY <1>1, <1>2, ByPrefixes
<1>4. After(ToJson(ps)) = [at |-> "out", list |-> qs]
  BY <1>3
<1> QED
  BY <1>4 DEF ReadJson, After

-----------------------------------------------------------------------------
(* Words and parameters. *)

(* All but the first character, if there is one. *)
Behind(s) == SubSeq(s, 2, Len(s))

LEMMA BehindIs ==
  ASSUME NEW s \in Seq(Letter), NEW c \in Letter
  PROVE  /\ Behind(<<>>) = <<>> /\ Behind(<<c>> \o s) = s /\ Behind(s) \in Seq(Letter)
         /\ (<<c>> \o s)[1] = c /\ <<c>> \o s # <<>> /\ <<c>> \o s \in Seq(Letter)
         /\ Head(<<c>> \o s) = c /\ Tail(<<c>> \o s) = s
<1> HIDE DEF Letter
<1>1. Behind(<<>>) = <<>>
  BY SubSeqEmpty DEF Behind
<1>2. /\ <<c>> \o s \in Seq(Letter) /\ Len(<<c>> \o s) = Len(s) + 1 /\ (<<c>> \o s)[1] = c
      /\ \A i \in 1..Len(s) : (<<c>> \o s)[i + 1] = s[i]
  OBVIOUS
<1>3. Behind(<<c>> \o s) = s
  BY <1>2 DEF Behind
<1>4. Behind(s) \in Seq(Letter)
  BY DEF Behind
<1>5. Head(<<c>> \o s) = c /\ Tail(<<c>> \o s) = s /\ <<c>> \o s # <<>>
  OBVIOUS
<1> QED
  BY <1>1, <1>2, <1>3, <1>4, <1>5

LEMMA WordIs ==
  ASSUME NEW w \in Seq(Letter), NEW m \in Seq(Letter), Lacks(w, Space),
         m = <<>> \/ m[1] = Space
  PROVE  Word(w \o m) = w /\ Rest(w \o m) = Behind(m)
<1> DEFINE n == Len(w)
           t == w \o m
           u == t \o <<Space>>
           I == {i \in 1..Len(u) : u[i] = Space}
<1>1. Space \in Letter
  BY Specials
<1> HIDE DEF Letter
<1>2. /\ t \in Seq(Letter) /\ Len(t) = n + Len(m) /\ n \in Nat /\ Len(m) \in Nat
      /\ \A i \in 1..n : t[i] = w[i]
      /\ \A i \in 1..Len(m) : t[n + i] = m[i]
  OBVIOUS
<1>3. /\ Len(u) = Len(t) + 1 /\ u[Len(t) + 1] = Space /\ \A i \in 1..Len(t) : u[i] = t[i]
  BY <1>1, <1>2
<1>4. \A i \in 1..n : w[i] # Space
  BY DEF Lacks, Contains
<1> HIDE DEF u
<1>5. n + 1 \in I
  <2>1. n + 1 \in 1..Len(u)
    BY <1>2, <1>3
  <2>2. u[n + 1] = Space
    <3>1. CASE m = <<>>
      BY <1>2, <1>3, <3>1
    <3>2. CASE m # <<>>
      <4>1. 1 \in 1..Len(m) /\ n + 1 \in 1..Len(t)
        BY <1>2, <3>2
      <4> QED
        BY <1>2, <1>3, <3>2, <4>1
    <3> QED
      BY <3>1, <3>2
  <2> QED
    BY <2>1, <2>2
<1>6. \A i \in I : n + 1 <= i /\ i \in Nat
  <2> SUFFICES ASSUME NEW i \in I PROVE n + 1 <= i /\ i \in Nat
    OBVIOUS
  <2>1. i \in 1..Len(u) /\ u[i] = Space
    OBVIOUS
  <2>2. i \in 1..n => u[i] = w[i]
    BY <1>2, <1>3
  <2> QED
    BY <1>2, <1>3, <1>4, <2>1, <2>2
<1>7. SelectInSeq(u, LAMBDA c : c = Space) = IF I # {} THEN Min(I) ELSE 0
  BY DEF SelectInSeq
<1> HIDE DEF I
<1>8. Min(I) = n + 1
  BY <1>2, <1>5, <1>6 DEF Min
<1>9. Word(t) = SubSeq(t, 1, n)
  <2>1. Word(t) = SubSeq(t, 1, SelectInSeq(u, LAMBDA c : c = Space) - 1)
    BY DEF Word, u
  <2>2. SelectInSeq(u, LAMBDA c : c = Space) - 1 = n
    BY <1>2, <1>5, <1>7, <1>8
  <2> QED
    BY <2>1, <2>2
<1>10. SubSeq(t, 1, n) = w
  BY <1>2
<1>11. Rest(t) = Behind(m)
  <2>1. Rest(t) = SubSeq(t, n + 2, Len(t))
    BY <1>9, <1>10 DEF Rest
  <2>2. SubSeq(t, n + 2, Len(t)) = SubSeq(m, 2, Len(m))
    BY <1>2
  <2> QED
    BY <2>1, <2>2 DEF Behind
<1> QED
  BY <1>9, <1>10, <1>11

LEMMA TwoAre == ASSUME NEW S, NEW a \in S, NEW b \in S PROVE <<a, b>> = <<a>> \o <<b>>
<1>1. <<a>> \in Seq(S) /\ <<a, b>> = Append(<<a>>, b)
  OBVIOUS
<1>2. Append(<<a>>, b) = <<a>> \o <<b>>
  BY <1>1, AppendIs
<1> QED
  BY <1>1, <1>2, Zenon

LEMMA MoreIs ==
  ASSUME NEW w \in Seq(Letter)
  PROVE  /\ More(w) \in Seq(Letter) /\ More(w)[1] = Space /\ More(w) = <<Space>> \o w
         /\ Trailing(w) \in Seq(Letter) /\ Trailing(w)[1] = Space
         /\ Trailing(w) = <<Space>> \o (<<Colon>> \o w)
<1>1. Space \in Letter /\ Colon \in Letter
  BY Specials
<1> HIDE DEF Letter
<1>2. More(w) \in Seq(Letter) /\ More(w)[1] = Space /\ More(w) = <<Space>> \o w
  BY <1>1 DEF More
<1>3. Trailing(w) \in Seq(Letter) /\ Trailing(w)[1] = Space
  BY <1>1 DEF Trailing
<1>4. Trailing(w) = <<Space>> \o (<<Colon>> \o w)
  <2>1. <<Space, Colon>> = <<Space>> \o <<Colon>>
    BY <1>1, TwoAre
  <2>2. <<Space>> \in Seq(Letter) /\ <<Colon>> \in Seq(Letter)
    BY <1>1
  <2>3. <<Space>> \o (<<Colon>> \o w) = (<<Space>> \o <<Colon>>) \o w
    BY <2>2, Regrouped
  <2> QED
    BY <2>1, <2>3, Zenon DEF Trailing
<1> QED
  BY <1>2, <1>3, <1>4

LEMMA MiddlesIs ==
  /\ Middles(<<>>) = <<>>
  /\ \A ws \in Seq(Seq(Letter)) : Middles(ws) \in Seq(Letter)
  /\ \A w \in Seq(Letter), ws \in Seq(Seq(Letter)) : Middles(<<w>> \o ws) = More(w) \o Middles(ws)
<1> DEFINE Map(ws) == [i \in DOMAIN ws |-> More(ws[i])]
<1>1. \A ws : Middles(ws) = FlattenSeq(Map(ws))
  BY DEF Middles
<1>2. Map(<<>>) = <<>>
  OBVIOUS
<1>3. \A ws \in Seq(Seq(Letter)) : Map(ws) \in Seq(Seq(Letter))
  <2> SUFFICES ASSUME NEW ws \in Seq(Seq(Letter)) PROVE Map(ws) \in Seq(Seq(Letter))
    OBVIOUS
  <2>1. DOMAIN ws = 1..Len(ws) /\ Len(ws) \in Nat /\ \A i \in 1..Len(ws) : ws[i] \in Seq(Letter)
    BY LenProperties
  <2>2. \A i \in 1..Len(ws) : More(ws[i]) \in Seq(Letter)
    BY <2>1, MoreIs
  <2> QED
    BY <2>1, <2>2, IsASeq
<1>4. ASSUME NEW w \in Seq(Letter), NEW ws \in Seq(Seq(Letter))
      PROVE  Map(<<w>> \o ws) = <<More(w)>> \o Map(ws)
  <2> DEFINE m == More(w)
             W == Seq(Letter)
  <2>1. Map(ws) \in Seq(W) /\ Len(Map(ws)) = Len(ws) /\ Len(ws) \in Nat /\ m \in W
        /\ ws \in Seq(W) /\ w \in W /\ \A i \in 1..Len(ws) : Map(ws)[i] = More(ws[i])
    <3>1. DOMAIN ws = 1..Len(ws) /\ Len(ws) \in Nat /\ m \in W
      BY LenProperties, MoreIs
    <3>2. Len(Map(ws)) = Len(ws) /\ \A i \in 1..Len(ws) : Map(ws)[i] = More(ws[i])
      BY <3>1
    <3> QED
      BY <1>3, <3>1, <3>2
  <2>2. /\ DOMAIN (<<w>> \o ws) = 1..(Len(ws) + 1) /\ (<<w>> \o ws)[1] = w
        /\ \A i \in 2..(Len(ws) + 1) : (<<w>> \o ws)[i] = ws[i - 1]
    <3> HIDE DEF W
    <3> QED
      BY <2>1
  <2> HIDE DEF W
  <2>3. Map(<<w>> \o ws) = [i \in 1..(Len(ws) + 1) |-> IF i = 1 THEN m ELSE More(ws[i - 1])]
    <3>1. \A i \in 1..(Len(ws) + 1) :
            More((<<w>> \o ws)[i]) = IF i = 1 THEN m ELSE More(ws[i - 1])
      BY <2>1, <2>2
    <3> HIDE DEF m
    <3> QED
      BY <2>2, <3>1
  <2> HIDE DEF m, Map
  <2>4. <<m>> \o Map(ws) = [i \in 1..(Len(ws) + 1) |-> IF i = 1 THEN m ELSE Map(ws)[i - 1]]
    BY <2>1
  <2>5. \A i \in 1..(Len(ws) + 1) : i # 1 => Map(ws)[i - 1] = More(ws[i - 1])
    <3>1. \A i \in 1..(Len(ws) + 1) : i # 1 => i - 1 \in 1..Len(ws)
      BY <2>1
    <3> QED
      BY <2>1, <3>1, Zenon
  <2>6. [i \in 1..(Len(ws) + 1) |-> IF i = 1 THEN m ELSE Map(ws)[i - 1]]
        = [i \in 1..(Len(ws) + 1) |-> IF i = 1 THEN m ELSE More(ws[i - 1])]
    BY <2>5
  <2>7. Map(<<w>> \o ws) = <<m>> \o Map(ws)
    BY <2>3, <2>4, <2>6, Zenon
  <2> QED
    BY <2>7 DEF m
<1> HIDE DEF Map
<1>5. Middles(<<>>) = <<>>
  BY <1>1, <1>2, FlattenEmpty
<1>6. \A ws \in Seq(Seq(Letter)) : Middles(ws) \in Seq(Letter)
  BY <1>1, <1>3, FlattenTyped
<1>7. ASSUME NEW w \in Seq(Letter), NEW ws \in Seq(Seq(Letter))
      PROVE  Middles(<<w>> \o ws) = More(w) \o Middles(ws)
  <2>1. Map(ws) \in Seq(Seq(Letter)) /\ More(w) \in Seq(Letter)
    BY <1>3, MoreIs
  <2>2. <<More(w)>> \in Seq(Seq(Letter))
    BY <2>1
  <2>3. FlattenSeq(<<More(w)>> \o Map(ws)) = FlattenSeq(<<More(w)>>) \o FlattenSeq(Map(ws))
    BY <2>1, <2>2, FlattenConcat
  <2>4. FlattenSeq(<<More(w)>>) = More(w)
    BY <2>1, FlattenFew
  <2>5. Middles(<<w>> \o ws) = FlattenSeq(<<More(w)>> \o Map(ws))
    BY <1>1, <1>4
  <2>6. Middles(ws) = FlattenSeq(Map(ws))
    BY <1>1
  <2> QED
    BY <2>3, <2>4, <2>5, <2>6, Zenon
<1> QED
  BY <1>5, <1>6, <1>7

(* The end of a line: a text of any characters, or none.                    *)
Ending(texts) == IF texts = <<>> THEN <<>> ELSE Trailing(texts[1])
Endings == {<<>>} \cup {<<t>> : t \in Seq(Letter)}

LEMMA EndingIs ==
  ASSUME NEW texts \in Endings
  PROVE  /\ texts \in Seq(Seq(Letter)) /\ Ending(texts) \in Seq(Letter)
         /\ texts = <<>> => Ending(texts) = <<>> /\ Len(texts) = 0
         /\ texts # <<>> => /\ texts[1] \in Seq(Letter) /\ Len(texts) = 1 /\ texts = <<texts[1]>>
                            /\ Ending(texts) = Trailing(texts[1])
<1>1. CASE texts = <<>>
  BY <1>1, EmptySeq DEF Ending
<1>2. CASE texts # <<>>
  <2>1. PICK t \in Seq(Letter) : texts = <<t>>
    BY <1>2, Zenon DEF Endings
  <2>2. texts[1] = t /\ texts \in Seq(Seq(Letter)) /\ Len(texts) = 1
    BY <2>1
  <2>3. Ending(texts) = Trailing(t)
    BY <1>2, <2>2 DEF Ending
  <2> QED
    BY <1>2, <2>1, <2>2, <2>3, MoreIs
<1> QED
  BY <1>1, <1>2

LEMMA TakingIs ==
  ASSUME NEW t
  PROVE  Taking(t) = [i \in 0..MaxParams |->
           IF i = 0 THEN [params |-> <<>>, rest |-> t] ELSE TakeParam(Taking(t)[i - 1])]
<1> DEFINE Step(s, i) == TakeParam(s)
           start == [params |-> <<>>, rest |-> t]
           Is(f, m) == f = [i \in 0..m |-> IF i = 0 THEN start ELSE Step(f[i - 1], i)]
           T == {m \in Nat : \E f : Is(f, m)}
<1>1. Taking(t) = CHOOSE f : Is(f, MaxParams)
  BY Zenon DEF Taking
<1> HIDE DEF Step, start
<1>2. 0 \in T
  <2>1. Is([i \in 0..0 |-> start], 0)
    OBVIOUS
  <2> QED
    BY <2>1
<1>3. ASSUME NEW m \in 1..MaxParams, m - 1 \in T PROVE m \in T
  <2>1. PICK f : Is(f, m - 1)
    BY <1>3
  <2> DEFINE g == [i \in 0..m |-> IF i < m THEN f[i] ELSE Step(f[m - 1], m)]
  <2>2. ASSUME NEW i \in 0..m PROVE g[i] = IF i = 0 THEN start ELSE Step(g[i - 1], i)
    <3>1. i \in Nat /\ m \in Nat /\ (i # 0 => i - 1 \in 0..m /\ i - 1 < m)
      OBVIOUS
    <3>2. i < m => i \in 0..(m - 1)
      BY <3>1
    <3>3. i # 0 => g[i - 1] = f[i - 1]
      BY <3>1
    <3>4. CASE i < m
      BY <2>1, <3>1, <3>2, <3>3, <3>4
    <3>5. CASE i = m
      BY <3>3, <3>5
    <3> QED
      BY <3>1, <3>4, <3>5
  <2>3. Is(g, m)
    BY <2>2
  <2>4. m \in Nat /\ \E h : Is(h, m)
    <3> HIDE DEF g
    <3> QED
      BY <2>3
  <2> QED
    BY <2>4, Zenon
<1>4. \E f : Is(f, MaxParams)
  <2>1. MaxParams \in 0..MaxParams /\ MaxParams \in Nat
    BY LimitAssumption
  <2>2. MaxParams \in T
    <3> HIDE DEF T
    <3> QED
      BY <1>2, <1>3, <2>1, Upwards
  <2> QED
    BY <2>2, Zenon
<1>5. Is(Taking(t), MaxParams)
  BY <1>1, <1>4, Zenon
<1> QED
  BY <1>5, Zenon DEF Step, start

LEMMA FirstIs ==
  ASSUME NEW S, NEW ps \in Seq(S), NEW k \in Nat
  PROVE  /\ First(ps, 0) = <<>>
         /\ First(ps, k) \in Seq(S) /\ Len(First(ps, k)) = (IF k < Len(ps) THEN k ELSE Len(ps))
         /\ \A i \in 1..Len(First(ps, k)) : First(ps, k)[i] = ps[i] /\ i \in 1..Len(ps)
         /\ k < Len(ps) => First(ps, k + 1) = Append(First(ps, k), ps[k + 1])
         /\ k >= Len(ps) => First(ps, k) = ps
<1>1. Len(ps) \in Nat
  OBVIOUS
<1>2. First(ps, 0) = <<>>
  BY <1>1, SubSeqEmpty DEF First
<1>3. /\ First(ps, k) \in Seq(S) /\ Len(First(ps, k)) = (IF k < Len(ps) THEN k ELSE Len(ps))
      /\ \A i \in 1..Len(First(ps, k)) : First(ps, k)[i] = ps[i] /\ i \in 1..Len(ps)
  <2>1. CASE k < Len(ps)
    <3>1. First(ps, k) = SubSeq(ps, 1, k)
      BY <2>1, <1>1 DEF First
    <3>2. SubSeq(ps, 1, k) \in Seq(S) /\ Len(SubSeq(ps, 1, k)) = k
          /\ \A i \in 1..k : SubSeq(ps, 1, k)[i] = ps[i]
      BY <2>1, <1>1
    <3> QED
      BY <1>1, <2>1, <3>1, <3>2
  <2>2. CASE ~(k < Len(ps))
    <3>1. First(ps, k) = ps
      BY <2>2, <1>1, SubSeqFull DEF First
    <3> QED
      BY <1>1, <2>2, <3>1
  <2> QED
    BY <2>1, <2>2
<1>4. k < Len(ps) => First(ps, k + 1) = Append(First(ps, k), ps[k + 1])
  <2> SUFFICES ASSUME k < Len(ps) PROVE First(ps, k + 1) = Append(First(ps, k), ps[k + 1])
    OBVIOUS
  <2>1. First(ps, k) = SubSeq(ps, 1, k)
    BY <1>1 DEF First
  <2>2. First(ps, k + 1) = SubSeq(ps, 1, k + 1)
    <3>1. k + 1 < Len(ps) \/ k + 1 = Len(ps)
      BY <1>1
    <3> QED
      BY <1>1, <3>1 DEF First
  <2>3. SubSeq(ps, 1, k + 1) = Append(SubSeq(ps, 1, k), ps[k + 1])
    BY <1>1
  <2> QED
    BY <2>1, <2>2, <2>3
<1>5. k >= Len(ps) => First(ps, k) = ps
  BY <1>1, SubSeqFull DEF First
<1> QED
  BY <1>2, <1>3, <1>4, <1>5

(* The rest of a line before its parameters from the (k + 1)st on.          *)
Remaining(ws, texts, k) ==
  Middles(SubSeq(ws, k + 1, Len(ws))) \o (IF k <= Len(ws) THEN Ending(texts) ELSE <<>>)

AllMiddles(ws) == \A i \in 1..Len(ws) : IsMiddle(ws[i])

LEMMA RemainingIs ==
  ASSUME NEW ws \in Seq(Seq(Letter)), NEW texts \in Endings, NEW k \in Nat
  PROVE  /\ Remaining(ws, texts, k) \in Seq(Letter)
         /\ k < Len(ws) => Remaining(ws, texts, k) = <<Space>> \o (ws[k + 1] \o Remaining(ws, texts, k + 1))
         /\ k = Len(ws) => Remaining(ws, texts, k) = Ending(texts)
         /\ k > Len(ws) => Remaining(ws, texts, k) = <<>>
         /\ Remaining(ws, texts, k) = <<>> \/ Remaining(ws, texts, k)[1] = Space
<1> DEFINE n == Len(ws)
           last == IF k <= n THEN Ending(texts) ELSE <<>>
           m == Middles(SubSeq(ws, k + 2, n))
<1>1. n \in Nat /\ Space \in Letter /\ Ending(texts) \in Seq(Letter)
      /\ (Ending(texts) = <<>> \/ Ending(texts)[1] = Space)
  <2>1. Len(ws) \in Nat
    BY LenProperties
  <2>2. texts # <<>> => Trailing(texts[1])[1] = Space
    BY EndingIs, MoreIs
  <2>3. Ending(texts) = <<>> \/ Ending(texts)[1] = Space
    BY <2>2, EndingIs
  <2> QED
    BY <2>1, <2>3, EndingIs, Specials
<1>2. last \in Seq(Letter)
  BY <1>1, EmptySeq
<1>3. \A i \in Nat \ {0} : SubSeq(ws, i, n) \in Seq(Seq(Letter)) /\ Middles(SubSeq(ws, i, n)) \in Seq(Letter)
  <2> SUFFICES ASSUME NEW i \in Nat \ {0}
               PROVE  SubSeq(ws, i, n) \in Seq(Seq(Letter)) /\ Middles(SubSeq(ws, i, n)) \in Seq(Letter)
    OBVIOUS
  <2>1. SubSeq(ws, i, n) \in Seq(Seq(Letter))
    <3> HIDE DEF Letter
    <3> QED
      BY <1>1
  <2> QED
    BY <2>1, MiddlesIs
<1>4. Remaining(ws, texts, k) \in Seq(Letter)
  BY <1>2, <1>3, ConcatProperties DEF Remaining
<1>5. k < n => Remaining(ws, texts, k) = <<Space>> \o (ws[k + 1] \o Remaining(ws, texts, k + 1))
  <2> SUFFICES ASSUME k < n
               PROVE  Remaining(ws, texts, k) = <<Space>> \o (ws[k + 1] \o Remaining(ws, texts, k + 1))
    OBVIOUS
  <2> DEFINE w == ws[k + 1]
             e == Ending(texts)
  <2>1. w \in Seq(Letter) /\ <<Space>> \in Seq(Letter) /\ k + 1 \in 1..n /\ e \in Seq(Letter)
    BY <1>1, PieceIs, ElementOfSeq
  <2>2. SubSeq(ws, k + 1, n) = <<w>> \o SubSeq(ws, k + 2, n)
    <3>1. n \in (k + 1)..n /\ (k + 1) + 1 = k + 2
      BY <1>1
    <3>2. SubSeq(ws, k + 1, n) = <<w>> \o SubSeq(ws, (k + 1) + 1, n)
      BY <2>1, <3>1, SubSeqRecursiveFirst
    <3> QED
      BY <3>1, <3>2
  <2>3. k + 2 \in Nat \ {0} /\ k <= n /\ k + 1 <= n /\ (k + 1) + 1 = k + 2
    BY <1>1
  <2>4. m \in Seq(Letter) /\ SubSeq(ws, k + 2, n) \in Seq(Seq(Letter))
    BY <1>3, <2>3
  <2>5. Middles(SubSeq(ws, k + 1, n)) = (<<Space>> \o w) \o m
    <3>1. Middles(<<w>> \o SubSeq(ws, k + 2, n)) = More(w) \o m
      BY <2>1, <2>4, MiddlesIs
    <3>2. More(w) = <<Space>> \o w
      BY <2>1, MoreIs
    <3> QED
      BY <2>2, <3>1, <3>2, Zenon
  <2>6. Remaining(ws, texts, k) = ((<<Space>> \o w) \o m) \o e
    BY <2>3, <2>5 DEF Remaining
  <2>7. Remaining(ws, texts, k + 1) = m \o e
    BY <2>3 DEF Remaining
  <2> HIDE DEF m, w, e
  <2>8. <<Space>> \o w \in Seq(Letter) /\ m \o e \in Seq(Letter)
    BY <2>1, <2>4, ConcatProperties
  <2>9. ((<<Space>> \o w) \o m) \o e = (<<Space>> \o w) \o (m \o e)
    <3> DEFINE v == <<Space>> \o w
    <3>1. v \in Seq(Letter) /\ m \in Seq(Letter) /\ e \in Seq(Letter)
      BY <2>1, <2>4, <2>8
    <3> HIDE DEF v
    <3>2. (v \o m) \o e = v \o (m \o e)
      BY <3>1, Regrouped
    <3> QED
      BY <3>2 DEF v
  <2>10. (<<Space>> \o w) \o (m \o e) = <<Space>> \o (w \o (m \o e))
    BY <2>1, <2>8, Regrouped
  <2>11. Remaining(ws, texts, k) = <<Space>> \o (w \o Remaining(ws, texts, k + 1))
    BY <2>6, <2>7, <2>9, <2>10, Zenon
  <2> QED
    BY <2>11 DEF w
<1>6. k >= n => Remaining(ws, texts, k) = last
  <2> SUFFICES ASSUME k >= n PROVE Remaining(ws, texts, k) = last
    OBVIOUS
  <2>1. SubSeq(ws, k + 1, n) = <<>>
    BY <1>1, SubSeqEmpty
  <2>2. Middles(SubSeq(ws, k + 1, n)) = <<>>
    BY <2>1, MiddlesIs
  <2>3. <<>> \o last = last
    BY <1>2, ConcatEmptySeq
  <2> QED
    BY <2>2, <2>3, Zenon DEF Remaining
<1>7. k < n => Remaining(ws, texts, k)[1] = Space
  <2> SUFFICES ASSUME k < n PROVE Remaining(ws, texts, k)[1] = Space
    OBVIOUS
  <2> DEFINE r == ws[k + 1] \o Remaining(ws, texts, k + 1)
  <2>1. ws[k + 1] \in Seq(Letter) /\ Remaining(ws, texts, k + 1) \in Seq(Letter)
    <3>1. k + 1 \in 1..n /\ (k + 1) + 1 \in Nat \ {0}
      BY <1>1
    <3>2. (IF k + 1 <= n THEN Ending(texts) ELSE <<>>) \in Seq(Letter)
      BY <1>1, EmptySeq
    <3> QED
      BY <1>3, <3>1, <3>2, ElementOfSeq, ConcatProperties DEF Remaining
  <2>2. r \in Seq(Letter)
    BY <2>1, ConcatProperties
  <2> HIDE DEF r
  <2>3. (<<Space>> \o r)[1] = Space
    BY <1>1, <2>2, BehindIs
  <2> QED
    BY <1>5, <2>3 DEF r
<1>8. Remaining(ws, texts, k) = <<>> \/ Remaining(ws, texts, k)[1] = Space
  <2>1. k < n \/ (k >= n /\ (last = <<>> \/ last = Ending(texts)))
    BY <1>1
  <2> QED
    BY <1>1, <1>6, <1>7, <2>1
<1>9. /\ k = n => Remaining(ws, texts, k) = Ending(texts)
      /\ k > n => Remaining(ws, texts, k) = <<>>
  BY <1>1, <1>6
<1> QED
  BY <1>4, <1>5, <1>8, <1>9

(* One round of the loop: nothing is left, a text is, or a word is.         *)
LEMMA TakeParamIs ==
  ASSUME NEW ps, NEW w \in Seq(Letter), NEW m \in Seq(Letter), m = <<>> \/ m[1] = Space
  PROVE  /\ TakeParam([params |-> ps, rest |-> <<>>]) = [params |-> ps, rest |-> <<>>]
         /\ TakeParam([params |-> ps, rest |-> <<Colon>> \o w])
              = [params |-> Append(ps, w), rest |-> <<>>]
         /\ IsMiddle(w) => TakeParam([params |-> ps, rest |-> w \o m])
                             = [params |-> Append(ps, w), rest |-> Behind(m)]
<1> DEFINE At(r) == [params |-> ps, rest |-> r]
<1>1. \A r : At(r).params = ps /\ At(r).rest = r
  OBVIOUS
<1>2. \A r : /\ r = <<>> => TakeParam(At(r)) = At(r)
             /\ r # <<>> /\ Head(r) = Colon =>
                  TakeParam(At(r)) = [params |-> Append(ps, Tail(r)), rest |-> <<>>]
             /\ r # <<>> /\ Head(r) # Colon =>
                  TakeParam(At(r)) = [params |-> Append(ps, Word(r)), rest |-> Rest(r)]
  <2> SUFFICES ASSUME NEW r
               PROVE  /\ r = <<>> => TakeParam(At(r)) = At(r)
                      /\ r # <<>> /\ Head(r) = Colon =>
                           TakeParam(At(r)) = [params |-> Append(ps, Tail(r)), rest |-> <<>>]
                      /\ r # <<>> /\ Head(r) # Colon =>
                           TakeParam(At(r)) = [params |-> Append(ps, Word(r)), rest |-> Rest(r)]
    OBVIOUS
  <2> DEFINE s == At(r)
  <2>1. s.params = ps /\ s.rest = r
    BY <1>1
  <2> HIDE DEF s
  <2>2. /\ r = <<>> => TakeParam(s) = s
        /\ r # <<>> /\ Head(r) = Colon =>
             TakeParam(s) = [params |-> Append(ps, Tail(r)), rest |-> <<>>]
        /\ r # <<>> /\ Head(r) # Colon =>
             TakeParam(s) = [params |-> Append(ps, Word(r)), rest |-> Rest(r)]
    BY <2>1 DEF TakeParam
  <2> QED
    BY <2>2 DEF s
<1>3. /\ <<Colon>> \o w # <<>> /\ Head(<<Colon>> \o w) = Colon /\ Tail(<<Colon>> \o w) = w
  BY Specials, BehindIs
<1>4. IsMiddle(w) => /\ w \o m # <<>> /\ Head(w \o m) # Colon
                     /\ Word(w \o m) = w /\ Rest(w \o m) = Behind(m)
  <2> SUFFICES ASSUME IsMiddle(w)
               PROVE  /\ w \o m # <<>> /\ Head(w \o m) # Colon
                      /\ Word(w \o m) = w /\ Rest(w \o m) = Behind(m)
    OBVIOUS
  <2>1. w # <<>> /\ w[1] # Colon /\ Lacks(w, Space)
    BY DEF IsMiddle, Lacks
  <2>2. w \o m # <<>> /\ Head(w \o m) = w[1]
    <3> HIDE DEF Letter
    <3> QED
      BY <2>1
  <2> QED
    BY <2>1, <2>2, WordIs
<1> HIDE DEF At
<1>5. /\ TakeParam(At(<<>>)) = At(<<>>)
      /\ TakeParam(At(<<Colon>> \o w)) = [params |-> Append(ps, w), rest |-> <<>>]
  BY <1>2, <1>3
<1>6. IsMiddle(w) => TakeParam(At(w \o m)) = [params |-> Append(ps, w), rest |-> Behind(m)]
  BY <1>2, <1>4
<1> QED
  BY <1>5, <1>6 DEF At

(* The parser takes the words of a line and the text behind them, as many   *)
(* of them as it has room for.                                              *)
LEMMA ParamsAre ==
  ASSUME NEW ws \in Seq(Seq(Letter)), AllMiddles(ws), NEW texts \in Endings
  PROVE  Params(Behind(Middles(ws) \o Ending(texts))) = First(ws \o texts, MaxParams)
<1> DEFINE n == Len(ws)
           ps == ws \o texts
           t == Behind(Middles(ws) \o Ending(texts))
           Left(k) == Behind(Remaining(ws, texts, k))
           T == {k \in 0..MaxParams : Taking(t)[k] = [params |-> First(ps, k), rest |-> Left(k)]}
<1>1. /\ n \in Nat /\ ps \in Seq(Seq(Letter)) /\ Len(ps) = n + Len(texts) /\ Len(texts) \in Nat
      /\ \A i \in 1..n : ps[i] = ws[i] /\ ws[i] \in Seq(Letter) /\ IsMiddle(ws[i])
      /\ texts # <<>> => Len(texts) = 1 /\ ps[n + 1] = texts[1]
  <2>1. texts \in Seq(Seq(Letter)) /\ (texts # <<>> => Len(texts) = 1)
    BY EndingIs
  <2> DEFINE W == Seq(Letter)
  <2>2. ws \in Seq(W) /\ texts \in Seq(W)
    BY <2>1
  <2> HIDE DEF W
  <2>3. /\ n \in Nat /\ ps \in Seq(W) /\ Len(ps) = n + Len(texts) /\ Len(texts) \in Nat
        /\ \A i \in 1..n : ps[i] = ws[i] /\ ws[i] \in W
        /\ Len(texts) = 1 => ps[n + 1] = texts[1]
    BY <2>2
  <2> QED
    BY <2>1, <2>3 DEF W, AllMiddles
<1>2. 0 \in T
  <2>1. Taking(t)[0] = [params |-> <<>>, rest |-> t]
    <3> DEFINE tk == Taking(t)
    <3>1. tk = [i \in 0..MaxParams |->
           IF i = 0 THEN [params |-> <<>>, rest |-> t] ELSE TakeParam(tk[i - 1])]
      BY TakingIs
    <3>2. 0 \in 0..MaxParams
      BY LimitAssumption
    <3> HIDE DEF tk, t
    <3>3. tk[0] = [params |-> <<>>, rest |-> t]
      BY <3>1, <3>2
    <3> QED
      BY <3>3 DEF tk
  <2>2. First(ps, 0) = <<>>
    BY <1>1, FirstIs
  <2>3. Left(0) = t
    <3>1. SubSeq(ws, 1, n) = ws
      BY SubSeqFull
    <3>2. Remaining(ws, texts, 0) = Middles(SubSeq(ws, 1, n)) \o Ending(texts)
      BY <1>1 DEF Remaining
    <3> QED
      BY <3>1, <3>2, Zenon
  <2>4. 0 \in 0..MaxParams
    BY LimitAssumption
  <2> QED
    BY <2>1, <2>2, <2>3, <2>4, Zenon
<1>3. ASSUME NEW k \in 1..MaxParams, k - 1 \in T PROVE k \in T
  <2> DEFINE j == k - 1
             s == [params |-> First(ps, j), rest |-> Left(j)]
  <2>1. k \in 0..MaxParams /\ j \in Nat /\ j + 1 = k /\ k \in Nat /\ k # 0
    BY LimitAssumption
  <2>2. Taking(t)[k] = TakeParam(s)
    <3>1. Taking(t)[j] = s
      BY <1>3, Zenon
    <3> DEFINE tk == Taking(t)
    <3>2. tk = [i \in 0..MaxParams |->
           IF i = 0 THEN [params |-> <<>>, rest |-> t] ELSE TakeParam(tk[i - 1])]
      BY TakingIs
    <3> HIDE DEF tk, t, s
    <3>3. tk[k] = TakeParam(tk[k - 1])
      BY <2>1, <3>2
    <3> QED
      BY <3>1, <3>3 DEF tk
  <2> SUFFICES TakeParam(s) = [params |-> First(ps, k), rest |-> Left(k)]
    BY <2>1, <2>2, Zenon
  <2>3. /\ Remaining(ws, texts, k) \in Seq(Letter)
        /\ Remaining(ws, texts, k) = <<>> \/ Remaining(ws, texts, k)[1] = Space
    BY <2>1, RemainingIs
  <2>4. Behind(<<>>) = <<>>
    BY Specials, EmptySeq, BehindIs
  <2>5. CASE j < n
    <3> DEFINE w == ws[k]
               r == Remaining(ws, texts, k)
    <3>1. k \in 1..n
      BY <1>1, <2>1, <2>5
    <3>2. w \in Seq(Letter) /\ IsMiddle(w) /\ ps[k] = w
      BY <1>1, <3>1
    <3>3. Remaining(ws, texts, j) = <<Space>> \o (w \o r)
      BY <2>1, <2>5, RemainingIs
    <3>4. w \o r \in Seq(Letter) /\ Space \in Letter
      BY <2>3, <3>2, ConcatProperties, Specials
    <3>5. Left(j) = w \o r
      <4> DEFINE v == w \o r
      <4>1. v \in Seq(Letter) /\ Remaining(ws, texts, j) = <<Space>> \o v
        BY <3>3, <3>4
      <4> HIDE DEF v
      <4>2. Behind(<<Space>> \o v) = v
        BY <3>4, <4>1, BehindIs
      <4>3. Left(j) = v
        BY <4>1, <4>2, Zenon
      <4> QED
        BY <4>3 DEF v
    <3>6. First(ps, k) = Append(First(ps, j), w)
      <4>1. j < Len(ps)
        BY <1>1, <2>1, <2>5
      <4>2. First(ps, j + 1) = Append(First(ps, j), ps[j + 1])
        BY <1>1, <2>1, <4>1, FirstIs
      <4> QED
        BY <2>1, <3>2, <4>2
    <3> HIDE DEF w, r, ps, t
    <3>7. TakeParam([params |-> First(ps, j), rest |-> w \o r])
          = [params |-> Append(First(ps, j), w), rest |-> Behind(r)]
      BY <2>3, <3>2, TakeParamIs DEF r
    <3> QED
      BY <3>5, <3>6, <3>7, Zenon DEF r
  <2>6. CASE j = n /\ texts # <<>>
    <3> DEFINE x == texts[1]
    <3>1. x \in Seq(Letter) /\ Ending(texts) = Trailing(x)
      BY <2>6, EndingIs
    <3>2. Remaining(ws, texts, j) = <<Space>> \o (<<Colon>> \o x)
      BY <2>1, <2>6, <3>1, RemainingIs, MoreIs
    <3>3. Left(j) = <<Colon>> \o x
      <4>1. <<Colon>> \o x \in Seq(Letter) /\ Space \in Letter
        BY <3>1, Specials, BehindIs
      <4> DEFINE v == <<Colon>> \o x
      <4> HIDE DEF v
      <4>2. Behind(<<Space>> \o v) = v
        BY <4>1, BehindIs DEF v
      <4> QED
        BY <3>2, <4>2, Zenon DEF v
    <3>4. Left(k) = <<>>
      <4>1. k > n
        BY <1>1, <2>1, <2>6
      <4> QED
        BY <2>1, <2>4, <4>1, RemainingIs
    <3>5. First(ps, k) = Append(First(ps, j), x)
      <4>1. j < Len(ps) /\ ps[j + 1] = x
        BY <1>1, <2>1, <2>6
      <4>2. First(ps, j + 1) = Append(First(ps, j), ps[j + 1])
        BY <1>1, <2>1, <4>1, FirstIs
      <4> QED
        BY <2>1, <4>1, <4>2
    <3> HIDE DEF x, ps, t
    <3>6. TakeParam([params |-> First(ps, j), rest |-> <<Colon>> \o x])
          = [params |-> Append(First(ps, j), x), rest |-> <<>>]
      BY <3>1, EmptySeq, TakeParamIs
    <3> QED
      BY <3>3, <3>4, <3>5, <3>6, Zenon
  <2>7. CASE j > n \/ (j = n /\ texts = <<>>)
    <3>1. k > n /\ j >= Len(ps) /\ k >= Len(ps)
      <4>1. CASE j > n
        <5>1. Len(texts) = 0 \/ Len(texts) = 1
          BY <1>1, EndingIs
        <5>2. Len(ps) = n + Len(texts) /\ n \in Nat
          BY <1>1
        <5>3. \A a, b, d \in Nat : (b = 0 \/ b = 1) /\ d > a
                                => d + 1 > a /\ d >= a + b /\ d + 1 >= a + b
          OBVIOUS
        <5>4. Len(texts) \in Nat
          BY <1>1
        <5> HIDE DEF ps, t, n, j
        <5> QED
          BY <2>1, <4>1, <5>1, <5>2, <5>3, <5>4, Zenon
      <4>2. CASE j = n /\ texts = <<>>
        BY <1>1, <2>1, <4>2, EndingIs
      <4> QED
        BY <2>7, <4>1, <4>2
    <3>2. Left(k) = <<>>
      BY <2>1, <2>4, <3>1, RemainingIs
    <3>3. Left(j) = <<>>
      <4>1. j > n => Remaining(ws, texts, j) = <<>>
        BY <2>1, RemainingIs
      <4>2. j = n => Remaining(ws, texts, j) = Ending(texts)
        BY <2>1, RemainingIs
      <4>3. texts = <<>> => Ending(texts) = <<>>
        BY EndingIs
      <4> QED
        BY <2>4, <2>7, <4>1, <4>2, <4>3, Zenon
    <3>4. First(ps, k) = ps /\ First(ps, j) = ps
      BY <1>1, <2>1, <3>1, FirstIs
    <3> HIDE DEF ps, t
    <3>5. TakeParam([params |-> ps, rest |-> <<>>]) = [params |-> ps, rest |-> <<>>]
      BY EmptySeq, TakeParamIs
    <3> QED
      BY <3>2, <3>3, <3>4, <3>5, Zenon
  <2>8. j < n \/ j = n \/ j > n
    BY <1>1, <2>1
  <2> QED
    BY <2>5, <2>6, <2>7, <2>8
<1>4. MaxParams \in T
  <2>1. MaxParams \in Nat /\ MaxParams \in 0..MaxParams
    BY LimitAssumption
  <2> HIDE DEF T
  <2> QED
    BY <1>2, <1>3, <2>1, Upwards
<1> QED
  <2> DEFINE s == [params |-> First(ps, MaxParams), rest |-> Left(MaxParams)]
  <2>1. Taking(t)[MaxParams] = s
    BY <1>4, Zenon
  <2>2. s.params = First(ps, MaxParams)
    OBVIOUS
  <2> QED
    BY <2>1, <2>2, Zenon DEF Params

(* A line: a command, words and perhaps a text.                             *)
Spelled(c, ws, texts) == c \o (Middles(ws) \o Ending(texts))

(* A word that can begin a line, and does not look like a prefix.           *)
Verb(c) == c \in Seq(Letter) /\ IsMiddle(c)

LEMMA SpelledIs ==
  ASSUME NEW c, Verb(c), NEW ws \in Seq(Seq(Letter)), AllMiddles(ws), NEW texts \in Endings
  PROVE  /\ Spelled(c, ws, texts) \in Seq(Letter)
         /\ Spelled(c, ws, texts) # <<>> /\ Head(Spelled(c, ws, texts)) # Colon
         /\ Word(Spelled(c, ws, texts)) = c
         /\ ws \o texts # <<>> =>
              /\ Contains(Spelled(c, ws, texts), Space)
              /\ Params(Rest(Spelled(c, ws, texts))) = First(ws \o texts, MaxParams)
<1> DEFINE m == Middles(ws) \o Ending(texts)
           line == c \o m
<1>1. c \in Seq(Letter) /\ c # <<>> /\ c[1] # Colon /\ Lacks(c, Space)
  BY DEF Verb, IsMiddle, Lacks
<1>2. m \in Seq(Letter) /\ (m = <<>> \/ m[1] = Space) /\ (ws \o texts # <<>> => m # <<>>)
  <2>1. Remaining(ws, texts, 0) = m
    <3>1. SubSeq(ws, 1, Len(ws)) = ws /\ Len(ws) \in Nat
      BY SubSeqFull, LenProperties
    <3>2. Remaining(ws, texts, 0) = Middles(SubSeq(ws, 1, Len(ws))) \o Ending(texts)
      BY <3>1 DEF Remaining
    <3> QED
      BY <3>1, <3>2, Zenon
  <2>2. Len(ws) \in Nat /\ (Len(ws) = 0 => ws = <<>>)
    BY LenProperties, EmptySeq
  <2>3. Len(ws) > 0 => m # <<>>
    <3> SUFFICES ASSUME Len(ws) > 0 PROVE m # <<>>
      OBVIOUS
    <3> DEFINE r == ws[1] \o Remaining(ws, texts, 1)
    <3>1. ws[1] \in Seq(Letter) /\ Remaining(ws, texts, 1) \in Seq(Letter)
      <4>1. 1 \in 1..Len(ws)
        BY <2>2
      <4> QED
        BY <4>1, RemainingIs, ElementOfSeq
    <3>2. r \in Seq(Letter) /\ Space \in Letter
      BY <3>1, ConcatProperties, Specials
    <3>3. Remaining(ws, texts, 0) = <<Space>> \o r
      <4>1. 0 \in Nat /\ 0 < Len(ws) /\ 0 + 1 = 1
        BY <2>2
      <4>2. Remaining(ws, texts, 0) = <<Space>> \o (ws[0 + 1] \o Remaining(ws, texts, 0 + 1))
        BY <4>1, RemainingIs
      <4> QED
        BY <4>1, <4>2
    <3> HIDE DEF r
    <3>4. <<Space>> \o r # <<>>
      BY <3>2, BehindIs
    <3> QED
      BY <2>1, <3>3, <3>4, Zenon
  <2>4. ws = <<>> /\ texts # <<>> => m # <<>>
    <3> SUFFICES ASSUME ws = <<>>, texts # <<>> PROVE m # <<>>
      OBVIOUS
    <3> DEFINE v == <<Colon>> \o texts[1]
    <3>1. v \in Seq(Letter) /\ Space \in Letter
      BY EndingIs, Specials, BehindIs
    <3>2. Ending(texts) = <<Space>> \o v
      BY EndingIs, MoreIs
    <3>3. Remaining(ws, texts, 0) = Ending(texts)
      BY RemainingIs
    <3> HIDE DEF v
    <3>4. <<Space>> \o v # <<>>
      BY <3>1, BehindIs
    <3> QED
      BY <2>1, <3>2, <3>3, <3>4, Zenon
  <2>5. ws = <<>> /\ texts = <<>> => ws \o texts = <<>>
    OBVIOUS
  <2>6. m \in Seq(Letter) /\ (m = <<>> \/ m[1] = Space)
    <3>1. /\ Remaining(ws, texts, 0) \in Seq(Letter)
          /\ Remaining(ws, texts, 0) = <<>> \/ Remaining(ws, texts, 0)[1] = Space
      BY RemainingIs
    <3> QED
      BY <2>1, <3>1, Zenon
  <2>7. ws # <<>> => Len(ws) > 0
    BY <2>2
  <2> QED
    BY <2>3, <2>4, <2>5, <2>6, <2>7
<1>3. Params(Behind(m)) = First(ws \o texts, MaxParams)
  BY ParamsAre
<1> HIDE DEF m
<1>4. Word(line) = c /\ Rest(line) = Behind(m)
  BY <1>1, <1>2, WordIs
<1>5. line \in Seq(Letter) /\ line # <<>> /\ Head(line) # Colon
  <2> HIDE DEF Letter
  <2> QED
    BY <1>1, <1>2
<1>6. m # <<>> => Contains(line, Space)
  <2> SUFFICES ASSUME m # <<>> PROVE Contains(line, Space)
    OBVIOUS
  <2>1. Len(c) + 1 \in 1..Len(line) /\ line[Len(c) + 1] = m[1]
    <3> HIDE DEF Letter
    <3> QED
      BY <1>1, <1>2
  <2> QED
    BY <1>2, <2>1 DEF Contains
<1> QED
  BY <1>2, <1>3, <1>4, <1>5, <1>6 DEF Spelled, m

(* A line with a prefix. *)
LEMMA PrefixIs ==
  ASSUME NEW prefix \in Seq(Letter), Lacks(prefix, Space), NEW line \in Seq(Letter), NEW stack
  PROVE  Parse((<<Colon>> \o prefix) \o (<<Space>> \o line), stack)
         = [prefix |-> prefix, command |-> Word(line), params |-> Params(Beyond(line, stack))]
<1> DEFINE w == <<Colon>> \o prefix
           m == <<Space>> \o line
           t == w \o m
<1>1. /\ Colon \in Letter /\ Space \in Letter /\ w \in Seq(Letter) /\ m \in Seq(Letter)
      /\ w # <<>> /\ Head(w) = Colon /\ w[1] = Colon /\ Tail(w) = prefix
      /\ m # <<>> /\ m[1] = Space /\ Behind(m) = line
  BY Specials, BehindIs
<1>2. Lacks(w, Space)
  <2>1. \A i \in 1..Len(prefix) : prefix[i] # Space
    BY DEF Lacks, Contains
  <2>2. Space # Colon
    BY Specials
  <2>3. Len(w) = Len(prefix) + 1 /\ \A i \in 1..Len(w) : w[i] = IF i = 1 THEN Colon ELSE prefix[i - 1]
    <3> HIDE DEF Letter
    <3> QED
      BY <1>1
  <2>4. \A i \in 1..Len(w) : w[i] # Space
    <3> HIDE DEF w
    <3>1. Len(prefix) \in Nat
      BY LenProperties
    <3>2. \A i \in 1..Len(w) : i # 1 => i - 1 \in 1..Len(prefix)
      BY <2>3, <3>1
    <3> QED
      BY <2>1, <2>2, <2>3, <3>2
  <2> HIDE DEF w
  <2> QED
    BY <2>4 DEF Lacks, Contains
<1> HIDE DEF w, m
<1>3. Word(t) = w /\ Rest(t) = line
  BY <1>1, <1>2, WordIs
<1>4. t # <<>> /\ Head(t) = Colon /\ Len(w) + 1 \in 1..Len(t) /\ t[Len(w) + 1] = Space
  <2> HIDE DEF Letter
  <2> QED
    BY <1>1
<1>5. Beyond(t, stack) = line
  BY <1>3, <1>4 DEF Beyond, Contains
<1> HIDE DEF t
<1>6. Parse(t, stack)
      = [prefix |-> prefix, command |-> Word(line), params |-> Params(Beyond(line, stack))]
  BY <1>1, <1>3, <1>4, <1>5 DEF Parse
<1> QED
  BY <1>6 DEF t, w, m

(* The line as it comes from the server, with a prefix and without.         *)
LEMMA ParseIs ==
  ASSUME NEW c, Verb(c), NEW ws \in Seq(Seq(Letter)), AllMiddles(ws), NEW texts \in Endings,
         ws \o texts # <<>>, NEW stack
  PROVE  /\ Parse(Spelled(c, ws, texts), stack)
              = [prefix |-> NULL, command |-> c, params |-> First(ws \o texts, MaxParams)]
         /\ \A prefix \in Seq(Letter) : Lacks(prefix, Space) =>
              Parse((<<Colon>> \o prefix) \o (<<Space>> \o Spelled(c, ws, texts)), stack)
              = [prefix |-> prefix, command |-> c, params |-> First(ws \o texts, MaxParams)]
<1> DEFINE line == Spelled(c, ws, texts)
           ps == First(ws \o texts, MaxParams)
<1>1. /\ line \in Seq(Letter) /\ line # <<>> /\ Head(line) # Colon
      /\ Word(line) = c /\ Beyond(line, stack) = Rest(line) /\ Params(Rest(line)) = ps
  BY SpelledIs DEF Beyond
<1> HIDE DEF line, ps
<1>2. Parse(line, stack) = [prefix |-> NULL, command |-> c, params |-> ps]
  BY <1>1 DEF Parse
<1>3. ASSUME NEW prefix \in Seq(Letter), Lacks(prefix, Space)
      PROVE  Parse((<<Colon>> \o prefix) \o (<<Space>> \o line), stack)
             = [prefix |-> prefix, command |-> c, params |-> ps]
  BY <1>1, <1>3, PrefixIs
<1> QED
  BY <1>2, <1>3 DEF line, ps

(* The tables of Conversation, command by command.                           *)
LEMMA ProtocolIs ==
  /\ Protocol["msg"] = [command |-> <<"PRIVMSG">>, fields |-> <<"nch", "text">>, needs |-> 2]
  /\ Protocol["me"] = [command |-> <<"PRIVMSG">>, fields |-> <<"nch", "text">>, needs |-> 2]
  /\ Protocol["notice"] = [command |-> <<"NOTICE">>, fields |-> <<"nch", "text">>, needs |-> 2]
  /\ Protocol["join"] = [command |-> <<"JOIN">>, fields |-> <<"channel", "key">>, needs |-> 1]
  /\ Protocol["part"] = [command |-> <<"PART">>, fields |-> <<"channel">>, needs |-> 1]
  /\ Protocol["invite"] = [command |-> <<"INVITE">>, fields |-> <<"nick", "channel">>, needs |-> 2]
  /\ Protocol["names"] = [command |-> <<"NAMES">>, fields |-> <<"channel">>, needs |-> 1]
  /\ Protocol["list"] = [command |-> <<"LIST">>, fields |-> <<"channel">>, needs |-> 0]
  /\ Protocol["topic"] = [command |-> <<"TOPIC">>, fields |-> <<"channel", "topic">>, needs |-> 1]
  /\ Protocol["channel_mode"] = [command |-> <<"MODE">>, fields |-> <<"channel", "mode">>, needs |-> 1]
  /\ Protocol["kick"] = [command |-> <<"KICK">>, fields |-> <<"channel", "nick", "reason">>, needs |-> 2]
  /\ Protocol["nick"] = [command |-> <<"NICK">>, fields |-> <<"nick">>, needs |-> 1]
  /\ Protocol["quit"] = [command |-> <<"QUIT">>, fields |-> <<"reason">>, needs |-> 0]
  /\ Protocol["whois"] = [command |-> <<"WHOIS">>, fields |-> <<"nick", "nick">>, needs |-> 2]
  /\ Protocol["user_mode"] = [command |-> <<"MODE">>, fields |-> <<"mode">>, needs |-> 0]
  /\ Protocol["ping"] = [command |-> <<"PING">>, fields |-> <<"server">>, needs |-> 1]
  /\ Protocol["away"] = [command |-> <<"AWAY">>, fields |-> <<"reason">>, needs |-> 0]
BY DEF Protocol

LEMMA TextFieldsAre ==
  /\ WithText = {"msg", "me", "notice", "join", "topic", "kick", "quit", "away"}
  /\ TextField["msg"] = "text" /\ TextField["me"] = "text" /\ TextField["notice"] = "text"
  /\ TextField["join"] = "key" /\ TextField["topic"] = "topic"
  /\ TextField["kick"] = "reason" /\ TextField["quit"] = "reason" /\ TextField["away"] = "reason"
<1>1. WithText = {"msg", "me", "notice", "join", "topic", "kick", "quit", "away"}
  BY DEF WithText, TextField
<1>2. /\ TextField["msg"] = "text" /\ TextField["me"] = "text" /\ TextField["notice"] = "text"
      /\ TextField["join"] = "key" /\ TextField["topic"] = "topic"
      /\ TextField["kick"] = "reason" /\ TextField["quit"] = "reason" /\ TextField["away"] = "reason"
  BY DEF TextField
<1> QED
  BY <1>1, <1>2

Simple == {"msg", "me", "notice", "join", "part", "invite", "names", "list", "topic",
           "channel_mode", "kick", "nick", "quit", "whois", "user_mode", "ping", "away"}

LEMMA CommandsAre ==
  /\ CommandNames = Simple \cup {"raw", "disconnect"}
  /\ Relayed \subseteq Simple /\ WithText \subseteq Simple
<1>1. CommandNames = Simple \cup {"raw", "disconnect"}
  BY DEF CommandNames, Words, Simple
<1> QED
  BY <1>1, TextFieldsAre DEF Relayed, Simple

(* A word that is told as it is sent and sent as it is asked.               *)
Plain(w) == /\ w \in Seq(Letter) /\ IsMiddle(w) /\ w # NULL
            /\ JsonString(w) = w /\ Escaped(w) = w /\ Unescaped(w) = w

LEMMA OneLetter ==
  ASSUME NEW n \in Letter \ {Space, Colon, Quote, Backslash, "(null)"} PROVE Plain(<<n>>)
<1>1. <<n>> = Append(<<>>, n) /\ <<>> \in Seq(Letter) /\ n \in Letter /\ <<n>> \in Seq(Letter)
  BY PieceIs, EmptySeq
<1>2. \A s \in Seq(Letter) : <<>> \o s = s
  BY ConcatEmptySeq
<1>3. Piece(n) = <<n>> /\ EscapedPiece(n) = <<n>>
  BY Zenon DEF Piece, EscapedPiece
<1>4. JsonString(<<n>>) = <<n>> /\ Escaped(<<n>>) = <<n>>
  <2>1. /\ JsonString(Append(<<>>, n)) = JsonString(<<>>) \o Piece(n) /\ JsonString(<<>>) = <<>>
        /\ Escaped(Append(<<>>, n)) = Escaped(<<>>) \o EscapedPiece(n) /\ Escaped(<<>>) = <<>>
    BY <1>1, JsonIs, EscapedIs
  <2>2. <<>> \o <<n>> = <<n>>
    BY <1>1, <1>2
  <2> QED
    BY <1>1, <1>3, <2>1, <2>2, Zenon
<1>5. Unescaped(<<n>>) = <<n>>
  BY <1>1, <1>2, UnescapedIs
<1>6. <<n>> # NULL /\ IsMiddle(<<n>>)
  <2>1. Len(<<n>>) = 1 /\ <<n>>[1] = n /\ <<n>> # <<>>
    OBVIOUS
  <2>2. NULL[1] = "(null)"
    BY DEF NULL
  <2>3. ~Contains(<<n>>, Space)
    BY <2>1 DEF Contains
  <2> QED
    BY <2>1, <2>2, <2>3, Zenon DEF IsMiddle
<1> QED
  BY <1>1, <1>4, <1>5, <1>6 DEF Plain

LEMMA WordsArePlain ==
  /\ \A n \in Names : Plain(<<n>>)
  /\ Plain(Us) /\ Plain(You) /\ Plain(Channel)
<1>1. \A n \in Names \cup {"us", "you", "#c"} :
        n \in Letter \ {Space, Colon, Quote, Backslash, "(null)"}
  <2>1. \A n \in Names \cup {"us", "you", "#c"} : n \notin {Space, Colon, Quote, Backslash, "(null)"}
    BY DEF Names, Fields, Space, Colon, Quote, Backslash
  <2> QED
    BY <2>1, Zenon DEF Letter
<1> QED
  BY <1>1, OneLetter DEF Us, You, Channel

LEMMA VerbsAre == \A n \in Verbs : Verb(<<n>>)
<1>1. \A n \in Verbs : n \in Letter \ {Space, Colon, Quote, Backslash, "(null)"}
  <2>1. \A n \in Verbs : n \notin {Space, Colon, Quote, Backslash, "(null)"}
    BY DEF Verbs, Space, Colon, Quote, Backslash
  <2> QED
    BY <2>1, Zenon DEF Letter
<1> QED
  BY <1>1, OneLetter DEF Plain, Verb

(* No other text is null in JSON.                                           *)
LEMMA NullIs ==
  /\ NULL \in Seq(Letter) /\ NULL # <<>> /\ JsonString(NULL) = NULL
  /\ \A t \in Seq(Letter) : JsonString(t) = NULL => t = NULL
<1>1. NULL \in Seq(Letter) /\ NULL # <<>> /\ JsonString(NULL) = NULL
  BY Specials, PieceIs DEF NULL, JsonString
<1>2. ASSUME NEW t \in Seq(Letter), JsonString(t) = NULL PROVE t = NULL
  <2>1. <<Quote>> \in Seq(Letter) /\ Quote \in Letter /\ <<>> \in Seq(Letter) /\ Append(<<>>, Quote) = <<Quote>>
    BY Specials, PieceIs
  <2>2. After(<<Quote>>) = Within(<<>>, <<>>)
    <3>1. After(<<Quote>>) = ReadChar(After(<<>>), Quote)
      BY <2>1, ReadJsonNext
    <3>2. After(<<>>) = [at |-> "out", list |-> <<>>]
      BY ReadJsonNext
    <3>3. <<>> \in Seq(Seq(Letter))
      BY EmptySeq
    <3>4. ReadChar([at |-> "out", list |-> <<>>], Quote) = Within(<<>>, <<>>)
      BY <2>1, <3>3, ReadCharIs
    <3> QED
      BY <3>1, <3>2, <3>4, Zenon
  <2>3. \A u \in Seq(Letter) : After(<<Quote>> \o JsonString(u)) = Within(<<>>, u)
    <3>1. <<>> \in Seq(Seq(Letter))
      BY EmptySeq
    <3> QED
      BY <2>1, <2>2, <3>1, ReadsText
  <2>4. Within(<<>>, t) = Within(<<>>, NULL)
    BY <1>1, <1>2, <2>3
  <2>5. \A u \in Seq(Letter) : Within(<<>>, u).list = <<u>> /\ <<u>>[1] = u
    BY DEF Within
  <2> QED
    BY <1>1, <2>4, <2>5
<1> QED
  BY <1>1, <1>2

LEMMA FormatIs ==
  ASSUME NEW g, NEW nick
  PROVE  LET f == ReadFields(g)
             text == ReadText(g)
         IN
         /\ Format("msg", g, nick) = irc_cmd_msg(f["nch"], text)
         /\ Format("me", g, nick) = irc_cmd_me(f["nch"], text)
         /\ Format("notice", g, nick) = irc_cmd_notice(f["nch"], text)
         /\ Format("join", g, nick) = irc_cmd_join(f["channel"], f["key"])
         /\ Format("part", g, nick) = irc_cmd_part(f["channel"])
         /\ Format("invite", g, nick) = irc_cmd_invite(f["nick"], f["channel"])
         /\ Format("names", g, nick) = irc_cmd_names(f["channel"])
         /\ Format("list", g, nick) = irc_cmd_list(f["channel"])
         /\ Format("topic", g, nick) = irc_cmd_topic(f["channel"], f["topic"])
         /\ Format("channel_mode", g, nick) = irc_cmd_channel_mode(f["channel"], f["mode"])
         /\ Format("kick", g, nick) = irc_cmd_kick(f["nick"], f["channel"], f["reason"])
         /\ Format("nick", g, nick) = irc_cmd_nick(f["nick"])
         /\ Format("quit", g, nick) = irc_cmd_quit(f["reason"])
         /\ Format("whois", g, nick) = irc_cmd_whois(f["nick"])
         /\ Format("user_mode", g, nick) = irc_cmd_user_mode(nick, f["mode"])
         /\ Format("ping", g, nick) = <<"PING">> \o More(f["server"])
         /\ Format("away", g, nick) = irc_custom_cmd_away(f["reason"])
BY Zenon DEF Format

LEMMA MadeUpList ==
  ASSUME NEW cmd, NEW f, NEW a, NEW b, NEW c
  PROVE  /\ [i \in DOMAIN <<a>> |-> MadeUp(cmd, <<a>>[i], f[<<a>>[i]])] = <<MadeUp(cmd, a, f[a])>>
         /\ [i \in DOMAIN <<a, b>> |-> MadeUp(cmd, <<a, b>>[i], f[<<a, b>>[i]])]
              = <<MadeUp(cmd, a, f[a]), MadeUp(cmd, b, f[b])>>
         /\ [i \in DOMAIN <<a, b, c>> |-> MadeUp(cmd, <<a, b, c>>[i], f[<<a, b, c>>[i]])]
              = <<MadeUp(cmd, a, f[a]), MadeUp(cmd, b, f[b]), MadeUp(cmd, c, f[c])>>
OBVIOUS

LEMMA MadeUpIs ==
  ASSUME NEW cmd, NEW x, NEW w \in Seq(Letter)
  PROVE  /\ MadeUp(cmd, x, w) \in Seq(Seq(Letter))
         /\ w # NULL => MadeUp(cmd, x, w) = <<w>>
         /\ w = NULL /\ x = "text" => MadeUp(cmd, x, w) = <<<<>>>>
         /\ w = NULL /\ x # "text" /\ cmd = "quit" => MadeUp(cmd, x, w) = <<<<"quit">>>>
         /\ w = NULL /\ x # "text" /\ cmd # "quit" => MadeUp(cmd, x, w) = <<>>
<1>1. <<>> \in Seq(Letter) /\ <<"quit">> \in Seq(Letter) /\ <<>> \in Seq(Seq(Letter))
  BY WordsArePlain, EmptySeq DEF Plain, Names
<1>2. \A v \in Seq(Letter) : <<v>> \in Seq(Seq(Letter))
  OBVIOUS
<1>3. <<<<>>>> \in Seq(Seq(Letter)) /\ <<<<"quit">>>> \in Seq(Seq(Letter))
  BY <1>1, <1>2
<1> QED
  BY <1>1, <1>2, <1>3, Zenon DEF MadeUp

(* A call as the application makes it: each field is its word or missing,   *)
(* but for the one of any text.                                             *)
Asks(cmd, f) ==
  /\ f \in [Fields -> Seq(Letter)]
  /\ \A x \in Fields : (cmd \in WithText /\ x = TextField[cmd]) \/ f[x] \in {<<x>>, NULL}

LEMMA MeantIs ==
  ASSUME NEW cmd \in Simple, NEW f, Asks(cmd, f)
  PROVE  LET Made(x) == MadeUp(cmd, x, f[x])
         IN
         /\ cmd = "msg" => Meant(cmd, f) = Made("nch") \o Made("text")
         /\ cmd = "me" => Meant(cmd, f) = Made("nch") \o Made("text")
         /\ cmd = "notice" => Meant(cmd, f) = Made("nch") \o Made("text")
         /\ cmd = "join" => Meant(cmd, f) = Made("channel") \o Made("key")
         /\ cmd = "part" => Meant(cmd, f) = Made("channel")
         /\ cmd = "invite" => Meant(cmd, f) = Made("nick") \o Made("channel")
         /\ cmd = "names" => Meant(cmd, f) = Made("channel")
         /\ cmd = "list" => Meant(cmd, f) = Made("channel")
         /\ cmd = "topic" => Meant(cmd, f) = Made("channel") \o Made("topic")
         /\ cmd = "channel_mode" => Meant(cmd, f) = Made("channel") \o Made("mode")
         /\ cmd = "kick" => Meant(cmd, f) = (Made("channel") \o Made("nick")) \o Made("reason")
         /\ cmd = "nick" => Meant(cmd, f) = Made("nick")
         /\ cmd = "quit" => Meant(cmd, f) = Made("reason")
         /\ cmd = "whois" => Meant(cmd, f) = Made("nick") \o Made("nick")
         /\ cmd = "user_mode" => Meant(cmd, f) = <<Us>> \o Made("mode")
         /\ cmd = "ping" => Meant(cmd, f) = Made("server")
         /\ cmd = "away" => Meant(cmd, f) = Made("reason")
<1> DEFINE Made(x) == MadeUp(cmd, x, f[x])
           fields == Protocol[cmd].fields
           list == [i \in DOMAIN fields |-> MadeUp(cmd, fields[i], f[fields[i]])]
           lead == IF cmd = "user_mode" THEN <<Us>> ELSE <<>>
<1>1. \A x \in Fields : Made(x) \in Seq(Seq(Letter))
  BY MadeUpIs DEF Asks
<1>2. Meant(cmd, f) = lead \o FlattenSeq(list)
  BY DEF Meant
<1>3. \A s \in Seq(Seq(Letter)) : <<>> \o s = s /\ s \in Seq(Seq(Letter))
  BY ConcatEmptySeq
<1>4. ASSUME NEW a \in Fields, fields = <<a>>, cmd # "user_mode" PROVE Meant(cmd, f) = Made(a)
  <2>1. list = <<Made(a)>>
    BY <1>4, MadeUpList
  <2> HIDE DEF Made, list
  <2>2. FlattenSeq(list) = Made(a)
    BY <1>1, <2>1, FlattenFew
  <2> QED
    BY <1>1, <1>2, <1>3, <1>4, <2>2
<1>5. ASSUME NEW a \in Fields, fields = <<a>>, cmd = "user_mode" PROVE Meant(cmd, f) = <<Us>> \o Made(a)
  <2>1. list = <<Made(a)>>
    BY <1>5, MadeUpList
  <2> HIDE DEF Made, list
  <2>2. FlattenSeq(list) = Made(a)
    BY <1>1, <2>1, FlattenFew
  <2> QED
    BY <1>2, <1>5, <2>2, Zenon
<1>6. ASSUME NEW a \in Fields, NEW b \in Fields, fields = <<a, b>>, cmd # "user_mode"
      PROVE  Meant(cmd, f) = Made(a) \o Made(b)
  <2>1. list = <<Made(a), Made(b)>>
    BY <1>6, MadeUpList
  <2> HIDE DEF Made, list
  <2>2. FlattenSeq(list) = Made(a) \o Made(b)
    BY <1>1, <2>1, FlattenFew
  <2>3. Made(a) \o Made(b) \in Seq(Seq(Letter))
    BY <1>1, ConcatProperties
  <2> QED
    BY <1>2, <1>3, <1>6, <2>2, <2>3, Zenon
<1>7. ASSUME NEW a \in Fields, NEW b \in Fields, NEW c \in Fields, fields = <<a, b, c>>,
             cmd # "user_mode"
      PROVE  Meant(cmd, f) = (Made(a) \o Made(b)) \o Made(c)
  <2>1. list = <<Made(a), Made(b), Made(c)>>
    BY <1>7, MadeUpList
  <2> HIDE DEF Made, list
  <2>2. FlattenSeq(list) = (Made(a) \o Made(b)) \o Made(c)
    <3>1. Made(a) \in Seq(Seq(Letter)) /\ Made(b) \in Seq(Seq(Letter)) /\ Made(c) \in Seq(Seq(Letter))
      BY <1>1
    <3>2. FlattenSeq(<<Made(a), Made(b)>>) = Made(a) \o Made(b)
      BY <3>1, FlattenFew
    <3>3. /\ <<Made(a), Made(b)>> \in Seq(Seq(Seq(Letter)))
          /\ <<Made(a), Made(b), Made(c)>> = Append(<<Made(a), Made(b)>>, Made(c))
      <4> DEFINE W == Seq(Seq(Letter))
      <4>1. Made(a) \in W /\ Made(b) \in W /\ Made(c) \in W
        BY <3>1
      <4> HIDE DEF W
      <4>2. /\ <<Made(a), Made(b)>> \in Seq(W)
            /\ <<Made(a), Made(b), Made(c)>> = Append(<<Made(a), Made(b)>>, Made(c))
        BY <4>1
      <4> QED
        BY <4>2 DEF W
    <3>4. FlattenSeq(Append(<<Made(a), Made(b)>>, Made(c)))
          = FlattenSeq(<<Made(a), Made(b)>>) \o Made(c)
      BY <3>1, <3>3, FlattenAppend
    <3> QED
      BY <2>1, <3>2, <3>3, <3>4, Zenon
  <2>3. (Made(a) \o Made(b)) \o Made(c) \in Seq(Seq(Letter))
    BY <1>1, ConcatProperties
  <2> QED
    BY <1>2, <1>3, <1>7, <2>2, <2>3, Zenon
<1> HIDE DEF Made, list, lead, fields
<1>8. Fields = {"nch", "text", "channel", "key", "nick", "topic", "reason", "mode", "server", "command"}
  BY DEF Fields
<1>9. cmd = "msg" => Meant(cmd, f) = Made("nch") \o Made("text")
  <2>1. cmd = "msg" => fields = <<"nch", "text">>
    BY ProtocolIs DEF fields
  <2> QED
    BY <1>6, <1>8, <2>1
<1>10. cmd = "me" => Meant(cmd, f) = Made("nch") \o Made("text")
  <2>1. cmd = "me" => fields = <<"nch", "text">>
    BY ProtocolIs DEF fields
  <2> QED
    BY <1>6, <1>8, <2>1
<1>11. cmd = "notice" => Meant(cmd, f) = Made("nch") \o Made("text")
  <2>1. cmd = "notice" => fields = <<"nch", "text">>
    BY ProtocolIs DEF fields
  <2> QED
    BY <1>6, <1>8, <2>1
<1>12. cmd = "join" => Meant(cmd, f) = Made("channel") \o Made("key")
  <2>1. cmd = "join" => fields = <<"channel", "key">>
    BY ProtocolIs DEF fields
  <2> QED
    BY <1>6, <1>8, <2>1
<1>13. cmd = "part" => Meant(cmd, f) = Made("channel")
  <2>1. cmd = "part" => fields = <<"channel">>
    BY ProtocolIs DEF fields
  <2> QED
    BY <1>4, <1>8, <2>1
<1>14. cmd = "invite" => Meant(cmd, f) = Made("nick") \o Made("channel")
  <2>1. cmd = "invite" => fields = <<"nick", "channel">>
    BY ProtocolIs DEF fields
  <2> QED
    BY <1>6, <1>8, <2>1
<1>15. cmd = "names" => Meant(cmd, f) = Made("channel")
  <2>1. cmd = "names" => fields = <<"channel">>
    BY ProtocolIs DEF fields
  <2> QED
    BY <1>4, <1>8, <2>1
<1>16. cmd = "list" => Meant(cmd, f) = Made("channel")
  <2>1. cmd = "list" => fields = <<"channel">>
    BY ProtocolIs DEF fields
  <2> QED
    BY <1>4, <1>8, <2>1
<1>17. cmd = "topic" => Meant(cmd, f) = Made("channel") \o Made("topic")
  <2>1. cmd = "topic" => fields = <<"channel", "topic">>
    BY ProtocolIs DEF fields
  <2> QED
    BY <1>6, <1>8, <2>1
<1>18. cmd = "channel_mode" => Meant(cmd, f) = Made("channel") \o Made("mode")
  <2>1. cmd = "channel_mode" => fields = <<"channel", "mode">>
    BY ProtocolIs DEF fields
  <2> QED
    BY <1>6, <1>8, <2>1
<1>19. cmd = "kick" => Meant(cmd, f) = (Made("channel") \o Made("nick")) \o Made("reason")
  <2>1. cmd = "kick" => fields = <<"channel", "nick", "reason">>
    BY ProtocolIs DEF fields
  <2> QED
    BY <1>7, <1>8, <2>1
<1>20. cmd = "nick" => Meant(cmd, f) = Made("nick")
  <2>1. cmd = "nick" => fields = <<"nick">>
    BY ProtocolIs DEF fields
  <2> QED
    BY <1>4, <1>8, <2>1
<1>21. cmd = "quit" => Meant(cmd, f) = Made("reason")
  <2>1. cmd = "quit" => fields = <<"reason">>
    BY ProtocolIs DEF fields
  <2> QED
    BY <1>4, <1>8, <2>1
<1>22. cmd = "whois" => Meant(cmd, f) = Made("nick") \o Made("nick")
  <2>1. cmd = "whois" => fields = <<"nick", "nick">>
    BY ProtocolIs DEF fields
  <2> QED
    BY <1>6, <1>8, <2>1
<1>23. cmd = "user_mode" => Meant(cmd, f) = <<Us>> \o Made("mode")
  <2>1. cmd = "user_mode" => fields = <<"mode">>
    BY ProtocolIs DEF fields
  <2> QED
    BY <1>5, <1>8, <2>1
<1>24. cmd = "ping" => Meant(cmd, f) = Made("server")
  <2>1. cmd = "ping" => fields = <<"server">>
    BY ProtocolIs DEF fields
  <2> QED
    BY <1>4, <1>8, <2>1
<1>25. cmd = "away" => Meant(cmd, f) = Made("reason")
  <2>1. cmd = "away" => fields = <<"reason">>
    BY ProtocolIs DEF fields
  <2> QED
    BY <1>4, <1>8, <2>1
<1> QED
  BY <1>9, <1>10, <1>11, <1>12, <1>13, <1>14, <1>15, <1>16, <1>17, <1>18, <1>19, <1>20, <1>21, <1>22, <1>23, <1>24, <1>25 DEF Made

LEMMA MiddlesFew ==
  ASSUME NEW a \in Seq(Letter), NEW b \in Seq(Letter)
  PROVE  Middles(<<a>>) = More(a) /\ Middles(<<a, b>>) = More(a) \o More(b)
<1> DEFINE W == Seq(Letter)
<1>1. <<a>> = <<a>> \o <<>> /\ <<a, b>> = <<a>> \o <<b>>
  <2>1. a \in W /\ b \in W
    OBVIOUS
  <2> HIDE DEF W
  <2>2. <<a>> \in Seq(W)
    BY <2>1
  <2> QED
    BY <2>1, <2>2, TwoAre, ConcatEmptySeq
<1>2. <<>> \in Seq(W) /\ <<b>> \in Seq(W)
  BY EmptySeq
<1>3. More(a) \in Seq(Letter) /\ More(b) \in Seq(Letter)
  BY MoreIs
<1>4. \A w \in W : Middles(<<w>> \o <<>>) = More(w) \o <<>>
  <2> TAKE w \in W
  <2>1. Middles(<<w>> \o <<>>) = More(w) \o Middles(<<>>)
    BY <1>2, MiddlesIs
  <2> QED
    BY <2>1, MiddlesIs, Zenon
<1>5. Middles(<<a>>) = More(a) /\ Middles(<<b>>) = More(b)
  <2>1. <<b>> = <<b>> \o <<>>
    BY <1>2, ConcatEmptySeq
  <2>2. More(a) \o <<>> = More(a) /\ More(b) \o <<>> = More(b)
    BY <1>3, ConcatEmptySeq
  <2>3. Middles(<<a>> \o <<>>) = More(a) \o <<>> /\ Middles(<<b>> \o <<>>) = More(b) \o <<>>
    BY <1>4
  <2> QED
    BY <1>1, <2>1, <2>2, <2>3, Zenon
<1>6. Middles(<<a>> \o <<b>>) = More(a) \o Middles(<<b>>)
  BY <1>2, MiddlesIs
<1> QED
  BY <1>1, <1>5, <1>6, Zenon

(* The forms that the irc_cmd_ functions give their lines.                  *)
Forms(c, a, b, x) ==
  /\ Spelled(c, <<>>, <<>>) = c
  /\ Spelled(c, <<a>>, <<>>) = c \o More(a)
  /\ Spelled(c, <<a, b>>, <<>>) = (c \o More(a)) \o More(b)
  /\ Spelled(c, <<>>, <<x>>) = c \o Trailing(x)
  /\ Spelled(c, <<a>>, <<x>>) = (c \o More(a)) \o Trailing(x)
  /\ Spelled(c, <<a, b>>, <<x>>) = ((c \o More(a)) \o More(b)) \o Trailing(x)

LEMMA FormsAre ==
  ASSUME NEW c, NEW a, NEW b, NEW x, {c, a, b, x} \subseteq Seq(Letter)
  PROVE  Forms(c, a, b, x)
<1> DEFINE m == More(a)
           k == More(b)
           e == Trailing(x)
<1>1. c \in Seq(Letter) /\ m \in Seq(Letter)
  BY MoreIs
<1>k. k \in Seq(Letter)
  BY MoreIs
<1>e. e \in Seq(Letter)
  BY MoreIs
<1>2. Ending(<<>>) = <<>> /\ Ending(<<x>>) = e
  <2>1. <<x>> # <<>> /\ <<x>>[1] = x
    OBVIOUS
  <2> QED
    BY <2>1, Zenon DEF Ending
<1>3. Middles(<<>>) = <<>> /\ Middles(<<a>>) = m /\ Middles(<<a, b>>) = m \o k
  <2>1. a \in Seq(Letter) /\ b \in Seq(Letter)
    OBVIOUS
  <2> QED
    BY <2>1, MiddlesIs, MiddlesFew
<1> HIDE DEF m, k, e
<1>4. m \o k \in Seq(Letter)
  BY <1>1, <1>k, ConcatProperties
<1>5. c \o (m \o k) = (c \o m) \o k
  BY <1>1, <1>k, Regrouped, Zenon
<1>6. c \o (m \o e) = (c \o m) \o e
  BY <1>1, <1>e, Regrouped, Zenon
<1>7. c \o ((m \o k) \o e) = ((c \o m) \o k) \o e
  <2> DEFINE v == m \o k
  <2>1. v \in Seq(Letter) /\ c \in Seq(Letter)
    BY <1>1, <1>4
  <2> HIDE DEF v
  <2>2. c \o (v \o e) = (c \o v) \o e
    BY <2>1, <1>e, Regrouped, Zenon
  <2> QED
    BY <1>5, <2>2, Zenon DEF v
<1>8. /\ Spelled(c, <<>>, <<>>) = c \o (<<>> \o <<>>)
      /\ Spelled(c, <<a>>, <<>>) = c \o (m \o <<>>)
      /\ Spelled(c, <<a, b>>, <<>>) = c \o ((m \o k) \o <<>>)
      /\ Spelled(c, <<>>, <<x>>) = c \o (<<>> \o e)
      /\ Spelled(c, <<a>>, <<x>>) = c \o (m \o e)
      /\ Spelled(c, <<a, b>>, <<x>>) = c \o ((m \o k) \o e)
  BY <1>2, <1>3, Zenon DEF Spelled
<1>9. /\ <<>> \o <<>> = <<>> /\ m \o <<>> = m /\ (m \o k) \o <<>> = m \o k /\ <<>> \o e = e
      /\ c \o <<>> = c
  <2>1. \A s \in Seq(Letter) : s \o <<>> = s /\ <<>> \o s = s
    BY ConcatEmptySeq
  <2>2. <<>> \in Seq(Letter)
    BY EmptySeq
  <2> QED
    BY <1>1, <1>k, <1>e, <1>4, <2>1, <2>2, Zenon
<1> QED
  BY <1>5, <1>6, <1>7, <1>8, <1>9, Zenon DEF m, k, e, Forms

(* The line of each irc_cmd_ function that is not refused.                  *)
Lined(a, b, x) ==
  /\ irc_cmd_msg(a, x) # Refused =>
       a # NULL /\ irc_cmd_msg(a, x) = Spelled(<<"PRIVMSG">>, <<a>>, <<x>>)
  /\ irc_cmd_notice(a, x) # Refused =>
       a # NULL /\ irc_cmd_notice(a, x) = Spelled(<<"NOTICE">>, <<a>>, <<x>>)
  /\ irc_cmd_join(a, x) # Refused =>
       a # NULL /\ irc_cmd_join(a, x) = Spelled(<<"JOIN">>, <<a>>, IF x = NULL THEN <<>> ELSE <<x>>)
  /\ irc_cmd_topic(a, x) # Refused =>
       a # NULL /\ irc_cmd_topic(a, x) = Spelled(<<"TOPIC">>, <<a>>, IF x = NULL THEN <<>> ELSE <<x>>)
  /\ irc_cmd_kick(b, a, x) # Refused =>
       a # NULL /\ b # NULL
       /\ irc_cmd_kick(b, a, x) = Spelled(<<"KICK">>, <<a, b>>, IF x = NULL THEN <<>> ELSE <<x>>)
  /\ irc_cmd_part(a) # Refused =>
       a # NULL /\ irc_cmd_part(a) = Spelled(<<"PART">>, <<a>>, <<>>)
  /\ irc_cmd_names(a) # Refused =>
       a # NULL /\ irc_cmd_names(a) = Spelled(<<"NAMES">>, <<a>>, <<>>)
  /\ irc_cmd_nick(a) # Refused =>
       a # NULL /\ irc_cmd_nick(a) = Spelled(<<"NICK">>, <<a>>, <<>>)
  /\ irc_cmd_invite(a, b) # Refused =>
       a # NULL /\ b # NULL /\ irc_cmd_invite(a, b) = Spelled(<<"INVITE">>, <<a, b>>, <<>>)
  /\ irc_cmd_whois(a) # Refused =>
       a # NULL /\ irc_cmd_whois(a) = Spelled(<<"WHOIS">>, <<a, a>>, <<>>)
  /\ irc_cmd_channel_mode(a, b) # Refused =>
       a # NULL /\ irc_cmd_channel_mode(a, b)
                   = Spelled(<<"MODE">>, IF b = NULL THEN <<a>> ELSE <<a, b>>, <<>>)
  /\ irc_cmd_user_mode(a, b) = Spelled(<<"MODE">>, IF b = NULL THEN <<a>> ELSE <<a, b>>, <<>>)
  /\ irc_cmd_list(a) = Spelled(<<"LIST">>, IF a = NULL THEN <<>> ELSE <<a>>, <<>>)
  /\ irc_custom_cmd_away(x) = Spelled(<<"AWAY">>, <<>>, IF x = NULL THEN <<>> ELSE <<x>>)
  /\ irc_cmd_quit(x) = Spelled(<<"QUIT">>, <<>>, IF x = NULL THEN <<<<"quit">>>> ELSE <<x>>)
  /\ <<"PING">> \o More(a) = Spelled(<<"PING">>, <<a>>, <<>>)

LEMMA LinesAre ==
  ASSUME NEW a, NEW b, NEW x, {a, b, x} \subseteq Seq(Letter)
  PROVE  Lined(a, b, x)
<1> DEFINE V == {<<n>> : n \in Verbs}
<1>1. V \subseteq Seq(Letter) /\ <<"quit">> \in Seq(Letter)
  BY VerbsAre, WordsArePlain DEF Verb, Plain, Names
<1>2. ASSUME NEW c \in V, NEW y \in {x, <<"quit">>}, NEW d \in {a, b}
      PROVE  /\ Spelled(c, <<>>, <<>>) = c
             /\ Spelled(c, <<d>>, <<>>) = c \o More(d)
             /\ Spelled(c, <<a, d>>, <<>>) = (c \o More(a)) \o More(d)
             /\ Spelled(c, <<>>, <<y>>) = c \o Trailing(y)
             /\ Spelled(c, <<a>>, <<y>>) = (c \o More(a)) \o Trailing(y)
             /\ Spelled(c, <<a, b>>, <<y>>) = ((c \o More(a)) \o More(b)) \o Trailing(y)
  <2>1. /\ c \in Seq(Letter) /\ y \in Seq(Letter) /\ d \in Seq(Letter)
        /\ {c, a, b, y} \subseteq Seq(Letter) /\ {c, d, d, y} \subseteq Seq(Letter)
        /\ {c, a, d, y} \subseteq Seq(Letter)
    BY <1>1
  <2>f. Forms(c, a, b, y) /\ Forms(c, d, d, y) /\ Forms(c, a, d, y)
    BY <2>1, FormsAre
  <2>2. /\ Spelled(c, <<>>, <<>>) = c /\ Spelled(c, <<>>, <<y>>) = c \o Trailing(y)
        /\ Spelled(c, <<a>>, <<y>>) = (c \o More(a)) \o Trailing(y)
        /\ Spelled(c, <<a, b>>, <<y>>) = ((c \o More(a)) \o More(b)) \o Trailing(y)
    BY <2>f, Zenon DEF Forms
  <2>3. Spelled(c, <<d>>, <<>>) = c \o More(d)
    BY <2>f, Zenon DEF Forms
  <2>4. Spelled(c, <<a, d>>, <<>>) = (c \o More(a)) \o More(d)
    BY <2>f, Zenon DEF Forms
  <2> QED
    BY <2>2, <2>3, <2>4
<1>3. \A c \in V : /\ c \o <<>> = c /\ (c \o More(a)) \o <<>> = c \o More(a)
                   /\ ((c \o More(a)) \o More(b)) \o <<>> = (c \o More(a)) \o More(b)
  <2> TAKE c \in V
  <2>1. c \in Seq(Letter) /\ More(a) \in Seq(Letter) /\ More(b) \in Seq(Letter)
    BY <1>1, MoreIs
  <2>2. c \o More(a) \in Seq(Letter)
    BY <2>1, ConcatProperties
  <2>3. (c \o More(a)) \o More(b) \in Seq(Letter)
    BY <2>1, <2>2, ConcatProperties
  <2>4. \A s \in Seq(Letter) : s \o <<>> = s
    BY ConcatEmptySeq
  <2> QED
    BY <2>1, <2>2, <2>3, <2>4, Zenon
<1>4. /\ <<"PRIVMSG">> \in V /\ <<"NOTICE">> \in V /\ <<"JOIN">> \in V /\ <<"TOPIC">> \in V
      /\ <<"KICK">> \in V /\ <<"PART">> \in V /\ <<"NAMES">> \in V /\ <<"NICK">> \in V
      /\ <<"INVITE">> \in V /\ <<"WHOIS">> \in V /\ <<"MODE">> \in V /\ <<"LIST">> \in V
      /\ <<"AWAY">> \in V /\ <<"QUIT">> \in V /\ <<"PING">> \in V
  BY Zenon DEF Verbs
<1> HIDE DEF V
<1>5. /\ irc_cmd_msg(a, x) # Refused =>
           a # NULL /\ irc_cmd_msg(a, x) = Spelled(<<"PRIVMSG">>, <<a>>, <<x>>)
      /\ irc_cmd_notice(a, x) # Refused =>
           a # NULL /\ irc_cmd_notice(a, x) = Spelled(<<"NOTICE">>, <<a>>, <<x>>)
  <2>1. /\ Spelled(<<"PRIVMSG">>, <<a>>, <<x>>) = (<<"PRIVMSG">> \o More(a)) \o Trailing(x)
        /\ Spelled(<<"NOTICE">>, <<a>>, <<x>>) = (<<"NOTICE">> \o More(a)) \o Trailing(x)
    BY <1>2, <1>4
  <2> QED
    BY <2>1, Zenon DEF irc_cmd_msg, irc_cmd_notice, Given
<1>6. /\ irc_cmd_join(a, x) # Refused =>
           a # NULL /\ irc_cmd_join(a, x) = Spelled(<<"JOIN">>, <<a>>, IF x = NULL THEN <<>> ELSE <<x>>)
      /\ irc_cmd_topic(a, x) # Refused =>
           a # NULL /\ irc_cmd_topic(a, x) = Spelled(<<"TOPIC">>, <<a>>, IF x = NULL THEN <<>> ELSE <<x>>)
  <2>1. \A c \in V : /\ Spelled(c, <<a>>, <<x>>) = (c \o More(a)) \o Trailing(x)
                     /\ Spelled(c, <<a>>, <<>>) = (c \o More(a)) \o <<>>
    BY <1>2, <1>3
  <2>2. CASE x = NULL
    <3>1. /\ irc_cmd_join(a, x) # Refused =>
               a # NULL /\ irc_cmd_join(a, x) = (<<"JOIN">> \o More(a)) \o <<>>
          /\ irc_cmd_topic(a, x) # Refused =>
               a # NULL /\ irc_cmd_topic(a, x) = (<<"TOPIC">> \o More(a)) \o <<>>
      BY <2>2, Zenon DEF irc_cmd_join, irc_cmd_topic, Given
    <3> QED
      BY <1>4, <2>1, <2>2, <3>1, Zenon
  <2>3. CASE x # NULL
    <3>1. /\ irc_cmd_join(a, x) # Refused =>
               a # NULL /\ irc_cmd_join(a, x) = (<<"JOIN">> \o More(a)) \o Trailing(x)
          /\ irc_cmd_topic(a, x) # Refused =>
               a # NULL /\ irc_cmd_topic(a, x) = (<<"TOPIC">> \o More(a)) \o Trailing(x)
      BY <2>3, Zenon DEF irc_cmd_join, irc_cmd_topic, Given
    <3> QED
      BY <1>4, <2>1, <2>3, <3>1, Zenon
  <2> QED
    BY <2>2, <2>3
<1>7. irc_cmd_kick(b, a, x) # Refused =>
        a # NULL /\ b # NULL
        /\ irc_cmd_kick(b, a, x) = Spelled(<<"KICK">>, <<a, b>>, IF x = NULL THEN <<>> ELSE <<x>>)
  <2>1. \A c \in V : /\ Spelled(c, <<a, b>>, <<x>>) = ((c \o More(a)) \o More(b)) \o Trailing(x)
                     /\ Spelled(c, <<a, b>>, <<>>) = ((c \o More(a)) \o More(b)) \o <<>>
    BY <1>2, <1>3
  <2>2. CASE x = NULL
    <3>1. irc_cmd_kick(b, a, x) # Refused =>
            a # NULL /\ b # NULL
            /\ irc_cmd_kick(b, a, x) = ((<<"KICK">> \o More(a)) \o More(b)) \o <<>>
      BY <2>2, Zenon DEF irc_cmd_kick, Given
    <3> QED
      BY <1>4, <2>1, <2>2, <3>1, Zenon
  <2>3. CASE x # NULL
    <3>1. irc_cmd_kick(b, a, x) # Refused =>
            a # NULL /\ b # NULL
            /\ irc_cmd_kick(b, a, x) = ((<<"KICK">> \o More(a)) \o More(b)) \o Trailing(x)
      BY <2>3, Zenon DEF irc_cmd_kick, Given
    <3> QED
      BY <1>4, <2>1, <2>3, <3>1, Zenon
  <2> QED
    BY <2>2, <2>3
<1>8. \A c \in V : Spelled(c, <<a>>, <<>>) = c \o More(a)
  BY <1>2
<1>9. /\ irc_cmd_part(a) # Refused => a # NULL /\ irc_cmd_part(a) = Spelled(<<"PART">>, <<a>>, <<>>)
      /\ irc_cmd_names(a) # Refused => a # NULL /\ irc_cmd_names(a) = Spelled(<<"NAMES">>, <<a>>, <<>>)
      /\ irc_cmd_nick(a) # Refused => a # NULL /\ irc_cmd_nick(a) = Spelled(<<"NICK">>, <<a>>, <<>>)
      /\ <<"PING">> \o More(a) = Spelled(<<"PING">>, <<a>>, <<>>)
  BY <1>4, <1>8, Zenon DEF irc_cmd_part, irc_cmd_names, irc_cmd_nick, Given
<1>10. \A c \in V : /\ Spelled(c, <<a, b>>, <<>>) = (c \o More(a)) \o More(b)
                    /\ Spelled(c, <<a, a>>, <<>>) = (c \o More(a)) \o More(a)
  BY <1>2
<1>11. /\ irc_cmd_invite(a, b) # Refused =>
            a # NULL /\ b # NULL /\ irc_cmd_invite(a, b) = Spelled(<<"INVITE">>, <<a, b>>, <<>>)
       /\ irc_cmd_whois(a) # Refused =>
            a # NULL /\ irc_cmd_whois(a) = Spelled(<<"WHOIS">>, <<a, a>>, <<>>)
  BY <1>4, <1>10, Zenon DEF irc_cmd_invite, irc_cmd_whois, Given
<1>12. /\ irc_cmd_channel_mode(a, b) # Refused =>
            a # NULL /\ irc_cmd_channel_mode(a, b)
                        = Spelled(<<"MODE">>, IF b = NULL THEN <<a>> ELSE <<a, b>>, <<>>)
       /\ irc_cmd_user_mode(a, b) = Spelled(<<"MODE">>, IF b = NULL THEN <<a>> ELSE <<a, b>>, <<>>)
  <2>1. CASE b = NULL
    <3>1. Spelled(<<"MODE">>, <<a>>, <<>>) = (<<"MODE">> \o More(a)) \o <<>>
      BY <1>3, <1>4, <1>8, Zenon
    <3> QED
      BY <2>1, <3>1, Zenon DEF irc_cmd_channel_mode, irc_cmd_user_mode, Given
  <2>2. CASE b # NULL
    <3>1. Spelled(<<"MODE">>, <<a, b>>, <<>>) = (<<"MODE">> \o More(a)) \o More(b)
      BY <1>4, <1>10, Zenon
    <3> QED
      BY <2>2, <3>1, Zenon DEF irc_cmd_channel_mode, irc_cmd_user_mode, Given
  <2> QED
    BY <2>1, <2>2
<1>13. irc_cmd_list(a) = Spelled(<<"LIST">>, IF a = NULL THEN <<>> ELSE <<a>>, <<>>)
  <2>1. \A c \in V : Spelled(c, <<>>, <<>>) = c \o <<>>
    BY <1>2, <1>3
  <2> QED
    BY <1>4, <1>8, <2>1, Zenon DEF irc_cmd_list, Given
<1>14. irc_custom_cmd_away(x) = Spelled(<<"AWAY">>, <<>>, IF x = NULL THEN <<>> ELSE <<x>>)
  <2>1. \A c \in V : Spelled(c, <<>>, <<>>) = c \o <<>> /\ Spelled(c, <<>>, <<x>>) = c \o Trailing(x)
    BY <1>2, <1>3
  <2> QED
    BY <1>4, <2>1, Zenon DEF irc_custom_cmd_away, Given
<1>15. irc_cmd_quit(x) = Spelled(<<"QUIT">>, <<>>, IF x = NULL THEN <<<<"quit">>>> ELSE <<x>>)
  <2>1. \A c \in V : /\ Spelled(c, <<>>, <<x>>) = c \o Trailing(x)
                     /\ Spelled(c, <<>>, <<<<"quit">>>>) = c \o Trailing(<<"quit">>)
    BY <1>2
  <2> QED
    BY <1>4, <2>1, Zenon DEF irc_cmd_quit, Given
<1> QED
  BY <1>5, <1>6, <1>7, <1>9, <1>11, <1>12, <1>13, <1>14, <1>15, Zenon DEF Lined

Framed(x) == (<<Soh, Action>> \o x) \o <<Soh>>

LEMMA ActionIs ==
  ASSUME NEW a, NEW x, {a, x} \subseteq Seq(Letter)
  PROVE  /\ Framed(x) \in Seq(Letter)
         /\ irc_cmd_me(a, x) # Refused =>
              a # NULL /\ irc_cmd_me(a, x) = Spelled(<<"PRIVMSG">>, <<a>>, <<Framed(x)>>)
<1> DEFINE v == <<"PRIVMSG">> \o More(a)
           lead == <<Soh, Action>>
           e == <<Soh>>
           k == <<Space, Colon>>
<1>1. {v} \subseteq Seq(Letter)
  <2>1. <<"PRIVMSG">> \in Seq(Letter)
    BY VerbsAre DEF Verbs, Verb
  <2>2. More(a) \in Seq(Letter)
    BY MoreIs
  <2> QED
    BY <2>1, <2>2, ConcatProperties
<1>2. k \in Seq(Letter)
  <2>1. Space \in Letter /\ Colon \in Letter
    BY Specials
  <2> HIDE DEF Letter
  <2> QED
    BY <2>1
<1>3. lead \in Seq(Letter) /\ e \in Seq(Letter)
  <2>1. Soh \in Letter /\ Action \in Letter
    BY Specials
  <2> HIDE DEF Letter
  <2> QED
    BY <2>1
<1>4. x \in Seq(Letter)
  OBVIOUS
<1>5. Trailing(lead) = k \o lead /\ Trailing(Framed(x)) = k \o ((lead \o x) \o e)
  BY DEF Trailing, Framed
<1> HIDE DEF v, lead, e, k
<1>6. lead \o x \in Seq(Letter) /\ k \o lead \in Seq(Letter)
  BY <1>2, <1>3, <1>4, ConcatProperties
<1>7. (lead \o x) \o e \in Seq(Letter)
  BY <1>3, <1>6, ConcatProperties
<1>8. Framed(x) \in Seq(Letter)
  BY <1>7 DEF Framed, lead, e
<1>9. ((v \o (k \o lead)) \o x) \o e = v \o (k \o ((lead \o x) \o e))
  <2>1. (k \o lead) \o x = k \o (lead \o x)
    BY <1>2, <1>3, <1>4, Regrouped
  <2>2. v \in Seq(Letter)
    BY <1>1
  <2> DEFINE s == lead \o x
             r == k \o lead
  <2>3. r \in Seq(Letter) /\ s \in Seq(Letter)
    BY <1>6
  <2> HIDE DEF r, s
  <2>4. (v \o r) \o x = v \o (r \o x)
    BY <1>4, <2>2, <2>3, Regrouped
  <2>5. e \in Seq(Letter)
    BY <1>3
  <2>6. (v \o (k \o s)) \o e = v \o ((k \o s) \o e)
    <3> DEFINE u == k \o s
    <3>1. u \in Seq(Letter)
      BY <1>2, <2>3, ConcatProperties
    <3> HIDE DEF u
    <3>2. (v \o u) \o e = v \o (u \o e)
      BY <2>2, <2>5, <3>1, Regrouped
    <3> QED
      BY <3>2 DEF u
  <2>7. (k \o s) \o e = k \o (s \o e)
    BY <1>2, <2>3, <2>5, Regrouped
  <2>8. ((v \o r) \o x) \o e = v \o (k \o (s \o e))
    BY <2>1, <2>4, <2>6, <2>7, Zenon DEF r, s
  <2> QED
    BY <2>8, Zenon DEF r, s
<1>10. Spelled(<<"PRIVMSG">>, <<a>>, <<Framed(x)>>) = v \o Trailing(Framed(x))
  <2>1. {<<"PRIVMSG">>, a, a, Framed(x)} \subseteq Seq(Letter)
    <3>1. <<"PRIVMSG">> \in Seq(Letter)
      BY VerbsAre DEF Verbs, Verb
    <3> QED
      BY <1>8, <3>1
  <2>2. Forms(<<"PRIVMSG">>, a, a, Framed(x))
    BY <2>1, FormsAre
  <2> QED
    BY <2>2, Zenon DEF Forms, v
<1>11. irc_cmd_me(a, x) # Refused =>
         a # NULL /\ irc_cmd_me(a, x) = ((v \o Trailing(lead)) \o x) \o e
  BY Zenon DEF irc_cmd_me, Given, v, lead, e
<1> QED
  BY <1>5, <1>8, <1>9, <1>10, <1>11, Zenon

-----------------------------------------------------------------------------
(* What a line says of the call that it was made for.                       *)

(* The text of a command as its line has it.                                *)
Written(cmd, t) ==
  IF cmd = "me" THEN Framed(Doubled(t))
  ELSE IF cmd \in {"msg", "notice"} THEN Doubled(t) ELSE JsonString(t)

(* The line of a command has the parameters meant, the last of which is     *)
(* written where it is a text.                                              *)
ReadsAs(cmd, f, line, ws, texts, told) ==
  /\ line = Spelled(Protocol[cmd].command, ws, texts)
  /\ Meant(cmd, f) = ws \o told
  /\ Len(ws) <= 2 /\ \A i \in 1..Len(ws) : Plain(ws[i])
  /\ texts = <<>> <=> told = <<>>
  /\ texts # <<>> => texts[1] = Written(cmd, told[1])
  /\ told # <<>> => LET t == Text([cmd |-> cmd, f |-> f])
                    IN IF t = NULL THEN told[1] \in {<<>>, <<"quit">>} ELSE told[1] = t
  /\ cmd \in {"msg", "me", "notice"} => Len(ws) = 1 /\ ws[1] = f["nch"] /\ texts # <<>>
  /\ cmd \in Relayed => ws # <<>> \/ texts # <<>>
  /\ cmd = "channel_mode" => ws # <<>> /\ ws[1] # You

Reads(cmd, f, line) ==
  \E ws \in Seq(Seq(Letter)), texts \in Endings, told \in Endings :
    ReadsAs(cmd, f, line, ws, texts, told)

(* What a command needs is there.                                           *)
Needs(cmd, f) ==
  \A i \in 1..Protocol[cmd].needs :
    Protocol[cmd].fields[i] = "text" \/ f[Protocol[cmd].fields[i]] # NULL

LEMMA FieldIs ==
  ASSUME NEW cmd, NEW f, Asks(cmd, f), NEW x \in Fields
  PROVE  /\ f[x] \in Seq(Letter) /\ JsonString(f[x]) \in Seq(Letter)
         /\ JsonString(f[x]) = NULL <=> f[x] = NULL
         /\ ~(cmd \in WithText /\ x = TextField[cmd]) =>
              /\ JsonString(f[x]) = f[x]
              /\ f[x] # NULL => f[x] = <<x>> /\ Plain(f[x])
<1>1. f[x] \in Seq(Letter)
  BY DEF Asks
<1>2. JsonString(f[x]) \in Seq(Letter)
  BY <1>1, JsonIs
<1>3. JsonString(f[x]) = NULL <=> f[x] = NULL
  BY <1>1, NullIs
<1>4. ASSUME ~(cmd \in WithText /\ x = TextField[cmd])
      PROVE  JsonString(f[x]) = f[x] /\ (f[x] # NULL => f[x] = <<x>> /\ Plain(f[x]))
  <2>1. f[x] = NULL \/ f[x] = <<x>>
    BY <1>4 DEF Asks
  <2>2. Plain(<<x>>)
    BY WordsArePlain DEF Names
  <2> QED
    BY <2>1, <2>2, NullIs, Zenon DEF Plain
<1> QED
  BY <1>1, <1>2, <1>3, <1>4

LEMMA NeedsAre ==
  ASSUME NEW cmd, NEW f, NEW a, NEW b, NEW c
  PROVE  LET fields == Protocol[cmd].fields
             needs == Protocol[cmd].needs
         IN /\ needs = 0 => Needs(cmd, f)
            /\ needs = 1 /\ (fields = <<a>> \/ fields = <<a, b>>) /\ f[a] # NULL => Needs(cmd, f)
            /\ needs = 2 /\ (fields = <<a, b>> \/ fields = <<a, b, c>>) /\ f[a] # NULL
                 /\ (b = "text" \/ f[b] # NULL) => Needs(cmd, f)
<1> DEFINE fields == Protocol[cmd].fields
           needs == Protocol[cmd].needs
<1>1. Needs(cmd, f) <=> \A i \in 1..needs : fields[i] = "text" \/ f[fields[i]] # NULL
  BY DEF Needs
<1> HIDE DEF fields, needs
<1>2. needs = 0 => Needs(cmd, f)
  BY <1>1
<1>3. fields = <<a>> \/ fields = <<a, b>> \/ fields = <<a, b, c>> => fields[1] = a
  OBVIOUS
<1>4. fields = <<a, b>> \/ fields = <<a, b, c>> => fields[2] = b
  OBVIOUS
<1>5. needs = 1 => \A i \in 1..needs : i = 1
  OBVIOUS
<1>6. needs = 2 => \A i \in 1..needs : i = 1 \/ i = 2
  OBVIOUS
<1> QED
  BY <1>1, <1>2, <1>3, <1>4, <1>5, <1>6, Zenon DEF fields, needs

(* The fields of a call as process_command has them.                        *)
Json(f) == [x \in Fields |-> JsonString(f[x])]

LEMMA JsonFields ==
  ASSUME NEW cmd, NEW f, Asks(cmd, f)
  PROVE  /\ \A x \in Fields \ {"server", "command"} : ReadFields(Json(f))[x] = JsonString(f[x])
         /\ f["command"] = NULL => ReadFields(Json(f))["server"] = JsonString(f["server"])
         /\ ReadText(Json(f)) = IF f["text"] = NULL THEN <<>> ELSE Doubled(f["text"])
<1>1. /\ \A x \in Fields : Json(f)[x] = JsonString(f[x])
      /\ "text" \in Fields /\ "server" \in Fields /\ "command" \in Fields /\ DOMAIN Json(f) = Fields
  BY DEF Json, Fields
<1> DEFINE g == Json(f)
<1> HIDE DEF g
<1>2. /\ \A x \in Fields \ {"server", "command"} : ReadFields(g)[x] = g[x]
      /\ ReadFields(g)["server"] = IF Given(g["command"]) THEN g["command"] ELSE g["server"]
  <2>1. DOMAIN g = Fields /\ "server" \in Fields /\ "server" # "command"
    BY <1>1 DEF g
  <2> HIDE DEF Fields
  <2> QED
    BY <2>1 DEF ReadFields
<1>3. f["command"] = NULL => ReadFields(g)["server"] = JsonString(f["server"])
  BY <1>1, <1>2, FieldIs DEF g, Given
<1>4. ReadText(g) = IF f["text"] = NULL THEN <<>> ELSE Doubled(f["text"])
  <2>1. f["text"] \in Seq(Letter) /\ (JsonString(f["text"]) = NULL <=> f["text"] = NULL)
    BY <1>1, FieldIs
  <2>2. Unescaped(JsonString(f["text"])) = Doubled(f["text"])
    BY <2>1, UnescapedJson
  <2> QED
    BY <1>1, <2>1, <2>2, Zenon DEF g, ReadText, Given
<1> QED
  BY <1>1, <1>2, <1>3, <1>4 DEF g

LEMMA OnlyWords ==
  ASSUME NEW cmd, NEW f, NEW ws \in Seq(Seq(Letter)), cmd \notin {"msg", "me", "notice"},
         Meant(cmd, f) = ws, Len(ws) <= 2, \A i \in 1..Len(ws) : Plain(ws[i]),
         cmd \in Relayed => ws # <<>>, cmd = "channel_mode" => ws # <<>> /\ ws[1] # You
  PROVE  Reads(cmd, f, Spelled(Protocol[cmd].command, ws, <<>>))
<1>1. <<>> \in Endings
  BY DEF Endings
<1>2. ws \o <<>> = ws
  <2> DEFINE W == Seq(Letter)
  <2>1. ws \in Seq(W)
    OBVIOUS
  <2> HIDE DEF W
  <2> QED
    BY <2>1, ConcatEmptySeq
<1>3. ReadsAs(cmd, f, Spelled(Protocol[cmd].command, ws, <<>>), ws, <<>>, <<>>)
  BY <1>2 DEF ReadsAs
<1> QED
  BY <1>1, <1>3 DEF Reads

LEMMA WrittenIs == \A cmd, t : t \in Seq(Letter) => Written(cmd, t) \in Seq(Letter)
<1> SUFFICES ASSUME NEW cmd, NEW t, t \in Seq(Letter) PROVE Written(cmd, t) \in Seq(Letter)
  OBVIOUS
<1>1. Doubled(t) \in Seq(Letter) /\ JsonString(t) \in Seq(Letter)
  BY DoubledIs, JsonIs
<1>2. {<<>>, Doubled(t)} \subseteq Seq(Letter)
  BY <1>1, EmptySeq
<1>3. Framed(Doubled(t)) \in Seq(Letter)
  BY <1>2, ActionIs
<1> QED
  BY <1>1, <1>3 DEF Written

LEMMA AndText ==
  ASSUME NEW cmd, NEW f, NEW ws \in Seq(Seq(Letter)), NEW t \in Seq(Letter),
         Meant(cmd, f) = ws \o <<t>>, Len(ws) <= 2, \A i \in 1..Len(ws) : Plain(ws[i]),
         cmd # "channel_mode", cmd \in {"msg", "me", "notice"} => Len(ws) = 1 /\ ws[1] = f["nch"],
         LET u == Text([cmd |-> cmd, f |-> f])
         IN IF u = NULL THEN t \in {<<>>, <<"quit">>} ELSE t = u
  PROVE  Reads(cmd, f, Spelled(Protocol[cmd].command, ws, <<Written(cmd, t)>>))
<1> DEFINE x == Written(cmd, t)
<1>1. <<x>> \in Endings /\ <<t>> \in Endings
  BY WrittenIs, Zenon DEF Endings
<1>2. <<x>> # <<>> /\ <<t>> # <<>> /\ <<x>>[1] = x /\ <<t>>[1] = t
  OBVIOUS
<1> HIDE DEF x
<1>3. ReadsAs(cmd, f, Spelled(Protocol[cmd].command, ws, <<x>>), ws, <<x>>, <<t>>)
  BY <1>2, Zenon DEF ReadsAs, x
<1> QED
  BY <1>1, <1>3, Zenon DEF Reads, x

LEMMA TextIs ==
  ASSUME NEW cmd, NEW f
  PROVE  /\ cmd \in WithText => Text([cmd |-> cmd, f |-> f]) = f[TextField[cmd]]
         /\ cmd \notin WithText => Text([cmd |-> cmd, f |-> f]) = NULL
BY DEF Text

LEMMA ListsAre ==
  ASSUME NEW a, NEW b, {a, b} \subseteq Seq(Letter)
  PROVE  /\ <<>> \in Seq(Seq(Letter)) /\ <<a>> \in Seq(Seq(Letter)) /\ <<a, b>> \in Seq(Seq(Letter))
         /\ Len(<<>>) = 0 /\ Len(<<a>>) = 1 /\ Len(<<a, b>>) = 2
         /\ <<a>>[1] = a /\ <<a>> # <<>> /\ <<a, b>> # <<>> /\ <<a, b>>[1] = a
         /\ \A i \in 1..1 : <<a>>[i] = a
         /\ \A i \in 1..2 : <<a, b>>[i] = a \/ <<a, b>>[i] = b
         /\ <<a>> \o <<>> = <<a>> /\ <<>> \o <<a>> = <<a>> /\ <<a>> \o <<b>> = <<a, b>>
<1> DEFINE W == Seq(Letter)
<1>1. a \in W /\ b \in W
  OBVIOUS
<1> HIDE DEF W
<1>2. /\ <<>> \in Seq(W) /\ <<a>> \in Seq(W) /\ <<a, b>> \in Seq(W)
      /\ Len(<<>>) = 0 /\ Len(<<a>>) = 1 /\ Len(<<a, b>>) = 2
      /\ <<a>>[1] = a /\ <<a>> # <<>> /\ <<a, b>> # <<>> /\ <<a, b>>[1] = a
      /\ \A i \in 1..1 : <<a>>[i] = a
      /\ \A i \in 1..2 : <<a, b>>[i] = a \/ <<a, b>>[i] = b
  BY <1>1, EmptySeq
<1>3. <<a>> \o <<>> = <<a>> /\ <<>> \o <<a>> = <<a>>
  BY <1>2, ConcatEmptySeq
<1>4. <<a>> \o <<b>> = <<a, b>>
  BY <1>1, TwoAre
<1> QED
  BY <1>2, <1>3, <1>4 DEF W

LEMMA MessagesRead ==
  ASSUME NEW cmd \in {"msg", "me", "notice"}, NEW f, Asks(cmd, f),
         Format(cmd, Json(f), Us) # Refused
  PROVE  Needs(cmd, f) /\ Reads(cmd, f, Format(cmd, Json(f), Us))
<1> DEFINE a == f["nch"]
           t == IF f["text"] = NULL THEN <<>> ELSE f["text"]
           line == Format(cmd, Json(f), Us)
<1>1. /\ cmd \in Simple /\ cmd \in WithText /\ TextField[cmd] = "text" /\ cmd # "channel_mode"
      /\ "nch" \in Fields \ {"server", "command"} /\ "text" \in Fields /\ "nch" # "text"
      /\ cmd # "quit"
  BY TextFieldsAre DEF Simple, Fields
<1>2. a \in Seq(Letter) /\ JsonString(a) = a /\ (a # NULL => Plain(a)) /\ f["text"] \in Seq(Letter)
  BY <1>1, FieldIs
<1>3. t \in Seq(Letter) /\ Doubled(t) \in Seq(Letter)
  BY <1>2, EmptySeq, DoubledIs
<1>4. ReadFields(Json(f))["nch"] = a /\ ReadText(Json(f)) = Doubled(t)
  <2>1. Doubled(<<>>) = <<>>
    BY DoubledIs
  <2> QED
    BY <1>1, <1>2, <2>1, JsonFields
<1>5. a # NULL /\ line = Spelled(Protocol[cmd].command, <<a>>, <<Written(cmd, t)>>)
  <2>1. CASE cmd = "msg"
    <3>1. line = irc_cmd_msg(a, Doubled(t)) /\ Protocol[cmd].command = <<"PRIVMSG">>
      BY <1>4, <2>1, FormatIs, ProtocolIs
    <3>2. Written(cmd, t) = Doubled(t)
      BY <2>1 DEF Written
    <3>3. {a, a, Doubled(t)} \subseteq Seq(Letter)
      BY <1>2, <1>3
    <3>4. Lined(a, a, Doubled(t))
      BY <3>3, LinesAre
    <3>5. line # Refused
      OBVIOUS
    <3> HIDE DEF a, t, line
    <3>6. a # NULL /\ line = Spelled(Protocol[cmd].command, <<a>>, <<Doubled(t)>>)
      BY <3>1, <3>4, <3>5 DEF Lined
    <3> QED
      BY <3>2, <3>6, Zenon
  <2>2. CASE cmd = "notice"
    <3>1. line = irc_cmd_notice(a, Doubled(t)) /\ Protocol[cmd].command = <<"NOTICE">>
      BY <1>4, <2>2, FormatIs, ProtocolIs
    <3>2. Written(cmd, t) = Doubled(t)
      BY <2>2 DEF Written
    <3>3. {a, a, Doubled(t)} \subseteq Seq(Letter)
      BY <1>2, <1>3
    <3>4. Lined(a, a, Doubled(t))
      BY <3>3, LinesAre
    <3>5. line # Refused
      OBVIOUS
    <3> HIDE DEF a, t, line
    <3>6. a # NULL /\ line = Spelled(Protocol[cmd].command, <<a>>, <<Doubled(t)>>)
      BY <3>1, <3>4, <3>5 DEF Lined
    <3> QED
      BY <3>2, <3>6, Zenon
  <2>3. CASE cmd = "me"
    <3>1. line = irc_cmd_me(a, Doubled(t)) /\ Protocol[cmd].command = <<"PRIVMSG">>
      BY <1>4, <2>3, FormatIs, ProtocolIs
    <3>2. Written(cmd, t) = Framed(Doubled(t))
      BY <2>3 DEF Written
    <3>3. {a, Doubled(t)} \subseteq Seq(Letter)
      BY <1>2, <1>3
    <3> QED
      BY <3>1, <3>2, <3>3, ActionIs
  <2> QED
    BY <2>1, <2>2, <2>3
<1>6. Meant(cmd, f) = <<a>> \o <<t>>
  <2>1. Meant(cmd, f) = MadeUp(cmd, "nch", a) \o MadeUp(cmd, "text", f["text"])
    BY <1>1, MeantIs
  <2>2. MadeUp(cmd, "nch", a) = <<a>>
    BY <1>2, <1>5, MadeUpIs
  <2>3. MadeUp(cmd, "text", f["text"]) = <<t>>
    BY <1>2, MadeUpIs
  <2> QED
    BY <2>1, <2>2, <2>3, Zenon
<1>7. Needs(cmd, f)
  <2>1. Protocol[cmd].fields = <<"nch", "text">> /\ Protocol[cmd].needs = 2
    BY ProtocolIs
  <2> QED
    BY <1>5, <2>1, NeedsAre
<1>8. LET u == Text([cmd |-> cmd, f |-> f])
      IN IF u = NULL THEN t \in {<<>>, <<"quit">>} ELSE t = u
  BY <1>1, TextIs
<1>9. /\ <<a>> \in Seq(Seq(Letter)) /\ Len(<<a>>) = 1 /\ <<a>>[1] = a
      /\ \A i \in 1..Len(<<a>>) : Plain(<<a>>[i])
  <2>1. {a, a} \subseteq Seq(Letter)
    BY <1>2
  <2> QED
    BY <1>2, <1>5, <2>1, ListsAre
<1> HIDE DEF a, t, line
<1>10. Len(<<a>>) <= 2
  BY <1>9
<1>11. Reads(cmd, f, Spelled(Protocol[cmd].command, <<a>>, <<Written(cmd, t)>>))
  BY <1>1, <1>3, <1>6, <1>8, <1>9, <1>10, AndText DEF a
<1> QED
  BY <1>5, <1>7, <1>11, Zenon DEF line

(* At most two words.                                                       *)
Short(ws) == ws \in Seq(Seq(Letter)) /\ Len(ws) <= 2 /\ \A i \in 1..Len(ws) : Plain(ws[i])

LEMMA ShortLists ==
  ASSUME NEW a, NEW b, Plain(a), Plain(b)
  PROVE  Short(<<>>) /\ Short(<<a>>) /\ Short(<<a, b>>)
<1>1. {a, b} \subseteq Seq(Letter)
  BY DEF Plain
<1>2. /\ <<>> \in Seq(Seq(Letter)) /\ <<a>> \in Seq(Seq(Letter)) /\ <<a, b>> \in Seq(Seq(Letter))
      /\ Len(<<>>) = 0 /\ Len(<<a>>) = 1 /\ Len(<<a, b>>) = 2
      /\ \A i \in 1..1 : <<a>>[i] = a
      /\ \A i \in 1..2 : <<a, b>>[i] = a \/ <<a, b>>[i] = b
  BY <1>1, ListsAre
<1>3. Short(<<>>)
  <2>1. \A i \in 1..0 : FALSE
    OBVIOUS
  <2> QED
    BY <1>2, <2>1 DEF Short
<1>4. Short(<<a>>)
  BY <1>2 DEF Short
<1>5. Short(<<a, b>>)
  BY <1>2 DEF Short
<1> QED
  BY <1>3, <1>4, <1>5

LEMMA TopicReads ==
  ASSUME NEW cmd \in {"join", "topic"}, NEW f, Asks(cmd, f), Format(cmd, Json(f), Us) # Refused
  PROVE  Needs(cmd, f) /\ Reads(cmd, f, Format(cmd, Json(f), Us))
<1> DEFINE a == f["channel"]
           key == TextField[cmd]
           t == f[key]
           x == JsonString(t)
           line == Format(cmd, Json(f), Us)
<1>1. /\ cmd \in Simple /\ cmd \in WithText /\ key \in Fields \ {"server", "command"}
      /\ "channel" \in Fields \ {"server", "command"} /\ "channel" # key /\ key # "text"
      /\ cmd \notin {"msg", "me", "notice", "quit", "channel_mode"}
  BY TextFieldsAre DEF Simple, Fields
<1>2. /\ a \in Seq(Letter) /\ JsonString(a) = a /\ (a # NULL => Plain(a))
      /\ t \in Seq(Letter) /\ x \in Seq(Letter) /\ (x = NULL <=> t = NULL)
  BY <1>1, FieldIs
<1>3. ReadFields(Json(f))["channel"] = a /\ ReadFields(Json(f))[key] = x
  BY <1>1, <1>2, JsonFields
<1>4. line = IF cmd = "join" THEN irc_cmd_join(a, x) ELSE irc_cmd_topic(a, x)
  BY <1>3, FormatIs, TextFieldsAre
<1>5. Protocol[cmd].command = IF cmd = "join" THEN <<"JOIN">> ELSE <<"TOPIC">>
  BY ProtocolIs
<1>6. Protocol[cmd].fields = <<"channel", key>> /\ Protocol[cmd].needs = 1
  BY ProtocolIs, TextFieldsAre
<1>7. Meant(cmd, f) = MadeUp(cmd, "channel", a) \o MadeUp(cmd, key, t)
  BY <1>1, MeantIs, TextFieldsAre
<1>8. line # Refused
  OBVIOUS
<1>9. Text([cmd |-> cmd, f |-> f]) = t
  BY <1>1, TextIs
<1> HIDE DEF a, t, x, line
<1>10. Lined(a, a, x)
  <2>1. {a, a, x} \subseteq Seq(Letter)
    BY <1>2
  <2> QED
    BY <2>1, LinesAre
<1>11. a # NULL /\ line = Spelled(Protocol[cmd].command, <<a>>, IF x = NULL THEN <<>> ELSE <<x>>)
  BY <1>4, <1>5, <1>8, <1>10 DEF Lined
<1>12. Needs(cmd, f)
  BY <1>6, <1>11, NeedsAre DEF a
<1>13. Short(<<a>>) /\ <<a>> # <<>> /\ MadeUp(cmd, "channel", a) = <<a>>
  BY <1>2, <1>11, ShortLists, MadeUpIs
<1>14. CASE t = NULL
  <2>1. MadeUp(cmd, key, t) = <<>>
    BY <1>1, <1>2, <1>14, MadeUpIs
  <2>2. Meant(cmd, f) = <<a>>
    <3>1. {a, a} \subseteq Seq(Letter)
      BY <1>2
    <3>2. <<a>> \o <<>> = <<a>>
      BY <3>1, ListsAre
    <3> QED
      BY <1>7, <1>13, <2>1, <3>2, Zenon
  <2>3. Reads(cmd, f, Spelled(Protocol[cmd].command, <<a>>, <<>>))
    BY <1>1, <1>13, <2>2, OnlyWords DEF Short
  <2>4. line = Spelled(Protocol[cmd].command, <<a>>, <<>>)
    BY <1>2, <1>11, <1>14, Zenon
  <2> QED
    BY <1>12, <2>3, <2>4, Zenon DEF line
<1>15. CASE t # NULL
  <2>1. MadeUp(cmd, key, t) = <<t>>
    BY <1>2, <1>15, MadeUpIs
  <2>2. Written(cmd, t) = x
    BY <1>1, Zenon DEF Written, x
  <2>3. Meant(cmd, f) = <<a>> \o <<t>>
    BY <1>7, <1>13, <2>1, Zenon
  <2>4. Reads(cmd, f, Spelled(Protocol[cmd].command, <<a>>, <<Written(cmd, t)>>))
    BY <1>1, <1>2, <1>9, <1>13, <1>15, <2>3, AndText DEF Short
  <2>5. line = Spelled(Protocol[cmd].command, <<a>>, <<x>>)
    BY <1>2, <1>11, <1>15, Zenon
  <2> QED
    BY <1>12, <2>2, <2>4, <2>5, Zenon DEF line
<1> QED
  BY <1>14, <1>15

LEMMA KickReads ==
  ASSUME NEW f, Asks("kick", f), Format("kick", Json(f), Us) # Refused
  PROVE  Needs("kick", f) /\ Reads("kick", f, Format("kick", Json(f), Us))
<1> DEFINE cmd == "kick"
           a == f["channel"]
           b == f["nick"]
           t == f["reason"]
           x == JsonString(t)
           line == Format(cmd, Json(f), Us)
<1>1. /\ cmd \in Simple /\ cmd \in WithText /\ TextField[cmd] = "reason"
      /\ "channel" \in Fields \ {"server", "command"} /\ "nick" \in Fields \ {"server", "command"}
      /\ "reason" \in Fields \ {"server", "command"} /\ "channel" # "reason" /\ "nick" # "reason"
      /\ cmd \notin {"msg", "me", "notice", "quit", "channel_mode"}
  BY TextFieldsAre DEF Simple, Fields
<1>2. /\ a \in Seq(Letter) /\ JsonString(a) = a /\ (a # NULL => Plain(a))
      /\ b \in Seq(Letter) /\ JsonString(b) = b /\ (b # NULL => Plain(b))
      /\ t \in Seq(Letter) /\ x \in Seq(Letter) /\ (x = NULL <=> t = NULL)
  BY <1>1, FieldIs
<1>3. /\ ReadFields(Json(f))["channel"] = a /\ ReadFields(Json(f))["nick"] = b
      /\ ReadFields(Json(f))["reason"] = x
  BY <1>1, <1>2, JsonFields
<1>4. line = irc_cmd_kick(b, a, x)
  BY <1>3, FormatIs
<1>5. /\ Protocol[cmd].command = <<"KICK">> /\ Protocol[cmd].fields = <<"channel", "nick", "reason">>
      /\ Protocol[cmd].needs = 2
  BY ProtocolIs
<1>6. Meant(cmd, f) = (MadeUp(cmd, "channel", a) \o MadeUp(cmd, "nick", b)) \o MadeUp(cmd, "reason", t)
  BY <1>1, MeantIs
<1>7. line # Refused
  OBVIOUS
<1>8. Text([cmd |-> cmd, f |-> f]) = t
  BY <1>1, TextIs
<1> HIDE DEF a, b, t, x, line
<1>9. Lined(a, b, x)
  <2>1. {a, b, x} \subseteq Seq(Letter)
    BY <1>2
  <2> QED
    BY <2>1, LinesAre
<1>10. a # NULL /\ b # NULL
       /\ line = Spelled(Protocol[cmd].command, <<a, b>>, IF x = NULL THEN <<>> ELSE <<x>>)
  BY <1>4, <1>5, <1>7, <1>9 DEF Lined
<1>11. Needs(cmd, f)
  BY <1>5, <1>10, NeedsAre DEF a, b
<1>12. /\ Short(<<a, b>>) /\ <<a, b>> # <<>>
       /\ MadeUp(cmd, "channel", a) \o MadeUp(cmd, "nick", b) = <<a, b>>
       /\ <<a, b>> \o <<>> = <<a, b>>
  <2>1. {a, b} \subseteq Seq(Letter)
    BY <1>2
  <2>2. MadeUp(cmd, "channel", a) = <<a>> /\ MadeUp(cmd, "nick", b) = <<b>>
    BY <1>2, <1>10, MadeUpIs
  <2>3. <<a>> \o <<b>> = <<a, b>> /\ <<a, b>> # <<>> /\ <<a, b>> \in Seq(Seq(Letter))
    BY <2>1, ListsAre
  <2>4. <<a, b>> \o <<>> = <<a, b>>
    <3> DEFINE W == Seq(Letter)
    <3>1. <<a, b>> \in Seq(W)
      BY <2>3
    <3> HIDE DEF W
    <3> QED
      BY <3>1, ConcatEmptySeq
  <2> QED
    BY <1>2, <1>10, <2>2, <2>3, <2>4, ShortLists
<1>13. CASE t = NULL
  <2>1. MadeUp(cmd, "reason", t) = <<>>
    BY <1>1, <1>2, <1>13, MadeUpIs
  <2>2. Meant(cmd, f) = <<a, b>>
    BY <1>6, <1>12, <2>1, Zenon
  <2>3. Reads(cmd, f, Spelled(Protocol[cmd].command, <<a, b>>, <<>>))
    BY <1>1, <1>12, <2>2, OnlyWords DEF Short
  <2>4. line = Spelled(Protocol[cmd].command, <<a, b>>, <<>>)
    BY <1>2, <1>10, <1>13, Zenon
  <2> QED
    BY <1>11, <2>3, <2>4, Zenon DEF line
<1>14. CASE t # NULL
  <2>1. MadeUp(cmd, "reason", t) = <<t>>
    BY <1>2, <1>14, MadeUpIs
  <2>2. Written(cmd, t) = x
    BY <1>1, Zenon DEF Written, x
  <2>3. Meant(cmd, f) = <<a, b>> \o <<t>>
    BY <1>6, <1>12, <2>1, Zenon
  <2>4. Reads(cmd, f, Spelled(Protocol[cmd].command, <<a, b>>, <<Written(cmd, t)>>))
    BY <1>1, <1>2, <1>8, <1>12, <1>14, <2>3, AndText DEF Short
  <2>5. line = Spelled(Protocol[cmd].command, <<a, b>>, <<x>>)
    BY <1>2, <1>10, <1>14, Zenon
  <2> QED
    BY <1>11, <2>2, <2>4, <2>5, Zenon DEF line
<1> QED
  BY <1>13, <1>14

LEMMA ReasonReads ==
  ASSUME NEW cmd \in {"quit", "away"}, NEW f, Asks(cmd, f)
  PROVE  Needs(cmd, f) /\ Reads(cmd, f, Format(cmd, Json(f), Us))
<1> DEFINE t == f["reason"]
           x == JsonString(t)
           line == Format(cmd, Json(f), Us)
<1>1. /\ cmd \in Simple /\ cmd \in WithText /\ TextField[cmd] = "reason"
      /\ "reason" \in Fields \ {"server", "command"} /\ "reason" # "text"
      /\ cmd \notin {"msg", "me", "notice", "channel_mode"} /\ "away" \notin Relayed
  BY TextFieldsAre DEF Simple, Fields, Relayed
<1>2. t \in Seq(Letter) /\ x \in Seq(Letter) /\ (x = NULL <=> t = NULL)
  BY <1>1, FieldIs
<1>3. ReadFields(Json(f))["reason"] = x
  BY <1>1, JsonFields
<1>4. line = IF cmd = "quit" THEN irc_cmd_quit(x) ELSE irc_custom_cmd_away(x)
  BY <1>3, FormatIs
<1>5. Protocol[cmd].command = (IF cmd = "quit" THEN <<"QUIT">> ELSE <<"AWAY">>)
      /\ Protocol[cmd].needs = 0
  BY ProtocolIs
<1>6. Meant(cmd, f) = MadeUp(cmd, "reason", t)
  BY <1>1, MeantIs
<1>7. Text([cmd |-> cmd, f |-> f]) = t
  BY <1>1, TextIs
<1>8. Needs(cmd, f)
  BY <1>5, NeedsAre
<1>9. Plain(<<"quit">>) /\ Short(<<>>)
  BY WordsArePlain, ShortLists DEF Names
<1> HIDE DEF t, x, line
<1>10. Lined(x, x, x)
  <2>1. {x, x, x} \subseteq Seq(Letter)
    BY <1>2
  <2> QED
    BY <2>1, LinesAre
<1>11. line = Spelled(Protocol[cmd].command, <<>>,
                IF x # NULL THEN <<x>> ELSE IF cmd = "quit" THEN <<<<"quit">>>> ELSE <<>>)
  BY <1>4, <1>5, <1>10, Zenon DEF Lined
<1>12. \A u \in Seq(Letter) : <<>> \o <<u>> = <<u>>
  <2> TAKE u \in Seq(Letter)
  <2>1. {u, u} \subseteq Seq(Letter)
    OBVIOUS
  <2> QED
    BY <2>1, ListsAre
<1>13. CASE t # NULL
  <2>1. Meant(cmd, f) = <<>> \o <<t>>
    BY <1>2, <1>6, <1>12, <1>13, MadeUpIs
  <2>2. Written(cmd, t) = x
    BY <1>1, Zenon DEF Written, x
  <2>3. Reads(cmd, f, Spelled(Protocol[cmd].command, <<>>, <<Written(cmd, t)>>))
    BY <1>1, <1>2, <1>7, <1>9, <1>13, <2>1, AndText DEF Short
  <2>4. line = Spelled(Protocol[cmd].command, <<>>, <<x>>)
    BY <1>2, <1>11, <1>13, Zenon
  <2> QED
    BY <1>8, <2>2, <2>3, <2>4, Zenon DEF line
<1>14. CASE t = NULL /\ cmd = "quit"
  <2> DEFINE q == <<"quit">>
  <2>1. q \in Seq(Letter) /\ JsonString(q) = q
    BY <1>9 DEF Plain
  <2>2. MadeUp(cmd, "reason", t) = <<q>>
    BY <1>1, <1>2, <1>14, MadeUpIs
  <2>3. Meant(cmd, f) = <<>> \o <<q>>
    BY <1>6, <1>12, <2>1, <2>2, Zenon
  <2>4. Written(cmd, q) = q
    BY <1>1, <2>1, Zenon DEF Written
  <2>5. LET u == Text([cmd |-> cmd, f |-> f])
        IN IF u = NULL THEN q \in {<<>>, <<"quit">>} ELSE q = u
    BY <1>7, <1>14, Zenon
  <2> HIDE DEF q
  <2>6. Reads(cmd, f, Spelled(Protocol[cmd].command, <<>>, <<Written(cmd, q)>>))
    BY <1>1, <1>9, <1>14, <2>1, <2>3, <2>5, AndText DEF Short
  <2>7. line = Spelled(Protocol[cmd].command, <<>>, <<q>>)
    BY <1>2, <1>11, <1>14, Zenon DEF q
  <2> QED
    BY <1>8, <2>4, <2>6, <2>7, Zenon DEF line
<1>15. CASE t = NULL /\ cmd # "quit"
  <2>1. Meant(cmd, f) = <<>>
    BY <1>1, <1>2, <1>6, <1>15, MadeUpIs
  <2>2. Reads(cmd, f, Spelled(Protocol[cmd].command, <<>>, <<>>))
    BY <1>1, <1>9, <1>15, <2>1, OnlyWords DEF Short
  <2>3. line = Spelled(Protocol[cmd].command, <<>>, <<>>)
    BY <1>2, <1>11, <1>15, Zenon
  <2> QED
    BY <1>8, <2>2, <2>3, Zenon DEF line
<1> QED
  BY <1>13, <1>14, <1>15

LEMMA PartReads ==
  ASSUME NEW cmd \in {"part", "names", "nick"}, NEW f, Asks(cmd, f),
         Format(cmd, Json(f), Us) # Refused
  PROVE  Needs(cmd, f) /\ Reads(cmd, f, Format(cmd, Json(f), Us))
<1> DEFINE field == IF cmd = "nick" THEN "nick" ELSE "channel"
           a == f[field]
           line == Format(cmd, Json(f), Us)
<1>1. /\ cmd \in Simple /\ cmd \notin WithText /\ field \in Fields \ {"server", "command"}
      /\ cmd \notin {"msg", "me", "notice", "quit", "channel_mode"} /\ field # "text"
  BY TextFieldsAre DEF Simple, Fields
<1>2. a \in Seq(Letter) /\ JsonString(a) = a /\ (a # NULL => Plain(a))
  BY <1>1, FieldIs
<1>3. ReadFields(Json(f))[field] = a
  BY <1>1, <1>2, JsonFields
<1>4. /\ cmd = "part" => line = irc_cmd_part(a) /\ Protocol[cmd].command = <<"PART">>
      /\ cmd = "names" => line = irc_cmd_names(a) /\ Protocol[cmd].command = <<"NAMES">>
      /\ cmd = "nick" => line = irc_cmd_nick(a) /\ Protocol[cmd].command = <<"NICK">>
  BY <1>3, FormatIs, ProtocolIs
<1>5. Protocol[cmd].fields = <<field>> /\ Protocol[cmd].needs = 1
  BY ProtocolIs
<1>6. Meant(cmd, f) = MadeUp(cmd, field, a)
  BY <1>1, MeantIs
<1>7. line # Refused
  OBVIOUS
<1> HIDE DEF a, line, field
<1>8. Lined(a, a, a)
  <2>1. {a, a, a} \subseteq Seq(Letter)
    BY <1>2
  <2> QED
    BY <2>1, LinesAre
<1>9. a # NULL /\ line = Spelled(Protocol[cmd].command, <<a>>, <<>>)
  BY <1>4, <1>7, <1>8 DEF Lined
<1>10. Needs(cmd, f)
  BY <1>5, <1>9, NeedsAre DEF a
<1>11. Short(<<a>>) /\ <<a>> # <<>> /\ Meant(cmd, f) = <<a>>
  BY <1>2, <1>6, <1>9, ShortLists, MadeUpIs
<1>12. Reads(cmd, f, Spelled(Protocol[cmd].command, <<a>>, <<>>))
  BY <1>1, <1>11, OnlyWords DEF Short
<1> QED
  BY <1>9, <1>10, <1>12, Zenon DEF line

LEMMA InviteReads ==
  ASSUME NEW cmd \in {"invite", "whois"}, NEW f, Asks(cmd, f), Format(cmd, Json(f), Us) # Refused
  PROVE  Needs(cmd, f) /\ Reads(cmd, f, Format(cmd, Json(f), Us))
<1> DEFINE field == IF cmd = "invite" THEN "channel" ELSE "nick"
           a == f["nick"]
           b == f[field]
           line == Format(cmd, Json(f), Us)
<1>1. /\ cmd \in Simple /\ cmd \notin WithText /\ field \in Fields \ {"server", "command"}
      /\ "nick" \in Fields \ {"server", "command"} /\ field # "text"
      /\ cmd \notin {"msg", "me", "notice", "quit", "channel_mode"}
  BY TextFieldsAre DEF Simple, Fields
<1>2. /\ a \in Seq(Letter) /\ JsonString(a) = a /\ (a # NULL => Plain(a))
      /\ b \in Seq(Letter) /\ JsonString(b) = b /\ (b # NULL => Plain(b))
  BY <1>1, FieldIs
<1>3. ReadFields(Json(f))["nick"] = a /\ ReadFields(Json(f))[field] = b
  BY <1>1, <1>2, JsonFields
<1>4. /\ cmd = "invite" => line = irc_cmd_invite(a, b) /\ Protocol[cmd].command = <<"INVITE">>
      /\ cmd = "whois" => line = irc_cmd_whois(a) /\ Protocol[cmd].command = <<"WHOIS">> /\ b = a
  BY <1>3, FormatIs, ProtocolIs
<1>5. Protocol[cmd].fields = <<"nick", field>> /\ Protocol[cmd].needs = 2
  BY ProtocolIs
<1>6. Meant(cmd, f) = MadeUp(cmd, "nick", a) \o MadeUp(cmd, field, b)
  BY <1>1, MeantIs
<1>7. line # Refused
  OBVIOUS
<1> HIDE DEF a, b, line, field
<1>8. Lined(a, b, a)
  <2>1. {a, b, a} \subseteq Seq(Letter)
    BY <1>2
  <2> QED
    BY <2>1, LinesAre
<1>9. a # NULL /\ b # NULL /\ line = Spelled(Protocol[cmd].command, <<a, b>>, <<>>)
  BY <1>4, <1>7, <1>8 DEF Lined
<1>10. Needs(cmd, f)
  BY <1>5, <1>9, NeedsAre DEF a, b
<1>11. Short(<<a, b>>) /\ <<a, b>> # <<>> /\ Meant(cmd, f) = <<a, b>>
  <2>1. {a, b} \subseteq Seq(Letter)
    BY <1>2
  <2>2. MadeUp(cmd, "nick", a) = <<a>> /\ MadeUp(cmd, field, b) = <<b>>
    BY <1>2, <1>9, MadeUpIs
  <2>3. <<a>> \o <<b>> = <<a, b>> /\ <<a, b>> # <<>>
    BY <2>1, ListsAre
  <2> QED
    BY <1>2, <1>6, <1>9, <2>2, <2>3, ShortLists
<1>12. Reads(cmd, f, Spelled(Protocol[cmd].command, <<a, b>>, <<>>))
  BY <1>1, <1>11, OnlyWords DEF Short
<1> QED
  BY <1>9, <1>10, <1>12, Zenon DEF line

LEMMA ModeReads ==
  ASSUME NEW cmd \in {"channel_mode", "user_mode"}, NEW f, Asks(cmd, f),
         Format(cmd, Json(f), Us) # Refused
  PROVE  Needs(cmd, f) /\ Reads(cmd, f, Format(cmd, Json(f), Us))
<1> DEFINE a == IF cmd = "user_mode" THEN Us ELSE f["channel"]
           b == f["mode"]
           line == Format(cmd, Json(f), Us)
<1>1. /\ cmd \in Simple /\ cmd \notin WithText /\ "channel" \in Fields \ {"server", "command"}
      /\ "mode" \in Fields \ {"server", "command"} /\ "mode" # "text" /\ "user_mode" \notin Relayed
      /\ cmd \notin {"msg", "me", "notice", "quit"}
  BY TextFieldsAre DEF Simple, Fields, Relayed
<1>2. /\ a \in Seq(Letter) /\ (a # NULL => Plain(a)) /\ (cmd = "user_mode" => a # NULL)
      /\ b \in Seq(Letter) /\ JsonString(b) = b /\ (b # NULL => Plain(b))
      /\ cmd = "channel_mode" /\ a # NULL => a = <<"channel">>
  <2>1. Plain(Us)
    BY WordsArePlain
  <2> QED
    BY <1>1, <2>1, FieldIs DEF Plain
<1>3. /\ cmd = "channel_mode" => ReadFields(Json(f))["channel"] = a
      /\ ReadFields(Json(f))["mode"] = b
  BY <1>1, <1>2, FieldIs, JsonFields
<1>4. /\ cmd = "channel_mode" => line = irc_cmd_channel_mode(a, b)
      /\ cmd = "user_mode" => line = irc_cmd_user_mode(a, b)
      /\ Protocol[cmd].command = <<"MODE">>
  BY <1>3, FormatIs, ProtocolIs
<1>5. /\ cmd = "channel_mode" => Protocol[cmd].fields = <<"channel", "mode">> /\ Protocol[cmd].needs = 1
      /\ cmd = "user_mode" => Protocol[cmd].needs = 0
  BY ProtocolIs
<1>6. /\ cmd = "channel_mode" => Meant(cmd, f) = MadeUp(cmd, "channel", a) \o MadeUp(cmd, "mode", b)
      /\ cmd = "user_mode" => Meant(cmd, f) = <<a>> \o MadeUp(cmd, "mode", b)
  BY <1>1, MeantIs
<1>7. line # Refused /\ (cmd = "channel_mode" => a = f["channel"])
  OBVIOUS
<1> HIDE DEF a, b, line
<1>8. Lined(a, b, a)
  <2>1. {a, b, a} \subseteq Seq(Letter)
    BY <1>2
  <2> QED
    BY <2>1, LinesAre
<1>9. a # NULL /\ line = Spelled(Protocol[cmd].command, IF b = NULL THEN <<a>> ELSE <<a, b>>, <<>>)
  BY <1>2, <1>4, <1>7, <1>8 DEF Lined
<1>10. Needs(cmd, f)
  BY <1>5, <1>7, <1>9, NeedsAre
<1>11. Meant(cmd, f) = <<a>> \o MadeUp(cmd, "mode", b) /\ (cmd = "channel_mode" => a # You)
  <2>1. MadeUp(cmd, "channel", a) = <<a>>
    BY <1>2, <1>9, MadeUpIs
  <2>2. <<"channel">> # You
    <3>1. <<"channel">>[1] = "channel" /\ You[1] = "you"
      BY DEF You
    <3> QED
      BY <3>1, Zenon
  <2> QED
    BY <1>2, <1>6, <1>9, <2>1, <2>2, Zenon
<1>12. {a, b} \subseteq Seq(Letter)
  BY <1>2
<1>13. CASE b = NULL
  <2>1. MadeUp(cmd, "mode", b) = <<>> /\ <<a>> \o <<>> = <<a>> /\ <<a>> # <<>> /\ <<a>>[1] = a
    BY <1>1, <1>2, <1>12, <1>13, MadeUpIs, ListsAre
  <2>2. Meant(cmd, f) = <<a>> /\ Short(<<a>>)
    BY <1>2, <1>9, <1>11, <2>1, ShortLists
  <2>3. Reads(cmd, f, Spelled(Protocol[cmd].command, <<a>>, <<>>))
    BY <1>1, <1>11, <2>1, <2>2, OnlyWords DEF Short
  <2> QED
    BY <1>9, <1>10, <1>13, <2>3, Zenon DEF line
<1>14. CASE b # NULL
  <2>1. MadeUp(cmd, "mode", b) = <<b>> /\ <<a>> \o <<b>> = <<a, b>> /\ <<a, b>> # <<>> /\ <<a, b>>[1] = a
    BY <1>2, <1>12, <1>14, MadeUpIs, ListsAre
  <2>2. Meant(cmd, f) = <<a, b>> /\ Short(<<a, b>>)
    BY <1>2, <1>9, <1>11, <1>14, <2>1, ShortLists
  <2>3. Reads(cmd, f, Spelled(Protocol[cmd].command, <<a, b>>, <<>>))
    BY <1>1, <1>11, <2>1, <2>2, OnlyWords DEF Short
  <2> QED
    BY <1>9, <1>10, <1>14, <2>3, Zenon DEF line
<1> QED
  BY <1>13, <1>14

LEMMA ListReads ==
  ASSUME NEW f, Asks("list", f)
  PROVE  Needs("list", f) /\ Reads("list", f, Format("list", Json(f), Us))
<1> DEFINE cmd == "list"
           a == f["channel"]
           line == Format(cmd, Json(f), Us)
<1>1. /\ cmd \in Simple /\ cmd \notin WithText /\ "channel" \in Fields \ {"server", "command"}
      /\ cmd \notin {"msg", "me", "notice", "quit", "channel_mode"} /\ cmd \notin Relayed
  BY TextFieldsAre DEF Simple, Fields, Relayed
<1>2. a \in Seq(Letter) /\ JsonString(a) = a /\ (a # NULL => Plain(a))
  BY <1>1, FieldIs
<1>3. ReadFields(Json(f))["channel"] = a
  BY <1>1, <1>2, JsonFields
<1>4. line = irc_cmd_list(a) /\ Protocol[cmd].command = <<"LIST">> /\ Protocol[cmd].needs = 0
  BY <1>3, FormatIs, ProtocolIs
<1>5. Meant(cmd, f) = MadeUp(cmd, "channel", a)
  BY <1>1, MeantIs
<1>6. Needs(cmd, f)
  BY <1>4, NeedsAre
<1> HIDE DEF a, line
<1>7. Lined(a, a, a)
  <2>1. {a, a, a} \subseteq Seq(Letter)
    BY <1>2
  <2> QED
    BY <2>1, LinesAre
<1>8. line = Spelled(Protocol[cmd].command, IF a = NULL THEN <<>> ELSE <<a>>, <<>>)
  BY <1>4, <1>7, Zenon DEF Lined
<1>9. Short(<<>>) /\ (a # NULL => Short(<<a>>))
  <2>1. Plain(Us)
    BY WordsArePlain
  <2> QED
    BY <1>2, <2>1, ShortLists
<1>10. CASE a = NULL
  <2>1. Meant(cmd, f) = <<>>
    BY <1>1, <1>2, <1>5, <1>10, MadeUpIs
  <2>2. Reads(cmd, f, Spelled(Protocol[cmd].command, <<>>, <<>>))
    BY <1>1, <1>9, <2>1, OnlyWords DEF Short
  <2> QED
    BY <1>6, <1>8, <1>10, <2>2, Zenon DEF line
<1>11. CASE a # NULL
  <2>1. Meant(cmd, f) = <<a>>
    BY <1>2, <1>5, <1>11, MadeUpIs
  <2>2. Reads(cmd, f, Spelled(Protocol[cmd].command, <<a>>, <<>>))
    BY <1>1, <1>9, <1>11, <2>1, OnlyWords DEF Short
  <2> QED
    BY <1>6, <1>8, <1>11, <2>2, Zenon DEF line
<1> QED
  BY <1>10, <1>11

LEMMA PingReads ==
  ASSUME NEW f, Asks("ping", f), f["command"] = NULL, f["server"] # NULL
  PROVE  Needs("ping", f) /\ Reads("ping", f, Format("ping", Json(f), Us))
<1> DEFINE cmd == "ping"
           a == f["server"]
           line == Format(cmd, Json(f), Us)
<1>1. /\ cmd \in Simple /\ cmd \notin WithText /\ "server" \in Fields
      /\ cmd \notin {"msg", "me", "notice", "quit", "channel_mode"} /\ cmd \notin Relayed
  BY TextFieldsAre DEF Simple, Fields, Relayed
<1>2. a \in Seq(Letter) /\ JsonString(a) = a /\ Plain(a) /\ a # NULL
  BY <1>1, FieldIs
<1>3. ReadFields(Json(f))["server"] = a
  BY <1>1, <1>2, JsonFields
<1>4. /\ line = <<"PING">> \o More(a) /\ Protocol[cmd].command = <<"PING">>
      /\ Protocol[cmd].needs = 1 /\ Protocol[cmd].fields = <<"server">>
  BY <1>3, FormatIs, ProtocolIs
<1>5. Meant(cmd, f) = MadeUp(cmd, "server", a)
  BY <1>1, MeantIs
<1>6. Needs(cmd, f)
  BY <1>4, NeedsAre
<1> HIDE DEF a, line
<1>7. Lined(a, a, a)
  <2>1. {a, a, a} \subseteq Seq(Letter)
    BY <1>2
  <2> QED
    BY <2>1, LinesAre
<1>8. line = Spelled(Protocol[cmd].command, <<a>>, <<>>)
  BY <1>4, <1>7, Zenon DEF Lined
<1>9. Short(<<a>>) /\ Meant(cmd, f) = <<a>>
  BY <1>2, <1>5, ShortLists, MadeUpIs
<1>10. Reads(cmd, f, Spelled(Protocol[cmd].command, <<a>>, <<>>))
  BY <1>1, <1>9, OnlyWords DEF Short
<1> QED
  BY <1>6, <1>8, <1>10, Zenon DEF line

(* Every line that is sent reads as it was meant, but for what ping and raw *)
(* misread.                                                                 *)
LEMMA FormatReads ==
  ASSUME NEW cmd \in Simple, NEW f, Asks(cmd, f),
         cmd = "ping" => f["command"] = NULL /\ f["server"] # NULL,
         Format(cmd, Json(f), Us) # Refused
  PROVE  Needs(cmd, f) /\ Reads(cmd, f, Format(cmd, Json(f), Us))
<1>1. \/ cmd \in {"msg", "me", "notice"} \/ cmd \in {"join", "topic"} \/ cmd = "kick"
      \/ cmd \in {"quit", "away"} \/ cmd \in {"part", "names", "nick"}
      \/ cmd \in {"invite", "whois"} \/ cmd \in {"channel_mode", "user_mode"}
      \/ cmd = "list" \/ cmd = "ping"
  BY DEF Simple
<1>2. CASE cmd \in {"msg", "me", "notice"} \/ cmd \in {"join", "topic"} \/ cmd = "kick"
  BY <1>2, MessagesRead, TopicReads, KickReads
<1>3. CASE cmd \in {"quit", "away"} \/ cmd \in {"part", "names", "nick"} \/ cmd \in {"invite", "whois"}
  BY <1>3, ReasonReads, PartReads, InviteReads
<1>4. CASE cmd \in {"channel_mode", "user_mode"} \/ cmd = "list" \/ cmd = "ping"
  BY <1>4, ModeReads, ListReads, PingReads
<1> QED
  BY <1>1, <1>2, <1>3, <1>4

LEMMA LacksWords ==
  /\ \A c : Lacks(<<>>, c)
  /\ Lacks(<<"quit">>, Quote) /\ Lacks(<<"quit">>, Backslash)
  /\ Lacks(NULL, Quote) /\ Lacks(NULL, Backslash)
<1>1. \A c : Lacks(<<>>, c)
  BY DEF Lacks, Contains
<1>2. "quit" # Quote /\ "quit" # Backslash /\ "(null)" # Quote /\ "(null)" # Backslash
  BY DEF Quote, Backslash
<1>3. \A n, c : n # c => Lacks(<<n>>, c)
  <2> TAKE n, c
  <2>1. \A i \in 1..Len(<<n>>) : <<n>>[i] = n
    OBVIOUS
  <2> QED
    BY <2>1 DEF Lacks, Contains
<1> QED
  BY <1>1, <1>2, <1>3 DEF NULL

(* A text that is kept is written as it is.                                 *)
LEMMA WrittenSame ==
  ASSUME NEW cmd, NEW t \in Seq(Letter), Lacks(t, Backslash),
         cmd \in {"msg", "me", "notice"} \/ Lacks(t, Quote)
  PROVE  Written(cmd, t) = IF cmd = "me" THEN Framed(t) ELSE t
<1>1. Doubled(t) = t /\ (Lacks(t, Quote) => JsonString(t) = t)
  BY DoubledSame
<1> QED
  BY <1>1, Zenon DEF Written

(* The spelling of a command as the protocol has it.                        *)
LEMMA SpellingIs ==
  ASSUME NEW cmd \in Simple, NEW f, NEW line, Reads(cmd, f, line),
         LET t == Text([cmd |-> cmd, f |-> f])
         IN Lacks(t, Backslash) /\ (cmd \in {"msg", "me", "notice"} \/ Lacks(t, Quote))
  PROVE  line \in Spellings(Protocol[cmd].command, MeantLine([cmd |-> cmd, f |-> f]))
<1> DEFINE c == Protocol[cmd].command
           ps == MeantLine([cmd |-> cmd, f |-> f])
           t == Text([cmd |-> cmd, f |-> f])
           lead == SubSeq(ps, 1, Len(ps) - 1)
           All(us) == \A i \in DOMAIN us : IsMiddle(us[i])
<1>1. PICK ws \in Seq(Seq(Letter)), texts \in Endings, told \in Endings :
        ReadsAs(cmd, f, line, ws, texts, told)
  BY DEF Reads
<1>2. c \in Seq(Letter) /\ Middles(ws) \in Seq(Letter)
  <2>1. \E n \in Verbs : c = <<n>>
    BY ProtocolIs DEF Simple, Verbs
  <2> QED
    BY <2>1, VerbsAre, MiddlesIs DEF Verb
<1>3. All(ws) /\ ws \o <<>> = ws
  <2>1. DOMAIN ws = 1..Len(ws)
    BY LenProperties
  <2> DEFINE W == Seq(Letter)
  <2>2. ws \in Seq(W)
    OBVIOUS
  <2> HIDE DEF W
  <2>3. ws \o <<>> = ws
    BY <2>2, ConcatEmptySeq
  <2> QED
    BY <1>1, <2>1, <2>3 DEF ReadsAs, Plain
<1>4. ps = IF cmd = "me" THEN <<Meant(cmd, f)[1], Framed(Meant(cmd, f)[2])>> ELSE Meant(cmd, f)
  BY Zenon DEF MeantLine, Framed
<1>5. Spellings(c, ps) = (IF All(ps) THEN {c \o Middles(ps)} ELSE {})
        \cup (IF ps # <<>> /\ All(lead)
              THEN {((c \o Middles(lead)) \o <<Space, Colon>>) \o Last(ps)} ELSE {})
  BY DEF Spellings
<1> HIDE DEF All
<1>6. CASE texts = <<>>
  <2>1. told = <<>> /\ cmd # "me" /\ Meant(cmd, f) = ws
    BY <1>1, <1>3, <1>6 DEF ReadsAs
  <2>2. line = c \o Middles(ws)
    <3>1. line = c \o (Middles(ws) \o <<>>)
      BY <1>1, <1>6 DEF ReadsAs, Spelled, Ending
    <3>2. Middles(ws) \o <<>> = Middles(ws)
      BY <1>2, ConcatEmptySeq
    <3> QED
      BY <3>1, <3>2, Zenon
  <2>3. ps = ws
    BY <1>4, <2>1, Zenon
  <2> HIDE DEF ps, c
  <2> QED
    BY <1>3, <1>5, <2>2, <2>3 DEF ps, c
<1>7. CASE texts # <<>>
  <2> DEFINE q == told[1]
             w == IF cmd = "me" THEN Framed(q) ELSE q
  <2>1. told # <<>> /\ texts[1] = Written(cmd, q) /\ q \in Seq(Letter) /\ told = <<q>>
    BY <1>1, <1>7, EndingIs DEF ReadsAs
  <2>2. Lacks(q, Backslash) /\ (cmd \in {"msg", "me", "notice"} \/ Lacks(q, Quote))
    <3>1. IF t = NULL THEN q \in {<<>>, <<"quit">>} ELSE q = t
      BY <1>1, <2>1, Zenon DEF ReadsAs
    <3> QED
      BY <3>1, LacksWords
  <2>3. texts[1] = w /\ w \in Seq(Letter)
    <3>1. {<<>>, q} \subseteq Seq(Letter)
      BY <2>1, EmptySeq
    <3>2. Framed(q) \in Seq(Letter)
      BY <3>1, ActionIs
    <3>3. Written(cmd, q) = w
      BY <2>1, <2>2, WrittenSame
    <3> QED
      BY <2>1, <3>2, <3>3, Zenon
  <2>4. ps = ws \o <<w>>
    <3>1. Meant(cmd, f) = ws \o <<q>>
      BY <1>1, <2>1 DEF ReadsAs
    <3>2. CASE cmd # "me"
      BY <1>4, <3>1, <3>2, Zenon
    <3>3. CASE cmd = "me"
      <4> DEFINE a == ws[1]
                 W == Seq(Letter)
      <4>1. Len(ws) = 1 /\ ws \in Seq(W) /\ q \in W /\ w \in W
        BY <1>1, <2>1, <2>3, <3>3 DEF ReadsAs
      <4> HIDE DEF W, q, w
      <4>2. ws = <<a>> /\ a \in W
        <5>1. a \in W /\ a = ws[1]
          BY <4>1, ElementOfSeq, SMTT(20)
        <5> HIDE DEF a
        <5>2. Len(ws) = Len(<<a>>) /\ <<a>> \in Seq(W) /\ \A i \in 1..1 : ws[i] = <<a>>[i]
          BY <4>1, <5>1
        <5> QED
          BY <4>1, <5>1, <5>2, SeqEqual
      <4> HIDE DEF a
      <4>3. (ws \o <<q>>)[1] = a /\ (ws \o <<q>>)[2] = q
        BY <4>1, <4>2
      <4>4. ws \o <<w>> = <<a, w>>
        BY <4>1, <4>2, TwoAre
      <4>5. w = Framed(q)
        BY <3>3 DEF w
      <4> QED
        BY <1>4, <3>1, <3>3, <4>3, <4>4, <4>5, Zenon
    <3> QED
      BY <3>2, <3>3
  <2>5. lead = ws /\ Last(ps) = w /\ ps # <<>>
    <3> DEFINE W == Seq(Letter)
               us == ws \o <<w>>
    <3>1. ws \in Seq(W) /\ w \in W
      BY <2>3
    <3> HIDE DEF W, w
    <3>2. SubSeq(us, 1, Len(us) - 1) = ws /\ us[Len(us)] = w /\ us # <<>>
      BY <3>1
    <3> HIDE DEF us, ps
    <3> QED
      BY <2>4, <3>2, Zenon DEF us, Last
  <2>6. line = ((c \o Middles(ws)) \o <<Space, Colon>>) \o w
    <3> DEFINE m == Middles(ws)
               k == <<Space, Colon>>
    <3>1. Ending(texts) = k \o w
      BY <1>7, <2>3 DEF Ending, Trailing
    <3>2. line = c \o (m \o (k \o w))
      BY <1>1, <3>1 DEF ReadsAs, Spelled
    <3>3. k \in Seq(Letter)
      <4>1. Space \in Letter /\ Colon \in Letter
        BY Specials
      <4> HIDE DEF Letter
      <4> QED
        BY <4>1
    <3>4. c \in Seq(Letter) /\ m \in Seq(Letter) /\ w \in Seq(Letter)
      BY <1>2, <2>3
    <3> HIDE DEF c, m, k, w
    <3>5. m \o (k \o w) = (m \o k) \o w
      BY <3>3, <3>4, Regrouped
    <3>6. c \o (m \o k) = (c \o m) \o k
      BY <3>3, <3>4, Regrouped
    <3>7. c \o ((m \o k) \o w) = (c \o (m \o k)) \o w
      <4> DEFINE v == m \o k
      <4>1. v \in Seq(Letter)
        BY <3>3, <3>4, ConcatProperties
      <4> HIDE DEF v
      <4>2. c \o (v \o w) = (c \o v) \o w
        BY <3>4, <4>1, Regrouped
      <4> QED
        BY <4>2 DEF v
    <3> QED
      BY <3>2, <3>5, <3>6, <3>7, Zenon DEF m, k
  <2> HIDE DEF ps, c, w
  <2> QED
    BY <1>3, <1>5, <2>5, <2>6, Zenon DEF ps, c
<1> QED
  BY <1>6, <1>7

-----------------------------------------------------------------------------
(* What the variables hold.                                                 *)

(* What was called, and what the daemon made of it.                         *)
Answered(cmd, f) ==
  \/ sent \in {Unknown, Untold}
  \/ \E taken, unlocked \in BOOLEAN : sent = Command(cmd, Json(f), Us, taken, unlocked)

Called ==
  asked # Unasked =>
    \E cmd \in CommandNames, f \in [Fields -> Seq(Letter)] :
      asked = [cmd |-> cmd, f |-> f] /\ Asks(cmd, f) /\ Answered(cmd, f)

(* The line of a call, on its way to the second daemon.                     *)
Passed ==
  said # Unsaid /\ asked # Unasked =>
    /\ asked.cmd \in Relayed /\ sent.line # Refused
    /\ wire = Sender \o <<Space>> \o sent.line
    /\ said = [Unsaid EXCEPT !.prefix = Us]

(* A line of the server's own.                                              *)
OwnLine(prefix, command, words, texts, gap) ==
  (IF prefix = NULL THEN <<>> ELSE <<Colon>> \o prefix \o <<Space>>)
  \o command \o (IF gap THEN <<Space>> ELSE <<>>) \o Middles(words) \o Ending(texts)

Own ==
  said # Unsaid /\ asked = Unasked =>
    \E prefix \in {NULL, Servers}, command \in OwnCommands, words \in Seq(Seq(Letter)),
       texts \in Endings, gap \in BOOLEAN :
      /\ AllMiddles(words)
      /\ said.prefix = prefix /\ said.command = command /\ said.params = words \o texts
      /\ said.own = ~gap
      /\ wire = OwnLine(prefix, command, words, texts, gap)

(* Whether a command is the first of a connection to end the message of the *)
(* day, when one was received before or not.                                *)
IsFirst(c, received) == c \in EndOfMotd /\ ~received

(* What Handle makes of a line.                                             *)
Hearing(p, received) ==
  [connect |-> Connects(p, received) /\ p.prefix # NULL,
   event |-> Told(p, You, received).event,
   origin |-> IF p.prefix = NULL THEN <<>> ELSE p.prefix,
   json |-> ToJson(Told(p, You, received).params)]

Handled ==
  heard # Unheard =>
    /\ said # Unsaid
    /\ \E found \in Stack, received \in BOOLEAN :
         /\ heard = Hearing(Parse(wire, found), received)
         /\ asked = Unasked => said.first = IsFirst(said.command, received)

(* The daemon has received the message of the day when the server has ended *)
(* it, but for the line that is on its way.                                 *)
Travels == asked = Unasked /\ said # Unsaid /\ heard = Unheard

Welcomed ==
  /\ motd \in BOOLEAN /\ welcome \in BOOLEAN
  /\ ~Travels => welcome = motd
  /\ Travels => /\ said.first = IsFirst(said.command, motd)
                /\ welcome = (motd \/ said.command \in EndOfMotd)

Talk == Called /\ Passed /\ Own /\ Handled /\ Welcomed

LEMMA AnswerIs ==
  ASSUME NEW cmd, NEW f, Answered(cmd, f)
  PROVE  /\ cmd \notin {"ping", "disconnect"} => (sent.reply = 0 <=> sent.line # Refused)
         /\ sent.line # Refused =>
              sent.line = Format(cmd, Json(f), Us) /\ cmd # "disconnect"
<1>1. CASE sent \in {Unknown, Untold}
  BY <1>1 DEF Unknown, Untold, NoReply
<1>2. ASSUME NEW taken \in BOOLEAN, NEW unlocked \in BOOLEAN,
             sent = Command(cmd, Json(f), Us, taken, unlocked)
      PROVE  /\ cmd \notin {"ping", "disconnect"} => (sent.reply = 0 <=> sent.line # Refused)
             /\ sent.line # Refused =>
                  sent.line = Format(cmd, Json(f), Us) /\ cmd # "disconnect"
  <2> DEFINE line == Format(cmd, Json(f), Us)
  <2> HIDE DEF line
  <2>1. CASE cmd = "disconnect"
    <3>1. sent = [line |-> Refused, reply |-> -1]
      BY <1>2, <2>1, Zenon DEF Command
    <3> QED
      BY <2>1, <3>1
  <2>2. CASE cmd = "ping"
    <3>1. sent = [line |-> Refused, reply |-> 1] \/ sent = [SendRaw(line, taken) EXCEPT !.reply = 0]
      BY <1>2, <2>2, Zenon DEF Command, line
    <3>2. sent.line # Refused => sent.line = line
      BY <3>1 DEF SendRaw
    <3> QED
      BY <2>2, <3>2 DEF line
  <2>3. CASE cmd \notin {"ping", "disconnect"}
    <3>1. sent = SendRaw(line, taken)
      BY <1>2, <2>3, Zenon DEF Command, line
    <3>2. (sent.reply = 0 <=> sent.line # Refused) /\ (sent.line # Refused => sent.line = line)
      BY <3>1 DEF SendRaw
    <3> QED
      BY <2>3, <3>2 DEF line
  <2> QED
    BY <2>1, <2>2, <2>3
<1> QED
  BY <1>1, <1>2 DEF Answered

(* The parameters of a call's line are not more than a line may have.       *)
LEMMA AllParams ==
  ASSUME NEW ws \in Seq(Seq(Letter)), NEW texts \in Endings, Len(ws) <= 2
  PROVE  /\ First(ws \o texts, MaxParams) = ws \o texts /\ ws \o texts \in Seq(Seq(Letter))
         /\ Len(ws \o texts) = Len(ws) + Len(texts)
         /\ \A i \in 1..Len(ws) : (ws \o texts)[i] = ws[i]
         /\ Len(texts) = 1 => (ws \o texts)[Len(ws) + 1] = texts[1]
<1> DEFINE W == Seq(Letter)
           ps == ws \o texts
<1>1. ws \in Seq(W) /\ texts \in Seq(W) /\ (Len(texts) = 0 \/ Len(texts) = 1)
  BY EndingIs
<1> HIDE DEF W
<1>2. /\ ps \in Seq(W) /\ Len(ps) = Len(ws) + Len(texts) /\ Len(ws) \in Nat
      /\ \A i \in 1..Len(ws) : ps[i] = ws[i]
      /\ Len(texts) = 1 => ps[Len(ws) + 1] = texts[1]
  BY <1>1
<1> HIDE DEF ps
<1>3. MaxParams \in Nat /\ MaxParams >= Len(ps)
  <2>1. \A m, n, k : m \in Nat /\ m <= 2 /\ (n = 0 \/ n = 1) /\ k = m + n => k \in Nat /\ k <= 3
    OBVIOUS
  <2>2. Len(ps) <= 3 /\ Len(ps) \in Nat
    BY <1>1, <1>2, <2>1, Zenon
  <2> QED
    BY <2>2, LimitAssumption
<1>4. First(ps, MaxParams) = ps
  BY <1>2, <1>3, FirstIs
<1> QED
  BY <1>2, <1>4 DEF W, ps

(* What the second daemon reads in the line of a call.                      *)
Line(cmd, ws, texts) ==
  [prefix |-> Us, command |-> Protocol[cmd].command, params |-> ws \o texts]

ReadAs(line, p) == \A found : Parse(line, found) = p

LEMMA CallReads ==
  ASSUME Called, Passed, said # Unsaid, asked # Unasked
  PROVE  \E cmd \in Relayed, f \in [Fields -> Seq(Letter)], ws \in Seq(Seq(Letter)),
            texts \in Endings, told \in Endings :
           /\ asked = [cmd |-> cmd, f |-> f] /\ Asks(cmd, f)
           /\ ReadsAs(cmd, f, sent.line, ws, texts, told)
           /\ ReadAs(wire, Line(cmd, ws, texts))
<1>1. /\ asked.cmd \in Relayed /\ sent.line # Refused
      /\ wire = Sender \o <<Space>> \o sent.line
  BY DEF Passed
<1>3. PICK cmd \in CommandNames, f \in [Fields -> Seq(Letter)] :
        asked = [cmd |-> cmd, f |-> f] /\ Asks(cmd, f) /\ Answered(cmd, f)
  BY DEF Called
<1>4. cmd \in Relayed /\ cmd \in Simple /\ cmd # "ping"
  <2>1. cmd \in Relayed
    BY <1>1, <1>3
  <2> QED
    BY <2>1, CommandsAre DEF Relayed
<1>5. Reads(cmd, f, sent.line)
  <2>1. sent.line = Format(cmd, Json(f), Us)
    BY <1>1, <1>3, AnswerIs
  <2> QED
    BY <1>1, <1>3, <1>4, <2>1, FormatReads
<1>6. PICK ws \in Seq(Seq(Letter)), texts \in Endings, told \in Endings :
        ReadsAs(cmd, f, sent.line, ws, texts, told)
  BY <1>5 DEF Reads
<1> DEFINE c == Protocol[cmd].command
           line == Spelled(c, ws, texts)
<1>7. Verb(c)
  <2>1. \E n \in Verbs : c = <<n>>
    BY <1>4, ProtocolIs DEF Simple, Verbs
  <2> QED
    BY <2>1, VerbsAre
<1>8. AllMiddles(ws) /\ Len(ws) <= 2 /\ (ws # <<>> \/ texts # <<>>) /\ sent.line = line
  BY <1>4, <1>6 DEF ReadsAs, Plain, AllMiddles
<1>9. First(ws \o texts, MaxParams) = ws \o texts /\ ws \o texts # <<>>
  <2>1. Len(ws \o texts) = Len(ws) + Len(texts) /\ First(ws \o texts, MaxParams) = ws \o texts
    BY <1>8, AllParams
  <2>2. /\ ws # <<>> => Len(ws) > 0
        /\ texts # <<>> => Len(texts) = 1
        /\ Len(ws) \in Nat /\ Len(texts) \in Nat
    BY EndingIs, LenProperties, EmptySeq
  <2>3. ws \o texts = <<>> => Len(ws \o texts) = 0
    OBVIOUS
  <2> QED
    BY <1>8, <2>1, <2>2, <2>3
<1>10. Us \in Seq(Letter) /\ Lacks(Us, Space) /\ Us # NULL
  BY WordsArePlain DEF Plain, IsMiddle, Lacks
<1>11. wire = (<<Colon>> \o Us) \o (<<Space>> \o line)
  <2>1. /\ Sender \in Seq(Letter) /\ <<Space>> \in Seq(Letter) /\ line \in Seq(Letter)
        /\ Sender = <<Colon>> \o Us
    <3>1. Colon \in Letter /\ Space \in Letter
      BY Specials
    <3>2. <<Colon>> \in Seq(Letter) /\ <<Space>> \in Seq(Letter)
      BY <3>1
    <3>3. <<Colon>> \o Us \in Seq(Letter)
      BY <1>10, <3>2, ConcatProperties
    <3> QED
      BY <1>7, <1>8, <3>2, <3>3, SpelledIs DEF Sender
  <2>2. wire = (Sender \o <<Space>>) \o line
    BY <1>1, <1>8, Zenon
  <2> HIDE DEF line
  <2>3. Sender \o (<<Space>> \o line) = (Sender \o <<Space>>) \o line
    BY <2>1, Regrouped
  <2> QED
    BY <2>1, <2>2, <2>3, Zenon
<1>12. ASSUME NEW found PROVE Parse(wire, found) = Line(cmd, ws, texts)
  <2>1. Parse((<<Colon>> \o Us) \o (<<Space>> \o line), found)
        = [prefix |-> Us, command |-> c, params |-> First(ws \o texts, MaxParams)]
    <3>1. AllMiddles(ws) /\ ws \o texts # <<>>
      BY <1>8, <1>9
    <3>2. \A x \in Seq(Letter) : Lacks(x, Space) =>
            Parse((<<Colon>> \o x) \o (<<Space>> \o Spelled(c, ws, texts)), found)
            = [prefix |-> x, command |-> c, params |-> First(ws \o texts, MaxParams)]
      BY <1>7, <3>1, ParseIs
    <3> QED
      BY <1>10, <3>2, Zenon
  <2> QED
    BY <1>9, <1>11, <2>1, Zenon DEF Line
<1>13. ReadAs(wire, Line(cmd, ws, texts))
  BY <1>12 DEF ReadAs
<1>14. asked = [cmd |-> cmd, f |-> f] /\ Asks(cmd, f)
  BY <1>3
<1> QED
  BY <1>4, <1>6, <1>13, <1>14, Zenon

(* No command that is passed on is a numeric.                               *)
LEMMA PassedIsOther ==
  ASSUME NEW cmd \in Relayed, NEW ws, NEW texts
  PROVE  Line(cmd, ws, texts).command \notin EndOfMotd
<1>1. cmd \in Simple
  BY CommandsAre DEF Relayed
<1>2. Protocol[cmd].command \notin EndOfMotd
  <2>1. \A a, b : <<a>> = <<b>> => a = b
    OBVIOUS
  <2> QED
    BY <1>1, <2>1, ProtocolIs DEF Relayed, EndOfMotd
<1> QED
  BY <1>2 DEF Line

(* What is behind the command in a line of the server's own.                *)
OwnRest(words, texts, gap) ==
  (IF gap THEN <<Space>> ELSE <<>>) \o (Middles(words) \o Ending(texts))
OwnBody(c, words, texts, gap) == c \o OwnRest(words, texts, gap)

LEMMA OwnRestIs ==
  ASSUME NEW words \in Seq(Seq(Letter)), NEW texts \in Endings, NEW gap \in BOOLEAN
  PROVE  /\ OwnRest(words, texts, gap) \in Seq(Letter)
         /\ ~gap => OwnRest(words, texts, gap) = Middles(words) \o Ending(texts)
         /\ gap => OwnRest(words, texts, gap) # <<>> /\ OwnRest(words, texts, gap)[1] = Space
<1> DEFINE s == Middles(words) \o Ending(texts)
<1>1. s \in Seq(Letter) /\ Space \in Letter
  BY MiddlesIs, EndingIs, ConcatProperties, Specials
<1>2. OwnRest(words, texts, gap) = (IF gap THEN <<Space>> ELSE <<>>) \o s
  BY Zenon DEF OwnRest
<1> HIDE DEF s
<1>3. <<>> \o s = s
  BY <1>1, ConcatEmptySeq
<1>4. <<Space>> \o s \in Seq(Letter) /\ <<Space>> \o s # <<>> /\ (<<Space>> \o s)[1] = Space
  BY <1>1, BehindIs
<1>5. CASE gap
  BY <1>2, <1>4, <1>5, Zenon
<1>6. CASE ~gap
  <2>1. OwnRest(words, texts, gap) = s
    BY <1>2, <1>3, <1>6, Zenon
  <2> QED
    BY <1>1, <1>6, <2>1, Zenon DEF s
<1> QED
  BY <1>5, <1>6

LEMMA OwnPrefixIs ==
  ASSUME NEW prefix \in {NULL, Servers}
  PROVE  prefix \in Seq(Letter) /\ (prefix # NULL => Lacks(prefix, Space))
<1>1. "server" \in Names
  BY DEF Names, Fields
<1> QED
  BY <1>1, NullIs, WordsArePlain DEF Servers, Plain, IsMiddle, Lacks

LEMMA OwnLineIs ==
  ASSUME NEW prefix \in {NULL, Servers}, NEW c \in Seq(Letter), NEW words \in Seq(Seq(Letter)),
         NEW texts \in Endings, NEW gap \in BOOLEAN
  PROVE  OwnLine(prefix, c, words, texts, gap)
         = IF prefix = NULL THEN OwnBody(c, words, texts, gap)
           ELSE (<<Colon>> \o prefix) \o (<<Space>> \o OwnBody(c, words, texts, gap))
<1> DEFINE m == Middles(words)
           e == Ending(texts)
           h == <<Colon>> \o prefix
           b == <<Space>>
           g == IF gap THEN <<Space>> ELSE <<>>
           front == IF prefix = NULL THEN <<>> ELSE h \o b
           s == m \o e
           r == g \o s
           l == front \o c
           u == c \o r
<1>1. m \in Seq(Letter) /\ e \in Seq(Letter) /\ g \in Seq(Letter)
  <2>1. <<Space>> \in Seq(Letter) /\ <<>> \in Seq(Letter)
    BY Specials, PieceIs, EmptySeq
  <2> QED
    BY <2>1, MiddlesIs, EndingIs
<1>2. h \in Seq(Letter) /\ b \in Seq(Letter)
  BY Specials, OwnPrefixIs, PieceIs, BehindIs
<1>3. OwnLine(prefix, c, words, texts, gap) = ((l \o g) \o m) \o e
  BY Zenon DEF OwnLine
<1>4. OwnBody(c, words, texts, gap) = u
  BY Zenon DEF OwnBody, OwnRest
<1> HIDE DEF m, e, h, b, g
<1>5. front \in Seq(Letter)
  BY <1>2, ConcatProperties, EmptySeq
<1>6. s \in Seq(Letter)
  BY <1>1, ConcatProperties
<1> HIDE DEF front, s
<1>7. r \in Seq(Letter) /\ l \in Seq(Letter)
  BY <1>1, <1>5, <1>6, ConcatProperties
<1>8. (l \o g) \o s = l \o r
  <2>1. l \in Seq(Letter) /\ g \in Seq(Letter) /\ s \in Seq(Letter)
    BY <1>1, <1>6, <1>7
  <2> HIDE DEF l
  <2>2. l \o (g \o s) = (l \o g) \o s
    BY <2>1, Regrouped, Zenon
  <2> QED
    BY <2>2, Zenon
<1>9. l \o g \in Seq(Letter)
  BY <1>1, <1>7, ConcatProperties
<1> HIDE DEF r
<1>10. l \o r = front \o u
  BY <1>5, <1>7, Regrouped
<1>11. u \in Seq(Letter)
  BY <1>7, ConcatProperties
<1> HIDE DEF l, u
<1> DEFINE lg == l \o g
<1> HIDE DEF lg
<1>12. (lg \o m) \o e = lg \o (m \o e)
  <2>1. lg \in Seq(Letter)
    BY <1>9 DEF lg
  <2> QED
    BY <1>1, <2>1, Regrouped
<1>13. OwnLine(prefix, c, words, texts, gap) = front \o u
  BY <1>3, <1>8, <1>10, <1>12, Zenon DEF lg, s
<1>14. <<>> \o u = u
  BY <1>11, ConcatEmptySeq
<1>15. h \o (b \o u) = (h \o b) \o u
  BY <1>2, <1>11, Regrouped
<1>16. CASE prefix = NULL
  BY <1>4, <1>13, <1>14, <1>16, Zenon DEF front
<1>17. CASE prefix # NULL
  BY <1>4, <1>13, <1>15, <1>17, Zenon DEF front, h, b
<1> QED
  BY <1>16, <1>17

(* Whatever is behind it, the command of the server's own line is found.    *)
LEMMA OwnCommandIs ==
  ASSUME NEW prefix \in {NULL, Servers}, NEW c \in OwnCommands, NEW words \in Seq(Seq(Letter)),
         AllMiddles(words), NEW texts \in Endings, NEW gap \in BOOLEAN, NEW stack
  PROVE  Parse(OwnLine(prefix, c, words, texts, gap), stack).command = c
<1> DEFINE body == OwnBody(c, words, texts, gap)
           r == OwnRest(words, texts, gap)
<1>1. Verb(c)
  <2>1. \E n \in Verbs : c = <<n>>
    BY DEF OwnCommands, Verbs
  <2> QED
    BY <2>1, VerbsAre
<1>2. c \in Seq(Letter) /\ c # <<>> /\ c[1] # Colon /\ Lacks(c, Space)
  BY <1>1 DEF Verb, IsMiddle, Lacks
<1>3. body \in Seq(Letter) /\ body # <<>> /\ Head(body) # Colon /\ Word(body) = c
  <2>1. CASE gap
    <3>1. r \in Seq(Letter) /\ r # <<>> /\ r[1] = Space
      BY <2>1, OwnRestIs
    <3>2. body = c \o r
      BY DEF OwnBody
    <3> HIDE DEF r, body
    <3>3. Word(c \o r) = c
      BY <1>2, <3>1, WordIs
    <3>4. c \o r \in Seq(Letter) /\ c \o r # <<>> /\ Head(c \o r) = c[1]
      <4> HIDE DEF Letter
      <4> QED
        BY <1>2, <3>1
    <3> QED
      BY <1>2, <3>2, <3>3, <3>4
  <2>2. CASE ~gap
    <3>1. body = Spelled(c, words, texts)
      BY <2>2, OwnRestIs DEF OwnBody, Spelled
    <3> HIDE DEF body
    <3> QED
      BY <1>1, <3>1, SpelledIs
  <2> QED
    BY <2>1, <2>2
<1>4. OwnLine(prefix, c, words, texts, gap)
      = IF prefix = NULL THEN body ELSE (<<Colon>> \o prefix) \o (<<Space>> \o body)
  BY <1>2, OwnLineIs
<1> HIDE DEF body
<1>5. CASE prefix = NULL
  <2>1. OwnLine(prefix, c, words, texts, gap) = body
    BY <1>4, <1>5
  <2> QED
    BY <1>3, <2>1 DEF Parse
<1>6. CASE prefix # NULL
  <2>1. prefix \in Seq(Letter) /\ Lacks(prefix, Space)
    BY <1>6, OwnPrefixIs
  <2>2. Parse((<<Colon>> \o prefix) \o (<<Space>> \o body), stack)
        = [prefix |-> prefix, command |-> Word(body), params |-> Params(Beyond(body, stack))]
    BY <1>3, <2>1, PrefixIs
  <2>3. OwnLine(prefix, c, words, texts, gap) = (<<Colon>> \o prefix) \o (<<Space>> \o body)
    BY <1>4, <1>6, Zenon
  <2>4. Parse(OwnLine(prefix, c, words, texts, gap), stack)
        = [prefix |-> prefix, command |-> Word(body), params |-> Params(Beyond(body, stack))]
    BY <2>2, <2>3, Zenon
  <2> QED
    BY <1>3, <2>4
<1> QED
  BY <1>5, <1>6

(* What a line is told as.                                                  *)
LEMMA ToldIs ==
  ASSUME NEW p, NEW received
  PROVE  LET c == p.command
         IN
         /\ c = <<"PRIVMSG">> => Told(p, You, received) = Privmsg(p.params)
         /\ c = <<"NOTICE">> => Told(p, You, received) = Notice(p.params)
         /\ c = <<"MODE">> => Told(p, You, received) = Mode(p.params, You)
         /\ c = <<"NICK">> => Told(p, You, received) = Nick(p.prefix, p.params)
         /\ c = <<"001">> \/ c \in EndOfMotd => Told(p, You, received) = Numeric(p, received)
         /\ c = <<"KILL">> \/ (c = <<"PING">> /\ p.params # <<>>) => Told(p, You, received) = Nothing
         /\ c \in {<<"JOIN">>, <<"PART">>, <<"INVITE">>, <<"TOPIC">>, <<"KICK">>, <<"QUIT">>} =>
              Told(p, You, received) = Event(c, p.params)
<1> DEFINE c == p.command
<1>1. \A a, b : <<a>> = <<b>> => a = b
  OBVIOUS
<1>2. c = <<"PRIVMSG">> => Told(p, You, received) = Privmsg(p.params)
  BY <1>1, Zenon DEF Told, EndOfMotd
<1>3. c = <<"NOTICE">> => Told(p, You, received) = Notice(p.params)
  BY <1>1, Zenon DEF Told, EndOfMotd
<1>4. c = <<"MODE">> => Told(p, You, received) = Mode(p.params, You)
  BY <1>1, Zenon DEF Told, EndOfMotd
<1>5. c = <<"NICK">> => Told(p, You, received) = Nick(p.prefix, p.params)
  BY <1>1, Zenon DEF Told, EndOfMotd
<1>6. c = <<"001">> \/ c \in EndOfMotd => Told(p, You, received) = Numeric(p, received)
  BY <1>1, Zenon DEF Told, EndOfMotd
<1>7. c = <<"KILL">> \/ (c = <<"PING">> /\ p.params # <<>>) => Told(p, You, received) = Nothing
  BY <1>1, Zenon DEF Told, EndOfMotd
<1>8. c \in {<<"JOIN">>, <<"PART">>, <<"INVITE">>, <<"TOPIC">>, <<"KICK">>, <<"QUIT">>} =>
        Told(p, You, received) = Event(c, p.params)
  BY <1>1, Zenon DEF Told, EndOfMotd
<1> QED
  BY <1>2, <1>3, <1>4, <1>5, <1>6, <1>7, <1>8, Zenon

(* What the server's own lines are told as has a name.                      *)
Named(e) == e.event # <<>>

LEMMA ToldNamed ==
  ASSUME NEW p, NEW received, p.command \in OwnCommands
  PROVE  Named(Told(p, You, received))
<1> DEFINE e == Told(p, You, received)
           c == p.command
<1>1. \A a : <<a>> # <<>>
  OBVIOUS
<1>2. Named(Nothing) /\ Named(Crash)
  BY <1>1 DEF Named, Nothing, Crash
<1>3. \A a, ps : Named(Event(<<a>>, ps))
  BY <1>1 DEF Named, Event
<1>4. \E a : c = <<a>>
  BY DEF OwnCommands
<1>5. \A ps : Named(Event(c, ps))
  BY <1>3, <1>4, Zenon
<1>6. CASE c = <<"PRIVMSG">>
  BY <1>2, <1>3, <1>6, ToldIs, Zenon DEF Privmsg
<1>7. CASE c = <<"NOTICE">>
  BY <1>2, <1>3, <1>7, ToldIs, Zenon DEF Notice
<1>8. CASE c = <<"MODE">>
  BY <1>2, <1>3, <1>8, ToldIs, Zenon DEF Mode
<1>9. CASE c = <<"NICK">>
  BY <1>2, <1>3, <1>9, ToldIs, Zenon DEF Nick
<1>10. CASE c = <<"001">> \/ c \in EndOfMotd
  BY <1>2, <1>3, <1>5, <1>10, ToldIs, Zenon DEF Numeric
<1>11. CASE c \in {<<"KILL">>, <<"PING">>}
  <2>1. e = Nothing \/ e = Event(c, p.params)
    <3>1. \A a, b : <<a>> = <<b>> => a = b
      OBVIOUS
    <3> QED
      BY <1>11, <3>1, Zenon DEF Told, EndOfMotd
  <2> QED
    BY <1>2, <1>5, <2>1, Zenon
<1> QED
  BY <1>6, <1>7, <1>8, <1>9, <1>10, <1>11 DEF OwnCommands, EndOfMotd

LEMMA TalkInit == Init => Talk
<1>1. Init => Called /\ Passed /\ Own /\ Handled
  BY Zenon DEF Init, ConversationInit, Called, Passed, Own, Handled
<1>2. Init => Welcomed
  BY DEF Init, ConversationInit, Welcomed, Travels
<1> QED
  BY <1>1, <1>2 DEF Talk

LEMMA AskedIs ==
  ASSUME Talk, NEW cmd \in CommandNames, NEW f \in [Fields -> Seq(Letter)], Asks(cmd, f),
         Silence, Ask(cmd, f)
  PROVE  Talk'
<1>1. asked = Unasked /\ said = Unsaid /\ heard = Unheard
  BY DEF Silence, Talk, Handled
<1>2. asked' = [cmd |-> cmd, f |-> f] /\ said' = Unsaid /\ heard' = Unheard
  BY <1>1 DEF Ask
<1>3. Answered(cmd, f)'
  BY DEF Ask, Answered, Json
<1>4. Welcomed'
  BY <1>1, <1>2 DEF Talk, Welcomed, Travels, Ask
<1> QED
  BY <1>2, <1>3, <1>4 DEF Talk, Called, Passed, Own, Handled

LEMMA CharsAre == Chars \subseteq Letter /\ Seq(Chars) \subseteq Seq(Letter)
<1>1. Chars \subseteq Letter
  BY DEF Letter
<1> QED
  BY <1>1

LEMMA FieldsFit ==
  ASSUME NEW f, DOMAIN f = Fields, f = [x \in Fields |-> f[x]],
         \A x \in Fields : f[x] \in Seq(Letter)
  PROVE  f \in [Fields -> Seq(Letter)]
OBVIOUS

LEMMA AskWordsTalk ==
  ASSUME Talk, NEW cmd \in CommandNames, AskWords(cmd) PROVE Talk'
<1>1. PICK given \in SUBSET Words[cmd] :
        Ask(cmd, [x \in Fields |-> IF x \in given THEN <<x>> ELSE NULL])
  BY DEF AskWords
<1> DEFINE f == [x \in Fields |-> IF x \in given THEN <<x>> ELSE NULL]
<1>2. \A x \in Fields : <<x>> \in Seq(Letter) /\ NULL \in Seq(Letter)
  BY WordsArePlain, NullIs DEF Plain, Names
<1>3. \A x \in Fields : f[x] \in {<<x>>, NULL}
  OBVIOUS
<1>4. f \in [Fields -> Seq(Letter)]
  <2>1. \A x \in Fields : (IF x \in given THEN <<x>> ELSE NULL) \in Seq(Letter)
    BY <1>2
  <2> QED
    BY <2>1
<1> HIDE DEF f
<1>5. Asks(cmd, f)
  BY <1>3, <1>4 DEF Asks
<1>6. Silence
  BY DEF AskWords
<1> QED
  BY <1>1, <1>4, <1>5, <1>6, AskedIs DEF f

LEMMA NoTextAsked ==
  \A cmd \in WithText : TextField[cmd] \notin Words[cmd] /\ TextField[cmd] \in Fields
<1>1. /\ Words["msg"] = {"nch"} /\ Words["me"] = {"nch"} /\ Words["notice"] = {"nch"}
      /\ Words["join"] = {"channel"} /\ Words["topic"] = {"channel"}
      /\ Words["kick"] = {"nick", "channel"} /\ Words["quit"] = {} /\ Words["away"] = {}
  BY DEF Words
<1> QED
  BY <1>1, TextFieldsAre DEF Fields

LEMMA TextsAre == Texts \subseteq Seq(Letter) /\ OwnTexts \subseteq Seq(Letter)
<1>1. \A m \in Nat : BoundedSeq(Chars, m) \subseteq Seq(Chars)
  BY DEF BoundedSeq, SeqOf
<1> QED
  BY <1>1, CharsAre, TextAssumption DEF Texts, OwnTexts

LEMMA AskTextTalk ==
  ASSUME Talk, NEW cmd \in WithText, AskText(cmd) PROVE Talk'
<1>1. PICK given \in SUBSET Words[cmd], t \in Texts :
        Ask(cmd, [x \in Fields |-> CASE x \in given -> <<x>> [] x = TextField[cmd] -> t
                                     [] OTHER -> NULL])
  BY DEF AskText
<1> DEFINE f == [x \in Fields |-> CASE x \in given -> <<x>> [] x = TextField[cmd] -> t
                                     [] OTHER -> NULL]
<1>2. \A x \in Fields : <<x>> \in Seq(Letter) /\ NULL \in Seq(Letter)
  BY WordsArePlain, NullIs DEF Plain, Names
<1>3. \A x \in Fields :
        (CASE x \in given -> <<x>> [] x = TextField[cmd] -> t [] OTHER -> NULL)
        = IF x \in given THEN <<x>> ELSE IF x = TextField[cmd] THEN t ELSE NULL
  <2>1. \A x \in given : x # TextField[cmd]
    BY NoTextAsked
  <2> QED
    BY <2>1, Zenon
<1>4. t \in Seq(Letter)
  BY TextsAre
<1>5. f \in [Fields -> Seq(Letter)]
  <2>1. \A x \in Fields :
          (CASE x \in given -> <<x>> [] x = TextField[cmd] -> t [] OTHER -> NULL) \in Seq(Letter)
    BY <1>2, <1>3, <1>4
  <2> QED
    BY <2>1
<1>6. \A x \in Fields : (cmd \in WithText /\ x = TextField[cmd]) \/ f[x] \in {<<x>>, NULL}
  BY <1>3
<1> HIDE DEF f
<1>7. Asks(cmd, f)
  BY <1>5, <1>6 DEF Asks
<1>8. Silence /\ cmd \in CommandNames
  BY CommandsAre DEF AskText
<1> QED
  BY <1>1, <1>5, <1>7, <1>8, AskedIs DEF f

LEMMA RelayTalk == ASSUME Talk, Relay PROVE Talk'
<1>1. said = Unsaid /\ heard = Unheard
  BY DEF Relay, Talk, Handled
<1>2. Called'
  BY DEF Talk, Called, Answered, Relay
<1>3. Passed'
  BY DEF Passed, Relay
<1>4. "none" \notin Relayed
  BY DEF Relayed
<1>5. asked' # Unasked
  BY <1>4 DEF Relay, Unasked
<1>6. Own' /\ Handled'
  BY <1>1, <1>5 DEF Own, Handled, Relay
<1>7. Welcomed'
  BY <1>1, <1>5 DEF Talk, Welcomed, Travels, Relay
<1> QED
  BY <1>2, <1>3, <1>6, <1>7 DEF Talk

(* The words of the server's own lines.                                     *)
LEMMA OwnWordsAre ==
  ASSUME NEW n \in 0..(Len(OwnWords) + 1), NEW target \in {You, Channel}
  PROVE  LET words == [i \in 1..n |-> IF i = 1 THEN target ELSE OwnWords[i - 1]]
         IN words \in Seq(Seq(Letter)) /\ AllMiddles(words)
<1> DEFINE words == [i \in 1..n |-> IF i = 1 THEN target ELSE OwnWords[i - 1]]
<1>1. /\ Len(OwnWords) \in Nat /\ n \in Nat
      /\ \A i \in 1..Len(OwnWords) : OwnWords[i] \in Seq(Letter) /\ IsMiddle(OwnWords[i])
  BY WordAssumption, CharsAre
<1>2. target \in Seq(Letter) /\ IsMiddle(target)
  BY WordsArePlain DEF Plain
<1>3. \A i \in 1..n : i = 1 \/ i - 1 \in 1..Len(OwnWords)
  BY <1>1
<1>4. \A i \in 1..n : words[i] \in Seq(Letter) /\ IsMiddle(words[i])
  BY <1>1, <1>2, <1>3
<1>5. words \in Seq(Seq(Letter))
  BY <1>1, <1>4
<1>6. Len(words) = n
  BY <1>1
<1> HIDE DEF words
<1>7. AllMiddles(words)
  BY <1>4, <1>6 DEF AllMiddles
<1> QED
  BY <1>5, <1>7 DEF words

LEMMA OwnSpeechIs ==
  {<<>>} \cup {<<t>> : t \in OwnSpeech} \subseteq Endings
<1>1. Soh \in Letter /\ Dcc \in Letter /\ Action \in Letter /\ "x" \in Letter
  BY DEF Letter
<1>2. <<Soh, Dcc, "x", Soh>> \in Seq(Letter) /\ <<Soh, Action, "x", Soh>> \in Seq(Letter)
  <2> HIDE DEF Letter
  <2> QED
    BY <1>1
<1>3. OwnSpeech \subseteq Seq(Letter)
  BY <1>2, TextsAre, Zenon DEF OwnSpeech
<1> QED
  BY <1>3, Zenon DEF Endings

LEMMA SayOwnTalk == ASSUME Talk, SayOwn PROVE Talk'
<1>1. PICK prefix \in {NULL, Servers}, command \in OwnCommands, n \in 0..(Len(OwnWords) + 1),
           target \in {You, Channel}, gap \in BOOLEAN,
           texts \in {<<>>} \cup {<<t>> : t \in OwnSpeech} :
        Say(prefix, command, [i \in 1..n |-> IF i = 1 THEN target ELSE OwnWords[i - 1]],
            texts, gap)
  BY DEF SayOwn
<1> DEFINE words == [i \in 1..n |-> IF i = 1 THEN target ELSE OwnWords[i - 1]]
<1>2. words \in Seq(Seq(Letter)) /\ AllMiddles(words) /\ texts \in Endings
  BY OwnWordsAre, OwnSpeechIs
<1> HIDE DEF words
<1>3. Say(prefix, command, words, texts, gap)
  BY <1>1 DEF words
<1>4. asked' = Unasked /\ heard' = Unheard
  BY <1>3 DEF SayOwn, Silence, Say, Talk, Handled
<1> DEFINE ps == words \o texts
           first == command \in EndOfMotd /\ ~welcome
<1>5. /\ said' = [prefix |-> prefix, command |-> command, params |-> ps,
                  own |-> ~gap, first |-> first]
      /\ wire' = OwnLine(prefix, command, words, texts, gap)
      /\ welcome' = (welcome \/ command \in EndOfMotd) /\ motd' = motd
  BY <1>3, Zenon DEF Say, OwnLine, Ending
<1> HIDE DEF ps, first
<1>6. /\ said'.prefix = prefix /\ said'.command = command /\ said'.params = ps
      /\ said'.own = ~gap /\ said'.first = first
  BY <1>5
<1>7. Own'
  BY <1>2, <1>5, <1>6, Zenon DEF Own, ps
<1>8. motd \in BOOLEAN /\ welcome \in BOOLEAN /\ welcome = motd
  BY DEF SayOwn, Silence, Talk, Welcomed, Travels
<1>9. said' # Unsaid
  <2>1. command # <<>>
    BY DEF OwnCommands
  <2>2. Unsaid.command = <<>>
    BY DEF Unsaid
  <2> QED
    BY <1>6, <2>1, <2>2, Zenon
<1>10. Welcomed'
  <2>1. Travels'
    BY <1>4, <1>9 DEF Travels
  <2>2. motd' \in BOOLEAN /\ welcome' \in BOOLEAN
    BY <1>5, <1>8
  <2>3. said'.first = IsFirst(said'.command, motd')
    BY <1>5, <1>6, <1>8, Zenon DEF IsFirst, first
  <2>4. welcome' = (motd' \/ said'.command \in EndOfMotd)
    BY <1>5, <1>6, <1>8, Zenon
  <2> QED
    BY <2>1, <2>2, <2>3, <2>4 DEF Welcomed
<1> QED
  BY <1>4, <1>7, <1>10 DEF Talk, Called, Passed, Handled

LEMMA Unchanged ==
  ASSUME Talk, UNCHANGED <<asked, sent, said, wire>> PROVE Called' /\ Passed' /\ Own'
<1>1. Called'
  BY Zenon DEF Talk, Called, Answered
<1>2. Passed' /\ Own'
  BY Zenon DEF Talk, Passed, Own
<1> QED
  BY <1>1, <1>2

(* What the second daemon reads is the command that was said: the first of  *)
(* them to end the message of the day is the first on both sides.           *)
LEMMA HandleWelcomed ==
  ASSUME Talk, said # Unsaid, heard = Unheard, UNCHANGED <<asked, said, welcome>>,
         NEW found, heard' = Hearing(Parse(wire, found), motd),
         motd' = (motd \/ Parse(wire, found).command \in EndOfMotd)
  PROVE  Welcomed'
<1> DEFINE c == Parse(wire, found).command
           late == c \in EndOfMotd
<1>1. motd \in BOOLEAN /\ welcome \in BOOLEAN
  BY DEF Talk, Welcomed
<1>2. motd' = (motd \/ late) /\ welcome' = welcome
  OBVIOUS
<1>3. CASE asked # Unasked
  <2>1. PICK cmd \in Relayed, f \in [Fields -> Seq(Letter)], ws \in Seq(Seq(Letter)),
           texts \in Endings, told \in Endings :
          ReadAs(wire, Line(cmd, ws, texts))
    BY <1>3, CallReads DEF Talk
  <2>2. ~late
    <3>1. Parse(wire, found) = Line(cmd, ws, texts)
      BY <2>1 DEF ReadAs
    <3> QED
      BY <3>1, PassedIsOther
  <2>3. welcome = motd /\ ~Travels'
    BY <1>3 DEF Talk, Welcomed, Travels
  <2> HIDE DEF late
  <2> QED
    BY <1>1, <1>2, <2>2, <2>3 DEF Welcomed
<1>4. CASE asked = Unasked
  <2>1. PICK prefix \in {NULL, Servers}, command \in OwnCommands, words \in Seq(Seq(Letter)),
             texts \in Endings, gap \in BOOLEAN :
          /\ AllMiddles(words)
          /\ said.prefix = prefix /\ said.command = command /\ said.params = words \o texts
          /\ said.own = ~gap
          /\ wire = OwnLine(prefix, command, words, texts, gap)
    BY <1>4, Zenon DEF Talk, Own
  <2>2. c = command
    <3>1. Parse(OwnLine(prefix, command, words, texts, gap), found).command = command
      BY <2>1, OwnCommandIs
    <3> QED
      BY <2>1, <3>1, Zenon
  <2>3. late = (said.command \in EndOfMotd)
    BY <2>1, <2>2, Zenon
  <2>4. welcome = (motd \/ said.command \in EndOfMotd)
    BY <1>4 DEF Talk, Welcomed, Travels
  <2> HIDE DEF late
  <2>5. welcome' = motd'
    <3> DEFINE now == motd \/ said.command \in EndOfMotd
    <3>1. motd' = now /\ welcome = now
      BY <1>2, <2>3, <2>4
    <3> HIDE DEF now
    <3> QED
      BY <1>2, <3>1
  <2>6. motd' \in BOOLEAN /\ welcome' \in BOOLEAN
    BY <1>1, <1>2, <2>5
  <2>7. heard'.event # <<>>
    <3>1. heard'.event = Told(Parse(wire, found), You, motd).event
      BY DEF Hearing
    <3>2. Told(Parse(wire, found), You, motd).event # <<>>
      BY <2>1, <2>2, ToldNamed DEF Named
    <3> QED
      BY <3>1, <3>2, Zenon
  <2>8. ~Travels'
    BY <2>7 DEF Travels, Unheard
  <2> QED
    BY <2>5, <2>6, <2>8 DEF Welcomed
<1> QED
  BY <1>3, <1>4

LEMMA HandleTalk == ASSUME Talk, Handle PROVE Talk'
<1>1. PICK found \in Stack :
        /\ heard' = Hearing(Parse(wire, found), motd)
        /\ motd' = (motd \/ Parse(wire, found).command \in EndOfMotd)
  BY Zenon DEF Handle, Hearing
<1>2. UNCHANGED <<asked, sent, said, wire>> /\ welcome' = welcome /\ said # Unsaid /\ heard = Unheard
  BY DEF Handle
<1>3. motd \in BOOLEAN /\ (asked = Unasked => said.first = IsFirst(said.command, motd))
  BY <1>2 DEF Talk, Welcomed, Travels
<1>6. Handled'
  BY <1>1, <1>2, <1>3, Zenon DEF Handled
<1>7. Called' /\ Passed' /\ Own'
  BY <1>2, Unchanged
<1>8. Welcomed'
  BY <1>1, <1>2, HandleWelcomed
<1> QED
  BY <1>6, <1>7, <1>8 DEF Talk

LEMMA SettleTalk == ASSUME Talk, Settle PROVE Talk'
<1>1. ~Travels /\ ~Travels'
  BY DEF Settle, Travels
<1>2. Welcomed'
  BY <1>1 DEF Talk, Welcomed, Settle
<1>3. Called' /\ Passed' /\ Own' /\ Handled'
  BY DEF Settle, Called, Passed, Own, Handled
<1> QED
  BY <1>2, <1>3 DEF Talk

LEMMA TalkNext == Talk /\ [Next]_vars => Talk'
<1> SUFFICES ASSUME Talk, [Next]_vars PROVE Talk'
  OBVIOUS
<1>1. CASE UNCHANGED conversation
  <2>1. UNCHANGED <<asked, sent, said, wire>> /\ heard' = heard
    BY <1>1 DEF conversation, lines
  <2>2. Handled'
    BY <2>1, Zenon DEF Talk, Handled
  <2>3. Welcomed'
    BY <1>1, Zenon DEF conversation, lines, Talk, Welcomed, Travels
  <2> QED
    BY <2>1, <2>2, <2>3, Unchanged DEF Talk
<1>2. CASE Speak
  BY <1>2, AskWordsTalk, AskTextTalk, RelayTalk, SayOwnTalk, HandleTalk, SettleTalk
     DEF Speak, ConversationNext
<1> QED
  BY <1>1, <1>2 DEF Next, Draft, vars

LEMMA AlwaysTalk == Spec => []Talk
  BY TalkInit, TalkNext, PTL DEF Spec

-----------------------------------------------------------------------------

(* An application is told of success exactly when its line was queued, and  *)
(* the line has what it asked for and nothing else, for texts of any        *)
(* characters and any length (process_command, client.c 136-571, and the    *)
(* irc_cmd_ functions, libircclient.c 1069-1266).                           *)
THEOREM LinesSayWhatIsAsked == Spec => []SentAsAsked
<1>1. Talk => SentAsAsked
  <2> SUFFICES ASSUME Talk, asked # Unasked PROVE SentAsAsked
    BY DEF SentAsAsked
  <2>1. PICK cmd \in CommandNames, f \in [Fields -> Seq(Letter)] :
          asked = [cmd |-> cmd, f |-> f] /\ Asks(cmd, f) /\ Answered(cmd, f)
    BY DEF Talk, Called
  <2>2. asked.cmd = cmd /\ asked.f = f
    BY <2>1
  <2>3. cmd \notin {"ping", "disconnect"} => (sent.reply = 0 <=> sent.line # Refused)
    BY <2>1, AnswerIs
  <2>4. ASSUME sent.line # Refused, cmd # "raw",
               ~(cmd = "ping" /\ (f["command"] # NULL \/ f["server"] = NULL))
        PROVE  Needs(cmd, f) /\ Reads(cmd, f, sent.line) /\ cmd \in Simple
    <3>1. sent.line = Format(cmd, Json(f), Us) /\ cmd # "disconnect"
      BY <2>1, <2>4, AnswerIs
    <3>2. cmd \in Simple
      BY <2>4, <3>1, CommandsAre
    <3> QED
      BY <2>1, <2>4, <3>1, <3>2, FormatReads
  <2>5. ASSUME cmd \in Simple, Reads(cmd, f, sent.line), Lacks(Text(asked), Backslash),
               cmd \in {"msg", "me", "notice"} \/ Lacks(Text(asked), Quote)
        PROVE  sent.line \in Spellings(Protocol[cmd].command, MeantLine(asked))
    BY <2>1, <2>5, SpellingIs
  <2> QED
    BY <2>2, <2>3, <2>4, <2>5, Zenon DEF SentAsAsked, Needs
<1> QED
  BY <1>1, AlwaysTalk, PTL

-----------------------------------------------------------------------------
(* What a message is told as.                                               *)

(* What the frame of an action holds is cut where the buffer ends.          *)
LEMMA ActionTold ==
  ASSUME NEW a \in Seq(Letter), NEW x \in Seq(Letter)
  PROVE  Privmsg(<<a, Framed(x)>>) = Event(<<"ACTION">>, <<a, First(x, MaxCtcp - 1)>>)
<1> DEFINE y == <<Action>> \o x
           z == Framed(x)
           n == MaxCtcp
           k == n - 1
<1>1. Soh \in Letter /\ Action \in Letter
  BY Specials
<1>2. n \in Nat /\ n >= 1 /\ k \in Nat
  BY LimitAssumption
<1>3. /\ z \in Seq(Letter) /\ z # <<>> /\ Head(z) = Soh /\ z[Len(z)] = Soh
      /\ SubSeq(z, 2, Len(z) - 1) = y
  <2> DEFINE q == <<Soh, Action>> \o x
  <2>1. z = q \o <<Soh>>
    BY DEF Framed
  <2> HIDE DEF z, Letter
  <2>2. /\ q \in Seq(Letter) /\ Len(q) = Len(x) + 2 /\ q[1] = Soh /\ q[2] = Action
        /\ \A i \in 1..Len(x) : q[i + 2] = x[i]
    BY <1>1
  <2>3. y \in Seq(Letter) /\ Len(y) = Len(x) + 1 /\ y[1] = Action
        /\ \A i \in 1..Len(x) : y[i + 1] = x[i]
    BY <1>1
  <2> HIDE DEF q, y
  <2>4. z = Append(q, Soh)
    <3>1. q \in Seq(Letter) /\ Soh \in Letter
      BY <1>1, <2>2
    <3>2. Append(q, Soh) = q \o <<Soh>>
      BY <3>1, AppendIs
    <3> QED
      BY <2>1, <3>2, Zenon
  <2>5. /\ z \in Seq(Letter) /\ z # <<>> /\ Head(z) = Soh /\ z[Len(z)] = Soh
        /\ SubSeq(z, 2, Len(z) - 1) = SubSeq(q, 2, Len(q))
    BY <1>1, <2>2, <2>4
  <2>6. SubSeq(q, 2, Len(q)) = y
    <3>1. \A i \in 2..Len(x) + 1 : y[i] = x[i - 1] /\ q[i + 1] = x[i - 1]
      <4>1. \A i \in 2..Len(x) + 1 : i - 1 \in 1..Len(x) /\ (i - 1) + 2 = i + 1 /\ (i - 1) + 1 = i
        BY <2>2
      <4> QED
        BY <2>2, <2>3, <4>1
    <3>2. \A i \in 1..Len(y) : q[i + 1] = y[i]
      BY <2>2, <2>3, <3>1
    <3>3. /\ SubSeq(q, 2, Len(q)) \in Seq(Letter) /\ Len(SubSeq(q, 2, Len(q))) = Len(x) + 1
          /\ \A i \in 1..(Len(x) + 1) : SubSeq(q, 2, Len(q))[i] = q[i + 1]
      BY <2>2
    <3> QED
      BY <2>3, <3>2, <3>3, SeqEqual
  <2> QED
    BY <2>5, <2>6
<1>4. y \in Seq(Letter) /\ Len(y) = Len(x) + 1 /\ y[1] = Action /\ Len(x) \in Nat
      /\ \A i \in 1..Len(x) : y[i + 1] = x[i]
  <2> HIDE DEF Letter
  <2> QED
    BY <1>1
<1>5. First(y, n) # <<>> /\ Head(First(y, n)) = Action /\ Tail(First(y, n)) = First(x, k)
  <2> HIDE DEF Letter, y, k, n
  <2>1. First(y, n) = SubSeq(y, 1, IF Len(y) < n THEN Len(y) ELSE n)
    BY DEF First
  <2>2. First(x, k) = SubSeq(x, 1, IF Len(x) < k THEN Len(x) ELSE k)
    BY DEF First
  <2> DEFINE m == IF Len(x) < k THEN Len(x) ELSE k
  <2>3. m \in 0..Len(x) /\ (IF Len(y) < n THEN Len(y) ELSE n) = m + 1
    BY <1>2, <1>4 DEF k
  <2> HIDE DEF m
  <2>4. First(y, n) = SubSeq(y, 1, m + 1) /\ First(x, k) = SubSeq(x, 1, m)
    BY <2>1, <2>2, <2>3 DEF m
  <2> DEFINE u == SubSeq(y, 1, m + 1)
             v == SubSeq(x, 1, m)
  <2>5. /\ u \in Seq(Letter) /\ Len(u) = m + 1 /\ v \in Seq(Letter) /\ Len(v) = m
        /\ \A i \in 1..(m + 1) : u[i] = y[i]
        /\ \A i \in 1..m : v[i] = x[i]
    BY <1>4, <2>3
  <2>6. u[1] = Action /\ \A i \in 1..m : u[i + 1] = v[i]
    BY <1>4, <2>3, <2>5
  <2> HIDE DEF u, v
  <2>7. u # <<>> /\ Head(u) = Action
    BY <2>3, <2>5, <2>6
  <2>8. Tail(u) = v
    <3>1. /\ Tail(u) \in Seq(Letter) /\ Len(Tail(u)) = m
          /\ \A i \in 1..m : Tail(u)[i] = u[i + 1]
      BY <2>3, <2>5
    <3> QED
      BY <2>5, <2>6, <3>1, SeqEqual
  <2> QED
    BY <2>4, <2>7, <2>8, Zenon DEF u, v
<1>6. IsCtcp(z)
  BY <1>3 DEF IsCtcp, Last
<1>7. Unframed(z) = First(y, n)
  BY <1>3 DEF Unframed
<1>8. Len(<<a, z>>) = 2 /\ <<a, z>>[1] = a /\ <<a, z>>[2] = z
  OBVIOUS
<1>9. ~(Len(<<a, z>>) < 2)
  BY <1>8
<1> HIDE DEF y, z, n, k
<1>10. Privmsg(<<a, z>>) = Event(<<"ACTION">>, <<a, First(x, k)>>)
  BY <1>5, <1>6, <1>7, <1>8, <1>9, Zenon DEF Privmsg
<1> QED
  BY <1>10 DEF z, k, n

(* A call that the second daemon has told its application of.               *)
LEMMA CallIsHeard ==
  ASSUME Talk, heard # Unheard, asked # Unasked
  PROVE  \E received \in BOOLEAN, cmd \in Relayed, f \in [Fields -> Seq(Letter)],
            ws \in Seq(Seq(Letter)), texts \in Endings, told \in Endings :
           /\ asked = [cmd |-> cmd, f |-> f] /\ Asks(cmd, f)
           /\ ReadsAs(cmd, f, sent.line, ws, texts, told)
           /\ heard = Hearing(Line(cmd, ws, texts), received)
<1>1. said # Unsaid /\ Called /\ Passed
  BY DEF Talk, Handled
<1>2. PICK found \in Stack, received \in BOOLEAN : heard = Hearing(Parse(wire, found), received)
  BY DEF Talk, Handled
<1>3. PICK cmd \in Relayed, f \in [Fields -> Seq(Letter)], ws \in Seq(Seq(Letter)),
           texts \in Endings, told \in Endings :
        /\ asked = [cmd |-> cmd, f |-> f] /\ Asks(cmd, f)
        /\ ReadsAs(cmd, f, sent.line, ws, texts, told)
        /\ ReadAs(wire, Line(cmd, ws, texts))
  BY <1>1, CallReads
<1>4. heard = Hearing(Line(cmd, ws, texts), received)
  BY <1>2, <1>3, Zenon DEF ReadAs
<1> QED
  BY <1>3, <1>4, Zenon

(* What is written in a message, an action apart, is told as it was asked.  *)
LEMMA WrittenPairs ==
  ASSUME NEW cmd, cmd # "me", NEW t \in Seq(Letter), cmd \in {"msg", "notice"} \/ Lacks(t, Quote)
  PROVE  Escaped(Written(cmd, t)) = JsonString(t)
<1>1. Escaped(Doubled(t)) = JsonString(t) /\ (Lacks(t, Quote) => JsonString(t) = Doubled(t))
  BY EscapedDoubled, DoubledSame
<1>2. Written(cmd, t) = Doubled(t)
  BY <1>1, Zenon DEF Written
<1> QED
  BY <1>1, <1>2, Zenon

LEMMA LinePairs ==
  ASSUME NEW cmd, NEW f, NEW line, NEW ws \in Seq(Seq(Letter)), NEW texts \in Endings,
         NEW told \in Endings, ReadsAs(cmd, f, line, ws, texts, told), cmd # "me",
         cmd \in {"msg", "notice"} \/ Lacks(Text([cmd |-> cmd, f |-> f]), Quote)
  PROVE  /\ Pairs(ws \o texts, ws \o told) /\ ws \o told \in Seq(Seq(Letter))
         /\ ReadJson(ToJson(ws \o texts)) = Meant(cmd, f)
<1>1. Len(ws) <= 2 /\ Len(ws) \in Nat /\ \A i \in 1..Len(ws) : Escaped(ws[i]) = JsonString(ws[i])
  BY LenProperties DEF ReadsAs, Plain
<1>2. Len(texts) = Len(told) /\ (Len(texts) = 0 \/ Len(texts) = 1)
  BY EndingIs DEF ReadsAs
<1>3. Len(texts) = 1 => Escaped(texts[1]) = JsonString(told[1])
  <2> SUFFICES ASSUME Len(texts) = 1 PROVE Escaped(texts[1]) = JsonString(told[1])
    OBVIOUS
  <2>1. texts # <<>> /\ told # <<>> /\ told[1] \in Seq(Letter)
    BY <1>2, EndingIs
  <2>2. texts[1] = Written(cmd, told[1])
    BY <2>1, Zenon DEF ReadsAs
  <2>3. cmd \in {"msg", "notice"} \/ Lacks(told[1], Quote)
    <3> DEFINE t == Text([cmd |-> cmd, f |-> f])
    <3>1. IF t = NULL THEN told[1] \in {<<>>, <<"quit">>} ELSE told[1] = t
      BY <2>1, Zenon DEF ReadsAs
    <3> QED
      BY <3>1, LacksWords
  <2> QED
    BY <2>1, <2>2, <2>3, WrittenPairs
<1>4. /\ ws \o texts \in Seq(Seq(Letter)) /\ Len(ws \o texts) = Len(ws) + Len(texts)
      /\ \A i \in 1..Len(ws) : (ws \o texts)[i] = ws[i]
      /\ Len(texts) = 1 => (ws \o texts)[Len(ws) + 1] = texts[1]
  BY <1>1, AllParams
<1>5. /\ ws \o told \in Seq(Seq(Letter)) /\ Len(ws \o told) = Len(ws) + Len(told)
      /\ \A i \in 1..Len(ws) : (ws \o told)[i] = ws[i]
      /\ Len(told) = 1 => (ws \o told)[Len(ws) + 1] = told[1]
  BY <1>1, AllParams
<1>6. \A i \in 1..Len(ws \o texts) : i \in 1..Len(ws) \/ (i = Len(ws) + 1 /\ Len(texts) = 1)
  <2> DEFINE n == Len(ws \o texts)
             k == Len(ws)
             m == Len(texts)
  <2>1. n = k + m /\ k \in Nat /\ (m = 0 \/ m = 1)
    BY <1>1, <1>2, <1>4
  <2> HIDE DEF n, k, m
  <2>2. \A i \in 1..n : i \in 1..k \/ (i = k + 1 /\ m = 1)
    BY <2>1
  <2> QED
    BY <2>2 DEF n, k, m
<1>7. \A i \in 1..Len(ws \o texts) : Escaped((ws \o texts)[i]) = JsonString((ws \o told)[i])
  BY <1>1, <1>2, <1>3, <1>4, <1>5, <1>6, Zenon
<1>8. Pairs(ws \o texts, ws \o told)
  BY <1>2, <1>4, <1>5, <1>7 DEF Pairs
<1>9. ReadJson(ToJson(ws \o texts)) = ws \o told
  BY <1>4, <1>5, <1>8, ReadsBack
<1> QED
  BY <1>5, <1>8, <1>9 DEF ReadsAs

(* Whether a message looks like CTCP is up to what was asked.               *)
LEMMA NotCtcp ==
  ASSUME NEW t \in Seq(Letter), ~(t # <<>> /\ t[1] = Soh /\ Last(t) = Soh)
  PROVE  ~IsCtcp(Doubled(t))
<1>1. /\ t = <<>> <=> Doubled(t) = <<>>
      /\ t # <<>> => Doubled(t)[1] = t[1] /\ Last(Doubled(t)) = Last(t)
  BY DoubledEnds
<1>2. Doubled(t) # <<>> => Head(Doubled(t)) = Doubled(t)[1]
  BY DoubledIs
<1> QED
  BY <1>1, <1>2 DEF IsCtcp

LEMMA LineIsTold ==
  ASSUME NEW received, NEW cmd \in Relayed, NEW f, NEW line, NEW ws \in Seq(Seq(Letter)),
         NEW texts \in Endings, NEW told \in Endings, Asks(cmd, f),
         ReadsAs(cmd, f, line, ws, texts, told), cmd # "me",
         LET t == Text([cmd |-> cmd, f |-> f])
         IN cmd \in {"msg", "notice"} => t = NULL \/ ~(t # <<>> /\ t[1] = Soh /\ Last(t) = Soh)
  PROVE  Told(Line(cmd, ws, texts), You, received) = Event(Protocol[cmd].command, ws \o texts)
<1> DEFINE p == Line(cmd, ws, texts)
           c == Protocol[cmd].command
           ps == ws \o texts
<1>1. p.command = c /\ p.params = ps /\ p.prefix = Us
  BY DEF Line
<1>2. /\ Len(ws) <= 2 /\ Len(ps) = Len(ws) + Len(texts)
      /\ \A i \in 1..Len(ws) : ps[i] = ws[i]
      /\ Len(texts) = 1 => ps[Len(ws) + 1] = texts[1]
  BY AllParams DEF ReadsAs
<1>3. ASSUME cmd \in {"msg", "notice"} PROVE ~(Len(ps) < 2) /\ ~IsCtcp(ps[2])
  <2>1. Len(ws) = 1 /\ texts # <<>> /\ Len(texts) = 1
    BY <1>3, EndingIs DEF ReadsAs
  <2>2. told # <<>> /\ texts[1] = Written(cmd, told[1]) /\ told[1] \in Seq(Letter)
    BY <2>1, EndingIs DEF ReadsAs
  <2>3. Written(cmd, told[1]) = Doubled(told[1])
    BY <1>3, Zenon DEF Written
  <2> DEFINE t == Text([cmd |-> cmd, f |-> f])
             q == told[1]
  <2>4. IF t = NULL THEN q \in {<<>>, <<"quit">>} ELSE q = t
    BY <2>2, Zenon DEF ReadsAs
  <2>5. "quit" # Soh /\ <<"quit">>[1] = "quit"
    BY DEF Soh
  <2> HIDE DEF t, q
  <2>6. t = NULL \/ ~(t # <<>> /\ t[1] = Soh /\ Last(t) = Soh)
    BY <1>3 DEF t
  <2>7. ~(q # <<>> /\ q[1] = Soh /\ Last(q) = Soh)
    BY <2>4, <2>5, <2>6
  <2>8. ~IsCtcp(texts[1])
    BY <2>2, <2>3, <2>7, NotCtcp DEF q
  <2> HIDE DEF ps
  <2> QED
    BY <1>2, <2>1, <2>8
<1>4. c = <<"MODE">> => ~(ps # <<>> /\ ps[1] = You)
  <2> SUFFICES ASSUME c = <<"MODE">> PROVE ~(ps # <<>> /\ ps[1] = You)
    OBVIOUS
  <2>1. cmd = "channel_mode"
    BY ProtocolIs DEF Relayed
  <2>2. ws # <<>> /\ ws[1] # You
    BY <2>1 DEF ReadsAs
  <2>3. 1 \in 1..Len(ws)
    BY <2>2, LenProperties, EmptySeq
  <2> QED
    BY <1>2, <2>2, <2>3, Zenon
<1>5. /\ c = <<"PRIVMSG">> => cmd \in {"msg", "notice"}
      /\ c = <<"NOTICE">> => cmd \in {"msg", "notice"}
  BY ProtocolIs DEF Relayed
<1>6. \/ c \in {<<"PRIVMSG">>, <<"NOTICE">>, <<"MODE">>, <<"NICK">>}
      \/ c \in {<<"JOIN">>, <<"PART">>, <<"INVITE">>, <<"TOPIC">>, <<"KICK">>, <<"QUIT">>}
  BY ProtocolIs DEF Relayed
<1>7. Us # NULL
  BY WordsArePlain DEF Plain
<1> HIDE DEF p, c, ps
<1>8. CASE c \in {<<"JOIN">>, <<"PART">>, <<"INVITE">>, <<"TOPIC">>, <<"KICK">>, <<"QUIT">>}
  <2>1. Told(p, You, received) = Event(p.command, p.params)
    BY <1>1, <1>8, ToldIs
  <2> QED
    BY <1>1, <2>1 DEF p, c, ps
<1>9. CASE c = <<"PRIVMSG">>
  <2>1. Told(p, You, received) = Privmsg(p.params)
    BY <1>1, <1>9, ToldIs
  <2>2. Privmsg(ps) = Event(<<"PRIVMSG">>, ps)
    BY <1>3, <1>5, <1>9, Zenon DEF Privmsg
  <2> QED
    BY <1>1, <1>9, <2>1, <2>2, Zenon DEF p, c, ps
<1>10. CASE c = <<"NOTICE">>
  <2>1. Told(p, You, received) = Notice(p.params)
    BY <1>1, <1>10, ToldIs
  <2>2. Notice(ps) = Event(<<"NOTICE">>, ps)
    BY <1>3, <1>5, <1>10, Zenon DEF Notice
  <2> QED
    BY <1>1, <1>10, <2>1, <2>2, Zenon DEF p, c, ps
<1>11. CASE c = <<"MODE">>
  <2>1. Told(p, You, received) = Mode(p.params, You)
    BY <1>1, <1>11, ToldIs
  <2>2. Mode(ps, You) = Event(<<"MODE">>, ps)
    BY <1>4, <1>11, Zenon DEF Mode
  <2> QED
    BY <1>1, <1>11, <2>1, <2>2, Zenon DEF p, c, ps
<1>12. CASE c = <<"NICK">>
  <2>1. Told(p, You, received) = Nick(p.prefix, p.params)
    BY <1>1, <1>12, ToldIs
  <2>2. Nick(Us, ps) = Event(<<"NICK">>, ps)
    BY <1>7, Zenon DEF Nick
  <2> QED
    BY <1>1, <1>12, <2>1, <2>2, Zenon DEF p, c, ps
<1> QED
  BY <1>6, <1>8, <1>9, <1>10, <1>11, <1>12

(* An action is told without its frame, whole if the buffer holds it.       *)
LEMMA ActionIsTold ==
  ASSUME NEW received, NEW f, NEW line, NEW ws \in Seq(Seq(Letter)), NEW texts \in Endings,
         NEW told \in Endings, Asks("me", f), ReadsAs("me", f, line, ws, texts, told),
         f["text"] # NULL
  PROVE  LET t == f["text"]
             e == Told(Line("me", ws, texts), You, received)
         IN /\ e.event = <<"ACTION">>
            /\ 2 * Len(t) < MaxCtcp => ReadJson(ToJson(e.params)) = <<f["nch"], t>>
            /\ Lacks(t, Backslash) =>
                 ReadJson(ToJson(e.params)) = <<f["nch"], First(t, MaxCtcp - 1)>>
<1> DEFINE t == f["text"]
           a == f["nch"]
           x == Doubled(t)
           k == MaxCtcp - 1
           p == Line("me", ws, texts)
<1>1. t \in Seq(Letter) /\ x \in Seq(Letter) /\ Len(x) <= 2 * Len(t) /\ Len(t) \in Nat
      /\ Len(x) \in Nat /\ k \in Nat /\ MaxCtcp \in Nat /\ (Lacks(t, Backslash) => x = t)
  <2>1. t \in Seq(Letter)
    BY DEF Asks, Fields
  <2>2. x \in Seq(Letter) /\ Len(x) <= 2 * Len(t) /\ (Lacks(t, Backslash) => x = t)
    BY <2>1, DoubledIs, DoubledEnds, DoubledSame
  <2> QED
    BY <2>1, <2>2, LimitAssumption, LenProperties
<1>2. a \in Seq(Letter) /\ Len(ws) = 1 /\ ws[1] = a /\ Plain(a)
  <2>1. Len(ws) = 1 /\ ws[1] = a /\ \A i \in 1..Len(ws) : Plain(ws[i])
    BY DEF ReadsAs
  <2>2. Plain(a)
    BY <2>1
  <2> QED
    BY <2>1, <2>2 DEF Plain
<1>3. told # <<>> /\ told[1] = t /\ texts = <<Framed(x)>> /\ Framed(x) \in Seq(Letter)
  <2>1. texts # <<>> /\ told # <<>> /\ texts[1] = Written("me", told[1])
    BY Zenon DEF ReadsAs
  <2>2. Text([cmd |-> "me", f |-> f]) = t
    BY TextFieldsAre, TextIs
  <2>3. told[1] = t
    BY <2>1, <2>2, Zenon DEF ReadsAs
  <2>4. texts = <<texts[1]>> /\ texts[1] \in Seq(Letter)
    BY <2>1, EndingIs
  <2>5. Written("me", t) = Framed(x)
    BY Zenon DEF Written
  <2> QED
    BY <2>1, <2>3, <2>4, <2>5, Zenon
<1>4. p.command = <<"PRIVMSG">> /\ p.params = <<a, Framed(x)>>
  <2> DEFINE W == Seq(Letter)
             y == Framed(x)
  <2>1. ws \in Seq(W) /\ a \in W /\ y \in W
    BY <1>2, <1>3
  <2>2. p.command = <<"PRIVMSG">> /\ p.params = ws \o <<y>>
    BY <1>3, ProtocolIs DEF Line
  <2> HIDE DEF W, y, a, p
  <2>3. Len(ws) = Len(<<a>>) /\ <<a>> \in Seq(W) /\ \A i \in 1..1 : ws[i] = <<a>>[i]
    BY <1>2, <2>1 DEF a
  <2>4. ws = <<a>>
    BY <1>2, <2>1, <2>3, SeqEqual DEF a
  <2>5. <<a, y>> = <<a>> \o <<y>>
    BY <2>1, TwoAre
  <2> QED
    BY <2>2, <2>4, <2>5, Zenon DEF y
<1>5. Told(p, You, received) = Event(<<"ACTION">>, <<a, First(x, k)>>)
  <2>1. Told(p, You, received) = Privmsg(p.params)
    BY <1>4, ToldIs
  <2>2. Privmsg(<<a, Framed(x)>>) = Event(<<"ACTION">>, <<a, First(x, k)>>)
    BY <1>1, <1>2, ActionTold
  <2> QED
    BY <1>4, <2>1, <2>2, Zenon
<1>6. ASSUME NEW u, NEW v, {u, v} \subseteq Seq(Letter), Escaped(u) = JsonString(v)
      PROVE  ReadJson(ToJson(<<a, u>>)) = <<a, v>>
  <2>1. {a, u} \subseteq Seq(Letter) /\ {a, v} \subseteq Seq(Letter)
    BY <1>2, <1>6
  <2>2. <<a, u>> \in Seq(Seq(Letter)) /\ <<a, v>> \in Seq(Seq(Letter))
    BY <2>1, ListsAre
  <2>3. Pairs(<<a, u>>, <<a, v>>)
    <3>1. Escaped(a) = JsonString(a)
      BY <1>2 DEF Plain
    <3> HIDE DEF a
    <3>2. Len(<<a, u>>) = 2 /\ Len(<<a, v>>) = 2 /\ <<a, u>>[1] = a /\ <<a, v>>[1] = a
          /\ <<a, u>>[2] = u /\ <<a, v>>[2] = v
      OBVIOUS
    <3>3. \A i \in 1..2 : i = 1 \/ i = 2
      OBVIOUS
    <3> QED
      BY <1>6, <3>1, <3>2, <3>3, Zenon DEF Pairs
  <2> QED
    BY <2>2, <2>3, ReadsBack
<1>7. 2 * Len(t) < MaxCtcp => ReadJson(ToJson(<<a, First(x, k)>>)) = <<a, t>>
  <2> SUFFICES ASSUME 2 * Len(t) < MaxCtcp PROVE ReadJson(ToJson(<<a, First(x, k)>>)) = <<a, t>>
    OBVIOUS
  <2>1. k >= Len(x)
    BY <1>1
  <2>2. First(x, k) = x
    BY <1>1, <2>1, FirstIs
  <2>3. Escaped(x) = JsonString(t)
    BY <1>1, EscapedDoubled
  <2> HIDE DEF x, t, k
  <2>4. {x, t} \subseteq Seq(Letter)
    BY <1>1
  <2>5. ReadJson(ToJson(<<a, x>>)) = <<a, t>>
    BY <1>6, <2>3, <2>4
  <2> QED
    BY <2>2, <2>5, Zenon
<1>8. Lacks(t, Backslash) => ReadJson(ToJson(<<a, First(x, k)>>)) = <<a, First(t, k)>>
  <2> SUFFICES ASSUME Lacks(t, Backslash)
               PROVE  ReadJson(ToJson(<<a, First(x, k)>>)) = <<a, First(t, k)>>
    OBVIOUS
  <2> DEFINE u == First(t, k)
  <2>1. x = t
    BY <1>1
  <2>2. u \in Seq(Letter) /\ \A i \in 1..Len(u) : u[i] = t[i] /\ i \in 1..Len(t)
    BY <1>1, FirstIs
  <2>3. Lacks(u, Backslash)
    BY <2>2 DEF Lacks, Contains
  <2>4. Escaped(u) = JsonString(u)
    BY <2>2, <2>3, DoubledSame, EscapedDoubled
  <2> HIDE DEF u
  <2>5. ReadJson(ToJson(<<a, u>>)) = <<a, u>>
    BY <1>6, <2>2, <2>4
  <2> QED
    BY <2>1, <2>5, Zenon DEF u
<1>9. \A event, params : Event(event, params).event = event /\ Event(event, params).params = params
  BY DEF Event
<1> HIDE DEF p, a, t, x, k
<1>10. /\ Told(p, You, received).event = <<"ACTION">>
       /\ 2 * Len(t) < MaxCtcp => ReadJson(ToJson(Told(p, You, received).params)) = <<a, t>>
       /\ Lacks(t, Backslash) => ReadJson(ToJson(Told(p, You, received).params)) = <<a, First(t, k)>>
  BY <1>5, <1>7, <1>8, <1>9
<1> QED
  BY <1>10 DEF p, a, t, k

(* The other application is told what was asked: its texts whole, whatever  *)
(* quotes and backslashes one daemon adds and the other takes out, and of   *)
(* an action what ctcp_buf holds (libirc_process_incoming_data,             *)
(* libircclient.c 391-679, and process_event, events.c 30-89).              *)
THEOREM RelayTellsWhatIsAsked == Spec => []RelayedAsAsked
<1>1. Talk => RelayedAsAsked
  <2> SUFFICES ASSUME Talk, heard # Unheard, asked # Unasked PROVE RelayedAsAsked
    BY DEF RelayedAsAsked
  <2>1. PICK received \in BOOLEAN, cmd \in Relayed, f \in [Fields -> Seq(Letter)],
             ws \in Seq(Seq(Letter)), texts \in Endings, told \in Endings :
          /\ asked = [cmd |-> cmd, f |-> f] /\ Asks(cmd, f)
          /\ ReadsAs(cmd, f, sent.line, ws, texts, told)
          /\ heard = Hearing(Line(cmd, ws, texts), received)
    BY CallIsHeard
  <2> DEFINE p == Line(cmd, ws, texts)
             t == Text(asked)
             now == ReadJson(heard.json)
             to == asked.f["nch"]
  <2>2. asked.cmd = cmd /\ asked.f = f /\ t = Text([cmd |-> cmd, f |-> f])
    BY <2>1
  <2>3. /\ heard.event = Told(p, You, received).event /\ heard.origin = Us
        /\ heard.json = ToJson(Told(p, You, received).params)
    <3>1. Us # NULL /\ p.prefix = Us
      BY WordsArePlain DEF Plain, Line
    <3> HIDE DEF p
    <3> QED
      BY <2>1, <3>1 DEF Hearing, p
  <2>4. ASSUME cmd = "me", t # NULL
        PROVE  /\ heard.event = <<"ACTION">>
               /\ 2 * Len(t) < MaxCtcp => now = <<to, t>>
               /\ Lacks(t, Backslash) => now = <<to, First(t, MaxCtcp - 1)>>
    <3>1. t = f["text"] /\ to = f["nch"]
      BY <2>2, <2>4, TextFieldsAre, TextIs
    <3>2. Asks("me", f) /\ ReadsAs("me", f, sent.line, ws, texts, told) /\ p = Line("me", ws, texts)
      BY <2>1, <2>4
    <3>3. f["text"] # NULL
      BY <2>4, <3>1
    <3> HIDE DEF p, t, to
    <3>4. LET e == Told(p, You, received)
          IN /\ e.event = <<"ACTION">>
             /\ 2 * Len(f["text"]) < MaxCtcp => ReadJson(ToJson(e.params)) = <<f["nch"], f["text"]>>
             /\ Lacks(f["text"], Backslash) =>
                  ReadJson(ToJson(e.params)) = <<f["nch"], First(f["text"], MaxCtcp - 1)>>
      BY <3>2, <3>3, ActionIsTold
    <3> QED
      BY <2>3, <3>1, <3>4, Zenon
  <2>5. ASSUME cmd # "me",
               IF cmd \in {"msg", "notice"}
               THEN t = NULL \/ ~(t # <<>> /\ t[1] = Soh /\ Last(t) = Soh)
               ELSE Lacks(t, Quote)
        PROVE  heard.event = Protocol[cmd].command /\ now = Meant(cmd, f)
    <3> DEFINE u == Text([cmd |-> cmd, f |-> f])
    <3>1. /\ cmd \in {"msg", "notice"} => u = NULL \/ ~(u # <<>> /\ u[1] = Soh /\ Last(u) = Soh)
          /\ cmd \in {"msg", "notice"} \/ Lacks(u, Quote)
      BY <2>2, <2>5, Zenon
    <3> HIDE DEF t
    <3>2. Told(p, You, received) = Event(Protocol[cmd].command, ws \o texts)
      BY <2>1, <2>5, <3>1, LineIsTold
    <3>3. ReadJson(ToJson(ws \o texts)) = Meant(cmd, f)
      BY <2>1, <2>5, <3>1, LinePairs
    <3>4. Told(p, You, received).event = Protocol[cmd].command /\ Told(p, You, received).params = ws \o texts
      <4> HIDE DEF p
      <4> QED
        BY <3>2 DEF Event
    <3> QED
      BY <2>3, <3>3, <3>4, Zenon
  <2> HIDE DEF p
  <2> QED
    BY <2>2, <2>3, <2>4, <2>5, Zenon DEF RelayedAsAsked
<1> QED
  BY <1>1, AlwaysTalk, PTL

-----------------------------------------------------------------------------
(* The server's own lines.                                                  *)

LEMMA OwnIsHeard ==
  ASSUME Talk, heard # Unheard, said.own, said.params # <<>>
  PROVE  \E prefix \in {NULL, Servers}, c \in OwnCommands, ps \in Seq(Seq(Letter)),
            received \in BOOLEAN :
           /\ said.prefix = prefix /\ said.command = c /\ said.params = ps
           /\ said.first = IsFirst(c, received)
           /\ heard = Hearing([prefix |-> prefix, command |-> c,
                               params |-> First(ps, MaxParams)], received)
<1>1. said # Unsaid
  BY DEF Talk, Handled
<1>2. PICK found \in Stack, received \in BOOLEAN :
        /\ heard = Hearing(Parse(wire, found), received)
        /\ asked = Unasked => said.first = IsFirst(said.command, received)
  BY DEF Talk, Handled
<1>3. asked = Unasked
  <2>1. [Unsaid EXCEPT !.prefix = Us].own = FALSE
    BY DEF Unsaid
  <2> QED
    BY <1>1, <2>1 DEF Talk, Passed
<1>4. PICK prefix \in {NULL, Servers}, c \in OwnCommands, words \in Seq(Seq(Letter)),
           texts \in Endings, gap \in BOOLEAN :
        /\ AllMiddles(words)
        /\ said.prefix = prefix /\ said.command = c /\ said.params = words \o texts
        /\ said.own = ~gap
        /\ wire = OwnLine(prefix, c, words, texts, gap)
  BY <1>1, <1>3, Zenon DEF Talk, Own
<1>5. /\ said.prefix = prefix /\ said.command = c /\ said.params = words \o texts
      /\ gap = FALSE /\ said.first = IsFirst(c, received)
  BY <1>2, <1>3, <1>4
<1>6. Verb(c)
  <2>1. \E n \in Verbs : c = <<n>>
    BY DEF OwnCommands, Verbs
  <2> QED
    BY <2>1, VerbsAre
<1>7. words \o texts \in Seq(Seq(Letter)) /\ words \o texts # <<>>
  <2> DEFINE W == Seq(Letter)
  <2>1. words \in Seq(W) /\ texts \in Seq(W)
    BY EndingIs
  <2> HIDE DEF W
  <2>2. words \o texts \in Seq(W)
    BY <2>1, ConcatProperties
  <2> QED
    BY <1>5, <2>2, Zenon DEF W
<1> DEFINE p == [prefix |-> prefix, command |-> c, params |-> First(words \o texts, MaxParams)]
<1>8. Parse(wire, found) = p
  <2>1. wire = IF prefix = NULL THEN Spelled(c, words, texts)
               ELSE (<<Colon>> \o prefix) \o (<<Space>> \o Spelled(c, words, texts))
    <3>1. OwnBody(c, words, texts, FALSE) = Spelled(c, words, texts)
      BY OwnRestIs DEF OwnBody, Spelled
    <3>2. OwnLine(prefix, c, words, texts, FALSE)
          = IF prefix = NULL THEN OwnBody(c, words, texts, FALSE)
            ELSE (<<Colon>> \o prefix) \o (<<Space>> \o OwnBody(c, words, texts, FALSE))
      BY <1>6, OwnLineIs DEF Verb
    <3> QED
      BY <1>4, <1>5, <3>1, <3>2, Zenon
  <2>2. CASE prefix = NULL
    BY <1>4, <1>6, <1>7, <2>1, <2>2, ParseIs
  <2>3. CASE prefix # NULL
    <3>1. prefix \in Seq(Letter) /\ Lacks(prefix, Space)
      <4>1. "server" \in Names
        BY DEF Names, Fields
      <4> QED
        BY <2>3, <4>1, WordsArePlain DEF Servers, Plain, IsMiddle, Lacks
    <3>2. AllMiddles(words)
      BY <1>4
    <3>3. \A x \in Seq(Letter) : Lacks(x, Space) =>
            Parse((<<Colon>> \o x) \o (<<Space>> \o Spelled(c, words, texts)), found)
            = [prefix |-> x, command |-> c, params |-> First(words \o texts, MaxParams)]
      BY <1>6, <1>7, <3>2, ParseIs
    <3>4. Parse((<<Colon>> \o prefix) \o (<<Space>> \o Spelled(c, words, texts)), found) = p
      BY <3>1, <3>3, Zenon
    <3> QED
      BY <2>1, <2>3, <3>4, Zenon
  <2> QED
    BY <2>2, <2>3
<1> QED
  BY <1>2, <1>5, <1>7, <1>8, Zenon

LEMMA SamePairs ==
  ASSUME NEW ps \in Seq(Seq(Letter)), \A i \in 1..Len(ps) : Lacks(ps[i], Backslash)
  PROVE  ReadJson(ToJson(ps)) = ps
<1>1. \A t \in Seq(Letter) : Lacks(t, Backslash) => Escaped(t) = JsonString(t)
  BY DoubledSame, EscapedDoubled
<1>2. \A i \in 1..Len(ps) : ps[i] \in Seq(Letter)
  OBVIOUS
<1>3. Pairs(ps, ps)
  BY <1>1, <1>2, Zenon DEF Pairs
<1> QED
  BY <1>3, ReadsBack

(* The first parameters of a line.                                          *)
LEMMA FirstTwo ==
  ASSUME NEW ps \in Seq(Seq(Letter))
  PROVE  LET qs == First(ps, MaxParams)
         IN /\ qs \in Seq(Seq(Letter)) /\ (ps # <<>> => qs # <<>> /\ qs[1] = ps[1])
            /\ \A i \in 1..Len(qs) : qs[i] = ps[i] /\ i \in 1..Len(ps)
            /\ Len(ps) >= 2 => ~(Len(qs) < 2) /\ qs[2] = ps[2] /\ ps[2] \in Seq(Letter)
<1> DEFINE W == Seq(Letter)
           qs == First(ps, MaxParams)
<1>1. MaxParams \in Nat /\ MaxParams >= 3 /\ ps \in Seq(W)
  BY LimitAssumption
<1> HIDE DEF W
<1>2. /\ qs \in Seq(W) /\ Len(qs) = (IF MaxParams < Len(ps) THEN MaxParams ELSE Len(ps))
      /\ \A i \in 1..Len(qs) : qs[i] = ps[i] /\ i \in 1..Len(ps)
  BY <1>1, FirstIs
<1> HIDE DEF qs
<1>3. Len(ps) \in Nat /\ (ps # <<>> => Len(ps) >= 1)
  BY <1>1, LenProperties, EmptySeq
<1>4. /\ Len(ps) >= 1 => Len(qs) >= 1
      /\ Len(ps) >= 2 => ~(Len(qs) < 2) /\ 2 \in 1..Len(qs) /\ 2 \in 1..Len(ps)
  BY <1>1, <1>2, <1>3
<1>5. Len(qs) >= 1 => qs # <<>> /\ 1 \in 1..Len(qs)
  BY <1>2
<1>6. 2 \in 1..Len(ps) => ps[2] \in W
  BY <1>1
<1> QED
  BY <1>2, <1>3, <1>4, <1>5, <1>6 DEF W, qs

(* What servers send, and what is not meant for a program to answer.        *)
Proper(prefix, c, ps, first) ==
  /\ c \in {<<"NOTICE">>, <<"PRIVMSG">>, <<"MODE">>} => Len(ps) >= 2
  /\ c = <<"NICK">> \/ first => prefix # NULL
  /\ \A i \in DOMAIN ps : Lacks(ps[i], Backslash)
  /\ c \in {<<"NOTICE">>, <<"PRIVMSG">>} => ~(ps[2] # <<>> /\ ps[2][1] = Soh /\ Last(ps[2]) = Soh)

LEMMA OwnIsTold ==
  ASSUME NEW prefix, NEW c \in OwnCommands, NEW ps \in Seq(Seq(Letter)), ps # <<>>,
         NEW received, Proper(prefix, c, ps, IsFirst(c, received))
  PROVE  LET qs == First(ps, MaxParams)
             e == Told([prefix |-> prefix, command |-> c, params |-> qs], You, received)
         IN IF c \in {<<"PING">>, <<"KILL">>} THEN e = Nothing
            ELSE /\ e.event = c \/ c = <<"001">>
                 /\ e.params = IF c = <<"MODE">> /\ ps[1] = You THEN <<ps[2]>> ELSE qs
<1> DEFINE qs == First(ps, MaxParams)
           p == [prefix |-> prefix, command |-> c, params |-> qs]
<1>1. p.prefix = prefix /\ p.command = c /\ p.params = qs
  OBVIOUS
<1>2. /\ qs # <<>> /\ qs[1] = ps[1]
      /\ Len(ps) >= 2 => ~(Len(qs) < 2) /\ qs[2] = ps[2] /\ ps[2] \in Seq(Letter)
  BY FirstTwo
<1>3. ASSUME c \in {<<"NOTICE">>, <<"PRIVMSG">>} PROVE ~(Len(qs) < 2) /\ ~IsCtcp(qs[2])
  <2>1. Len(ps) >= 2 /\ ~(ps[2] # <<>> /\ ps[2][1] = Soh /\ Last(ps[2]) = Soh)
    BY <1>3 DEF Proper
  <2>2. ~(Len(qs) < 2) /\ qs[2] = ps[2] /\ ps[2] \in Seq(Letter)
    BY <1>2, <2>1
  <2>3. ps[2] # <<>> => Head(ps[2]) = ps[2][1]
    BY <2>2
  <2>4. ~IsCtcp(ps[2])
    BY <2>1, <2>3 DEF IsCtcp
  <2> QED
    BY <2>2, <2>4
<1>4. c \in {<<"001">>, <<"376">>, <<"422">>, <<"MODE">>, <<"NOTICE">>, <<"PRIVMSG">>, <<"PING">>, <<"KILL">>,
             <<"NICK">>}
  BY DEF OwnCommands
<1>5. \A event, params : Event(event, params).event = event /\ Event(event, params).params = params
  BY DEF Event
<1>6. \A a, b : <<a>> = <<b>> => a = b
  OBVIOUS
<1>7. Told(p, You, received) \in
        {Nothing, Event(c, qs), Event(c, <<ps[2]>>), Event(<<"1">>, qs)} /\
      IF c \in {<<"PING">>, <<"KILL">>} THEN Told(p, You, received) = Nothing
      ELSE IF c = <<"MODE">> /\ ps[1] = You THEN Told(p, You, received) = Event(c, <<ps[2]>>)
      ELSE Told(p, You, received) = Event(c, qs) \/ (c = <<"001">> /\ Told(p, You, received) = Event(<<"1">>, qs))
  <2> HIDE DEF p, qs
  <2>1. CASE c \in {<<"PING">>, <<"KILL">>}
    <3>1. Told(p, You, received) = Nothing
      BY <1>1, <1>2, <2>1, ToldIs
    <3> QED
      BY <2>1, <3>1
  <2>2. CASE c = <<"001">> \/ c \in EndOfMotd
    <3>1. Told(p, You, received) = Numeric(p, received)
      BY <1>1, <2>2, ToldIs
    <3>2. Told(p, You, received) = Event(IF c = <<"001">> THEN <<"1">> ELSE c, qs)
      <4>1. ~(Connects(p, received) /\ p.prefix = NULL)
        BY <1>1, Zenon DEF Connects, IsFirst, Proper
      <4> QED
        BY <1>1, <3>1, <4>1, Zenon DEF Numeric
    <3>3. c # <<"PING">> /\ c # <<"KILL">> /\ c # <<"MODE">>
      BY <1>6, <2>2, Zenon DEF EndOfMotd
    <3> QED
      BY <3>2, <3>3
  <2>3. CASE c = <<"MODE">>
    <3>1. Told(p, You, received) = Mode(qs, You)
      BY <1>1, <2>3, ToldIs
    <3>2. ~(Len(qs) < 2) /\ qs[2] = ps[2]
      BY <1>2, <2>3 DEF Proper
    <3>3. Told(p, You, received) = IF ps[1] = You THEN Event(c, <<ps[2]>>) ELSE Event(c, qs)
      BY <1>2, <2>3, <3>1, <3>2, Zenon DEF Mode
    <3>4. c # <<"PING">> /\ c # <<"KILL">>
      BY <1>6, <2>3, Zenon
    <3> QED
      BY <2>3, <3>3, <3>4
  <2>4. CASE c = <<"NOTICE">>
    <3>1. Told(p, You, received) = Notice(qs)
      BY <1>1, <2>4, ToldIs
    <3>2. Told(p, You, received) = Event(c, qs)
      BY <1>3, <2>4, <3>1, Zenon DEF Notice
    <3>3. c # <<"PING">> /\ c # <<"KILL">> /\ c # <<"MODE">>
      BY <1>6, <2>4, Zenon
    <3> QED
      BY <3>2, <3>3
  <2>5. CASE c = <<"PRIVMSG">>
    <3>1. Told(p, You, received) = Privmsg(qs)
      BY <1>1, <2>5, ToldIs
    <3>2. Told(p, You, received) = Event(c, qs)
      BY <1>3, <2>5, <3>1, Zenon DEF Privmsg
    <3>3. c # <<"PING">> /\ c # <<"KILL">> /\ c # <<"MODE">>
      BY <1>6, <2>5, Zenon
    <3> QED
      BY <3>2, <3>3
  <2>6. CASE c = <<"NICK">>
    <3>1. Told(p, You, received) = Nick(prefix, qs)
      BY <1>1, <2>6, ToldIs
    <3>2. Told(p, You, received) = Event(c, qs)
      BY <2>6, <3>1, Zenon DEF Nick, Proper
    <3>3. c # <<"PING">> /\ c # <<"KILL">> /\ c # <<"MODE">>
      BY <1>6, <2>6, Zenon
    <3> QED
      BY <3>2, <3>3
  <2> QED
    BY <1>4, <2>1, <2>2, <2>3, <2>4, <2>5, <2>6 DEF EndOfMotd
<1> HIDE DEF p, qs
<1>8. IF c \in {<<"PING">>, <<"KILL">>} THEN Told(p, You, received) = Nothing
      ELSE /\ Told(p, You, received).event = c \/ c = <<"001">>
           /\ Told(p, You, received).params = IF c = <<"MODE">> /\ ps[1] = You THEN <<ps[2]>> ELSE qs
  BY <1>5, <1>7
<1> QED
  BY <1>8 DEF p, qs

(* A line of the server's own is told as it was meant, its parameters cut   *)
(* apart where the protocol says, as many as the daemon takes, and CONNECT  *)
(* is told with the first end of the message of the day of a connection and *)
(* with nothing else (libirc_process_incoming_data, libircclient.c 391-679, *)
(* and the events of wIRCd, events.c 30-122).                               *)
THEOREM ServersAreToldAsMeant == Spec => []ToldAsSaid
<1>1. Talk => ToldAsSaid
  <2> DEFINE said_ps == said.params
             said_c == said.command
  <2> SUFFICES ASSUME Talk, heard # Unheard, said.own, said_ps # <<>>,
                      Proper(said.prefix, said_c, said_ps, said.first)
               PROVE  /\ heard.connect = said.first
                      /\ IF said_c \in {<<"PING">>, <<"KILL">>} THEN heard.event = Nothing.event
                         ELSE
                           /\ heard.event = said_c \/ said_c = <<"001">>
                           /\ said.prefix # NULL => heard.origin = said.prefix
                           /\ ReadJson(heard.json)
                              = IF said_c = <<"MODE">> /\ said_ps[1] = You THEN <<said_ps[2]>>
                                ELSE First(said_ps, MaxParams)
    BY Zenon DEF ToldAsSaid, Proper
  <2>1. PICK prefix \in {NULL, Servers}, c \in OwnCommands, ps \in Seq(Seq(Letter)),
             received \in BOOLEAN :
          /\ said.prefix = prefix /\ said.command = c /\ said.params = ps
          /\ said.first = IsFirst(c, received)
          /\ heard = Hearing([prefix |-> prefix, command |-> c,
                              params |-> First(ps, MaxParams)], received)
    BY OwnIsHeard
  <2> DEFINE qs == First(ps, MaxParams)
             p == [prefix |-> prefix, command |-> c, params |-> qs]
             e == Told(p, You, received)
             to == IF c = <<"MODE">> /\ ps[1] = You THEN <<ps[2]>> ELSE qs
  <2>2. IF c \in {<<"PING">>, <<"KILL">>} THEN e = Nothing
        ELSE (e.event = c \/ c = <<"001">>) /\ e.params = to
    BY <2>1, OwnIsTold
  <2>5. heard.connect = said.first
    <3>1. heard.connect = (IsFirst(c, received) /\ prefix # NULL)
      BY <2>1 DEF Hearing, Connects, IsFirst
    <3>2. IsFirst(c, received) => prefix # NULL
      BY <2>1, Zenon DEF Proper
    <3>3. IsFirst(c, received) \in BOOLEAN
      BY DEF IsFirst
    <3> QED
      BY <2>1, <3>1, <3>2, <3>3
  <2>3. ReadJson(ToJson(to)) = to
    <3>1. Proper(prefix, c, ps, said.first) /\ DOMAIN ps = 1..Len(ps)
      BY <2>1, LenProperties
    <3>2. \A i \in 1..Len(ps) : Lacks(ps[i], Backslash)
      BY <3>1, Zenon DEF Proper
    <3>3. CASE c = <<"MODE">> /\ ps[1] = You
      <4>1. Len(ps) >= 2
        BY <3>1, <3>3 DEF Proper
      <4>2. ps[2] \in Seq(Letter) /\ 2 \in 1..Len(ps)
        BY <4>1, FirstTwo
      <4>3. {ps[2], ps[2]} \subseteq Seq(Letter)
        BY <4>2
      <4>4. <<ps[2]>> \in Seq(Seq(Letter)) /\ Len(<<ps[2]>>) = 1 /\ \A i \in 1..1 : <<ps[2]>>[i] = ps[2]
        BY <4>3, ListsAre
      <4>5. \A i \in 1..Len(<<ps[2]>>) : Lacks(<<ps[2]>>[i], Backslash)
        BY <3>2, <4>2, <4>4
      <4>6. ReadJson(ToJson(<<ps[2]>>)) = <<ps[2]>>
        BY <4>4, <4>5, SamePairs
      <4> QED
        BY <3>3, <4>6
    <3>4. CASE ~(c = <<"MODE">> /\ ps[1] = You)
      <4>1. qs \in Seq(Seq(Letter)) /\ \A i \in 1..Len(qs) : qs[i] = ps[i] /\ i \in 1..Len(ps)
        BY FirstTwo
      <4>2. \A i \in 1..Len(qs) : Lacks(qs[i], Backslash)
        BY <3>2, <4>1
      <4> HIDE DEF qs
      <4>3. ReadJson(ToJson(qs)) = qs
        BY <4>1, <4>2, SamePairs
      <4> QED
        BY <3>4, <4>3
    <3> QED
      BY <3>3, <3>4
  <2>4. /\ heard.event = e.event /\ heard.json = ToJson(e.params)
        /\ prefix # NULL => heard.origin = prefix
    <3>1. p.prefix = prefix
      OBVIOUS
    <3> HIDE DEF p
    <3> QED
      BY <2>1, <3>1 DEF Hearing, p
  <2> HIDE DEF e
  <2> QED
    BY <2>1, <2>2, <2>3, <2>4, <2>5, Zenon
<1> QED
  BY <1>1, AlwaysTalk, PTL

=============================================================================
