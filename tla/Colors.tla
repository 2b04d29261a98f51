-------------------------------- MODULE Colors --------------------------------
(***************************************************************************)
(* The color codes of libircclient: mIRC's control characters to tags in   *)
(* square brackets (irc_color_convert_from_mirc), to nothing               *)
(* (irc_color_strip_from_mirc), and tags to control characters             *)
(* (irc_color_convert_to_mirc).  wIRCd itself does not call them.          *)
(*                                                                         *)
(* A text is a sequence of characters, each a string; the name of a tag is *)
(* one character.  What a conversion gives is a sequence too, of <<c>> for *)
(* a character and longer tuples for tags.                                 *)
(***************************************************************************)
EXTENDS Integers, Sequences, SequencesExt, FiniteSetsExt, Functions, TLC

CONSTANTS Digit,       \* [character -> value] of the digits
          MaxColor,    \* LIBIRC_COLORPARSER_MAXCOLORS
          MircPieces,  \* the pieces that texts with control characters are made of
          TagPieces,   \* the pieces that texts with tags are made of
          MaxDraft     \* bound: pieces of a text

ASSUME BoundAssumption == MaxColor \in Nat /\ MaxDraft \in Nat

VARIABLES draft,    \* a text somebody is typing: its pieces
          kind      \* "mirc": with control characters; "tags": with tags; "none" is typed

Bold == "^B"
Underline == "^_"
Invert == "^V"
Reset == "^O"
Color == "^C"
Toggles == {Bold, Underline, Invert}
ASSUME DigitAssumption ==
  Color \notin DOMAIN Digit /\ \A c \in DOMAIN Digit : Digit[c] \in Nat

(* No character is taken for what stands first in a tag of the result.      *)
Char == STRING \ {"open", "close", "COLOR"}

ASSUME PieceAssumption == MircPieces \subseteq Seq(Char)

TagOf == [c \in Toggles |-> CASE c = Bold -> "B" [] c = Underline -> "U" [] OTHER -> "I"]

-----------------------------------------------------------------------------
(* libirc_colorparser_irc2code *)

IsDigit(t, i) == i \in DOMAIN t /\ t[i] \in DOMAIN Digit

(* The digits of a number at i: none, one or two.                           *)
Digits(t, i) == IF ~IsDigit(t, i) THEN 0 ELSE IF IsDigit(t, i + 1) THEN 2 ELSE 1

Number(t, i) == CASE Digits(t, i) = 0 -> -1 [] Digits(t, i) = 1 -> Digit[t[i]]
                  [] OTHER -> 10 * Digit[t[i]] + Digit[t[i + 1]]

(* The color set at i, and how many characters it takes. *)
ColorAt(t, i) ==
  LET n == Digits(t, i + 1)
      comma == i + n + 1
      m == IF n > 0 /\ comma \in DOMAIN t /\ t[comma] = "," THEN Digits(t, comma + 1) ELSE 0
  IN [color |-> Number(t, i + 1),
      bg    |-> IF m = 0 THEN -1 ELSE Number(t, comma + 1),
      taken |-> n + IF m = 0 THEN 0 ELSE m + 1]

(* applymask: a tag is closed if it is open, and opened if it is not. *)
Toggle(s, tag) ==
  IF tag \in s.mask
  THEN [s EXCEPT !.mask = @ \ {tag}, !.out = Append(@, <<"close", tag>>)]
  ELSE [s EXCEPT !.mask = @ \cup {tag}, !.out = Append(@, <<"open", tag>>)]

(* libirc_colorparser_closetags: what is open, in its order. *)
Closed(mask, tag) == IF tag \in mask THEN <<<<"close", tag>>>> ELSE <<>>
Closing(mask) ==
  Closed(mask, "B") \o Closed(mask, "U") \o Closed(mask, "I") \o Closed(mask, "COLOR")

(* A color that is not given.  White, 0, is not written as a background.    *)
Ground(bg) == IF bg = 0 THEN -1 ELSE bg

(* Mutant: every color begins with no background. *)
ApplyColorAfresh(s, c) ==
  LET bg == IF c.bg = -1 THEN 0 ELSE c.bg
  IN [s EXCEPT !.mask = @ \cup {"COLOR"}, !.bg = bg,
               !.out = @ \o Closed(s.mask, "COLOR") \o <<<<"COLOR", c.color, Ground(bg)>>>>]

(* A background once given is kept. *)
ApplyColor(s, c) ==
  LET bg == IF c.bg = -1 THEN s.bg ELSE c.bg
  IN [s EXCEPT !.mask = @ \cup {"COLOR"}, !.bg = bg,
               !.out = @ \o Closed(s.mask, "COLOR") \o <<<<"COLOR", c.color, Ground(bg)>>>>]

(* Mutant: the color stays open. *)
CloseFormats(s) ==
  [s EXCEPT !.mask = @ \cap {"COLOR"}, !.out = @ \o Closing(s.mask \ {"COLOR"})]

CloseTags(s) == [s EXCEPT !.mask = {}, !.out = @ \o Closing(s.mask)]

(* One character of the source, unless a color has taken it. *)
Convert(t, strip, s, i) ==
  LET c == ColorAt(t, i)
      fits == c.color \in 0..MaxColor /\ c.bg <= MaxColor
  IN CASE s.skip > 0 -> [s EXCEPT !.skip = @ - 1]
       [] s.skip = 0 /\ t[i] \in Toggles -> IF strip THEN s ELSE Toggle(s, TagOf[t[i]])
       [] s.skip = 0 /\ t[i] = Reset -> IF strip THEN s ELSE CloseTags(s)
       [] s.skip = 0 /\ t[i] = Color ->
            [(IF strip \/ ~fits THEN s ELSE ApplyColor(s, c)) EXCEPT !.skip = c.taken]
       [] OTHER -> [s EXCEPT !.out = Append(@, <<t[i]>>)]

(* One of the two passes: the first only counts what the second writes.     *)
Passing(t, strip, start) ==
  LET pass[i \in 0..Len(t)] ==
        IF i = 0 THEN start ELSE Convert(t, strip, pass[i - 1], i)
  IN pass

Pass(t, strip, start) == CloseTags(Passing(t, strip, start)[Len(t)])

FirstPass(t, strip) == Pass(t, strip, [mask |-> {}, bg |-> 0, skip |-> 0, out |-> <<>>])

(* The second begins with the mask and the background the first ended with. *)
SecondPass(t, strip) == Pass(t, strip, [FirstPass(t, strip) EXCEPT !.out = <<>>])

FromMirc(t) == SecondPass(t, FALSE).out
Strip(t) == SecondPass(t, TRUE).out

-----------------------------------------------------------------------------
(* irc_color_convert_to_mirc *)

(* The names of the tags, and what replaces them: [/COLOR] is a reset. *)
CONSTANT ColorTags     \* [name -> <<digits, "," and digits>>] of the color tags
Mirc == [n \in {"B", "/B", "U", "/U", "I", "/I", "/COLOR"} \cup DOMAIN ColorTags |->
  CASE n \in {"B", "/B"} -> <<Bold>> [] n \in {"U", "/U"} -> <<Underline>>
    [] n \in {"I", "/I"} -> <<Invert>> [] n = "/COLOR" -> <<Reset>>
    [] OTHER -> <<Color>> \o ColorTags[n]]

(* A number has two digits.  A text is typed from tags and from characters  *)
(* that are neither a control character nor the name of a tag.              *)
TwoDigits == (DOMAIN Digit) \X (DOMAIN Digit)
ASSUME TagAssumption ==
  /\ Toggles \cup {Reset, Color, ",", "[", "]"} \cup DOMAIN Digit \subseteq Char
  /\ "[" \notin DOMAIN ColorTags /\ "]" \notin DOMAIN ColorTags
  /\ \A n \in DOMAIN ColorTags :
       \/ ColorTags[n] \in TwoDigits
       \/ \E a, b \in TwoDigits : ColorTags[n] = a \o <<",">> \o b
  /\ \A p \in TagPieces :
       \/ p \in {"["} \X (DOMAIN Mirc) \X {"]"}
       \/ /\ p \in Seq(Char) /\ Len(p) = 1
          /\ p[1] \notin Toggles \cup {Reset, Color} \cup DOMAIN Mirc

FirstFrom(t, c, i) ==
  LET at == {j \in i..Len(t) : t[j] = c} IN IF at = {} THEN 0 ELSE Min(at)

(* Mutant: what precedes a tag is lost. *)
ReplacedOnly(t, cur, open, close) == Mirc[t[open + 1]]

(* The text before a tag and what replaces the tag. *)
Replaced(t, cur, open, close) == SubSeq(t, cur, open - 1) \o Mirc[t[open + 1]]

(* A bracket that does not enclose a tag is copied with all up to the next  *)
(* closing one; without a closing one, all up to the terminator, which ends *)
(* the result whatever is copied behind it.                                 *)
ToMirc(t) ==
  LET from[cur \in 1..(Len(t) + 1)] ==
        LET open == FirstFrom(t, "[", cur)
            close == IF open = 0 THEN 0 ELSE FirstFrom(t, "]", open)
        IN IF close = 0 THEN SubSeq(t, cur, Len(t))
           ELSE IF close = open + 2 /\ t[open + 1] \in DOMAIN Mirc
           THEN Replaced(t, cur, open, close) \o from[close + 1]
           ELSE SubSeq(t, cur, close) \o from[close + 1]
  IN from[1]

-----------------------------------------------------------------------------
ColorsInit == draft = <<>> /\ kind = "none"

Begin == kind = "none" /\ kind' \in {"mirc", "tags"} /\ UNCHANGED draft

Type ==
  /\ kind # "none" /\ Len(draft) < MaxDraft
  /\ \E p \in IF kind = "mirc" THEN MircPieces ELSE TagPieces : draft' = Append(draft, p)
  /\ UNCHANGED kind

Finish == kind # "none" /\ draft' = <<>> /\ kind' = "none"

ColorsNext == Begin \/ Type \/ Finish

-----------------------------------------------------------------------------
(* What a text looks like: its characters, each with its formats and colors *)
(* (-1 for the default).                                                    *)

Look(c, s) == [char |-> c, formats |-> s.formats, fg |-> s.fg, bg |-> s.bg]
Blank == [formats |-> {}, fg |-> -1, bg |-> -1, skip |-> 0, text |-> <<>>]

(* As mIRC shows it: a control character switches, ^O ends everything, a    *)
(* color keeps the background unless it brings one.                         *)
ShowMirc(t, s, i) ==
  LET c == ColorAt(t, i)
  IN CASE s.skip > 0 -> [s EXCEPT !.skip = @ - 1]
       [] s.skip = 0 /\ t[i] \in Toggles ->
            [s EXCEPT !.formats = (@ \ {TagOf[t[i]]}) \cup ({TagOf[t[i]]} \ @)]
       [] s.skip = 0 /\ t[i] = Reset -> [Blank EXCEPT !.text = s.text]
       [] s.skip = 0 /\ t[i] = Color ->
            [s EXCEPT !.skip = c.taken, !.fg = c.color, !.bg = IF c.bg = -1 THEN @ ELSE c.bg]
       [] OTHER -> [s EXCEPT !.text = Append(@, Look(t[i], s))]

Showing(t) ==
  LET show[i \in 0..Len(t)] == IF i = 0 THEN Blank ELSE ShowMirc(t, show[i - 1], i)
  IN show

Shown(t) == Showing(t)[Len(t)].text

(* As the header describes the tags: everything between two of them.        *)
ShowTag(s, x) ==
  CASE x[1] = "open" -> [s EXCEPT !.formats = @ \cup {x[2]}]
    [] x[1] = "close" /\ x[2] # "COLOR" -> [s EXCEPT !.formats = @ \ {x[2]}]
    [] x[1] = "close" /\ x[2] = "COLOR" -> [s EXCEPT !.fg = -1, !.bg = -1]
    [] x[1] = "COLOR" -> [s EXCEPT !.fg = x[2], !.bg = x[3]]
    [] OTHER -> [s EXCEPT !.text = Append(@, Look(x[1], s))]

Reading(out) ==
  LET read[i \in 0..Len(out)] == IF i = 0 THEN Blank ELSE ShowTag(read[i - 1], out[i])
  IN read

Read(out) == Reading(out)[Len(out)].text

(* The tags of a text that was typed, each with its brackets. *)
Tag(n) ==
  CASE n \in {"B", "U", "I"} -> <<"open", n>>
    [] n = "/B" -> <<"close", "B">> [] n = "/U" -> <<"close", "U">>
    [] n = "/I" -> <<"close", "I">> [] n = "/COLOR" -> <<"close", "COLOR">>
    [] OTHER -> <<"COLOR", Number(ColorTags[n], 1), Number(ColorTags[n], 4)>>

Pieces(ps) == FlattenSeq([i \in DOMAIN ps |->
                IF Len(ps[i]) = 3 /\ ps[i][2] \in DOMAIN Mirc THEN <<Tag(ps[i][2])>>
                ELSE [j \in DOMAIN ps[i] |-> <<ps[i][j]>>]])

-----------------------------------------------------------------------------
Typed == FlattenSeq(draft)
ColorsOf(t) == {i \in DOMAIN t : t[i] = Color}
InRange(t, i) == ColorAt(t, i).color \in 0..MaxColor /\ ColorAt(t, i).bg <= MaxColor
HasBg(t, i) == ColorAt(t, i).bg # -1

(* A background is given by the first of these colors or by none.           *)
NoneOrFirst(t, at) ==
  (\E i \in at : HasBg(t, i)) => \E i \in at : HasBg(t, i) /\ \A j \in at : i <= j

(* What the second pass writes is what the first pass counted, unless a     *)
(* color without a background comes before one with a background: the       *)
(* second pass finds that background still set and writes more.             *)
ConvertedFits ==
  kind = "mirc" /\ NoneOrFirst(Typed, {i \in ColorsOf(Typed) : InRange(Typed, i)}) =>
    SecondPass(Typed, FALSE).out = FirstPass(Typed, FALSE).out

(* A text looks the same with tags as it did with control characters, and   *)
(* has the same characters when it is stripped.  The colors are in range,   *)
(* with numbers; a background is not white (0), is not ended by a reset,    *)
(* and is given by the first color or by none.                              *)
FormatsKept ==
  LET cs == ColorsOf(Typed)
      usual == /\ NoneOrFirst(Typed, cs)
               /\ \A i \in cs : InRange(Typed, i) /\ ColorAt(Typed, i).bg # 0
               /\ (\E i \in cs : HasBg(Typed, i)) /\ (\E i \in cs : ~HasBg(Typed, i))
                    => ~Contains(Typed, Reset)
      shown == Shown(Typed)
  IN kind = "mirc" =>
       /\ Strip(Typed) = [i \in DOMAIN shown |-> <<shown[i].char>>]
       /\ usual => Read(FromMirc(Typed)) = shown

(* What is open before tag i: each format and "COLOR". *)
Open(tags, i) ==
  {tags[j][2] : j \in {k \in 1..(i - 1) :
     tags[k][1] = "open" /\ \A l \in (k + 1)..(i - 1) : tags[l] # <<"close", tags[k][2]>>}}
  \cup {"COLOR" : j \in {k \in 1..(i - 1) :
     tags[k][1] = "COLOR" /\ \A l \in (k + 1)..(i - 1) : tags[l] # <<"close", "COLOR">>}}

(* Tags look the same when they have become control characters.  A format   *)
(* is opened once and then closed, and a color likewise, with nothing else  *)
(* open when it is closed; no comma follows a color without background, and *)
(* no other bracket encloses a tag.                                         *)
TagsKept ==
  LET tags == Pieces(draft)
      usual == \A i \in DOMAIN tags :
        /\ tags[i][1] = "open" => tags[i][2] \notin Open(tags, i)
        /\ tags[i][1] = "close" =>
             /\ tags[i][2] \in Open(tags, i)
             /\ tags[i][2] = "COLOR" => Open(tags, i) = {"COLOR"}
        /\ tags[i][1] = "COLOR" => /\ "COLOR" \notin Open(tags, i)
                                   /\ tags[i][3] = -1 /\ i < Len(tags) => tags[i + 1] # <<",">>
        /\ tags[i] = <<"[">> =>
             \A j \in (i + 1)..Len(tags) : Len(tags[j]) > 1 =>
               \E k \in (i + 1)..(j - 1) : tags[k] = <<"]">>
  IN kind = "tags" /\ usual => Shown(ToMirc(Typed)) = Read(tags)

=============================================================================
