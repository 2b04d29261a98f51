----------------------------- MODULE ColorsProofs -----------------------------
(***************************************************************************)
(* Proofs about Colors, for texts of any length.                           *)
(*                                                                         *)
(* The conversions go through a text character by character, in functions  *)
(* that are recursive over its positions.  What holds of them is shown by  *)
(* the least position where it would fail; that such functions exist at    *)
(* all is shown the same way.  A text with tags is taken piece by piece:   *)
(* what stands at each offset, what each piece becomes (Images), and how   *)
(* the tags are read as their images are shown (Agree).                    *)
(***************************************************************************)
EXTENDS Texts, WellFoundedInduction, SequenceTheorems, TLAPS

(* A set of naturals that is not empty has a least member. *)
LEMMA LeastMember ==
  ASSUME NEW T, T \subseteq Nat, T # {}
  PROVE  \E m \in T : \A i \in T : m <= i
<1> DEFINE Less == OpToRel(<, Nat)
<1>1. IsWellFoundedOn(Less, Nat)
  BY NatLessThanWellFounded
<1>2. \A x, y \in Nat : x < y => <<x, y>> \in Less
  BY DEF OpToRel
<1> HIDE DEF Less
<1>3. PICK m \in T : \A i \in T : ~(<<i, m>> \in Less)
  BY <1>1, WFMin
<1>4. ASSUME NEW i \in T PROVE m <= i
  <2>1. m \in Nat /\ i \in Nat /\ (i < m => <<i, m>> \in Less)
    BY <1>2
  <2>2. ~(<<i, m>> \in Less)
    BY <1>3
  <2> QED
    BY <2>1, <2>2
<1> QED
  BY <1>4

(* So a set that has 0 and with each number the next one has them all.      *)
LEMMA Upwards ==
  ASSUME NEW n \in Nat, NEW T, 0 \in T, \A i \in 1..n : i - 1 \in T => i \in T
  PROVE  0..n \subseteq T
<1> DEFINE Not == (0..n) \ T
<1> SUFFICES ASSUME Not # {} PROVE FALSE
  OBVIOUS
<1>1. PICK m \in Not : \A i \in Not : m <= i
  <2>1. Not \subseteq Nat
    OBVIOUS
  <2> QED
    BY <2>1, LeastMember
<1>2. m \in 1..n /\ m - 1 \in 0..n /\ ~(m <= m - 1)
  BY <1>1
<1>3. m - 1 \in T
  BY <1>1, <1>2
<1> QED
  BY <1>1, <1>2, <1>3

-----------------------------------------------------------------------------
(* The recursive functions. *)

LEMMA PassingIs ==
  ASSUME NEW t, NEW strip, NEW first, Len(t) \in Nat
  PROVE  Passing(t, strip, first) = [i \in 0..Len(t) |->
           IF i = 0 THEN first ELSE Convert(t, strip, Passing(t, strip, first)[i - 1], i)]
<1> DEFINE Step(s, i) == Convert(t, strip, s, i)
           start == first
           Is(f, m) == f = [i \in 0..m |-> IF i = 0 THEN start ELSE Step(f[i - 1], i)]
           T == {m \in Nat : \E f : Is(f, m)}
<1>1. Passing(t, strip, first) = CHOOSE f : Is(f, Len(t))
  BY Zenon DEF Passing
<1> HIDE DEF Step, start
<1>2. 0 \in T
  <2>1. Is([i \in 0..0 |-> start], 0)
    OBVIOUS
  <2> QED
    BY <2>1
<1>3. ASSUME NEW m \in 1..Len(t), m - 1 \in T PROVE m \in T
  <2>1. PICK f : Is(f, m - 1)
    BY <1>3
  <2> DEFINE g == [i \in 0..m |-> IF i < m THEN f[i] ELSE Step(f[m - 1], m)]
  <2>2. ASSUME NEW i \in 0..m PROVE g[i] = IF i = 0 THEN start ELSE Step(g[i - 1], i)
    <3>1. i \in Nat /\ m \in Nat /\ (i # 0 => i - 1 \in 0..m /\ i - 1 < m)
      OBVIOUS
    <3>2. i < m => i \in 0..(m - 1)
      BY <3>1
    <3>3. i # 0 => g[i - 1] = f[i - 1]
      BY <3>1
    <3>4. CASE i < m
      BY <2>1, <3>1, <3>2, <3>3, <3>4
    <3>5. CASE i = m
      BY <3>3, <3>5
    <3> QED
      BY <3>1, <3>4, <3>5
  <2>3. Is(g, m)
    BY <2>2
  <2>4. m \in Nat /\ \E h : Is(h, m)
    <3> HIDE DEF g
    <3> QED
      BY <2>3
  <2> QED
    BY <2>4, Zenon
<1>4. \E f : Is(f, Len(t))
  <2>1. Len(t) \in 0..Len(t)
    OBVIOUS
  <2>2. Len(t) \in T
    <3> HIDE DEF T
    <3> QED
      BY <1>2, <1>3, <2>1, Upwards
  <2> QED
    BY <2>2, Zenon
<1>5. Is(Passing(t, strip, first), Len(t))
  BY <1>1, <1>4, Zenon
<1> QED
  BY <1>5, Zenon DEF Step, start

LEMMA ShowingIs ==
  ASSUME NEW t, Len(t) \in Nat
  PROVE  Showing(t) = [i \in 0..Len(t) |->
           IF i = 0 THEN Blank ELSE ShowMirc(t, Showing(t)[i - 1], i)]
<1> DEFINE Step(s, i) == ShowMirc(t, s, i)
           start == Blank
           Is(f, m) == f = [i \in 0..m |-> IF i = 0 THEN start ELSE Step(f[i - 1], i)]
           T == {m \in Nat : \E f : Is(f, m)}
<1>1. Showing(t) = CHOOSE f : Is(f, Len(t))
  BY Zenon DEF Showing
<1> HIDE DEF Step, start
<1>2. 0 \in T
  <2>1. Is([i \in 0..0 |-> start], 0)
    OBVIOUS
  <2> QED
    BY <2>1
<1>3. ASSUME NEW m \in 1..Len(t), m - 1 \in T PROVE m \in T
  <2>1. PICK f : Is(f, m - 1)
    BY <1>3
  <2> DEFINE g == [i \in 0..m |-> IF i < m THEN f[i] ELSE Step(f[m - 1], m)]
  <2>2. ASSUME NEW i \in 0..m PROVE g[i] = IF i = 0 THEN start ELSE Step(g[i - 1], i)
    <3>1. i \in Nat /\ m \in Nat /\ (i # 0 => i - 1 \in 0..m /\ i - 1 < m)
      OBVIOUS
    <3>2. i < m => i \in 0..(m - 1)
      BY <3>1
    <3>3. i # 0 => g[i - 1] = f[i - 1]
      BY <3>1
    <3>4. CASE i < m
      BY <2>1, <3>1, <3>2, <3>3, <3>4
    <3>5. CASE i = m
      BY <3>3, <3>5
    <3> QED
      BY <3>1, <3>4, <3>5
  <2>3. Is(g, m)
    BY <2>2
  <2>4. m \in Nat /\ \E h : Is(h, m)
    <3> HIDE DEF g
    <3> QED
      BY <2>3
  <2> QED
    BY <2>4, Zenon
<1>4. \E f : Is(f, Len(t))
  <2>1. Len(t) \in 0..Len(t)
    OBVIOUS
  <2>2. Len(t) \in T
    <3> HIDE DEF T
    <3> QED
      BY <1>2, <1>3, <2>1, Upwards
  <2> QED
    BY <2>2, Zenon
<1>5. Is(Showing(t), Len(t))
  BY <1>1, <1>4, Zenon
<1> QED
  BY <1>5, Zenon DEF Step, start

LEMMA ReadingIs ==
  ASSUME NEW out, Len(out) \in Nat
  PROVE  Reading(out) = [i \in 0..Len(out) |->
           IF i = 0 THEN Blank ELSE ShowTag(Reading(out)[i - 1], out[i])]
<1> DEFINE Step(s, i) == ShowTag(s, out[i])
           start == Blank
           Is(f, m) == f = [i \in 0..m |-> IF i = 0 THEN start ELSE Step(f[i - 1], i)]
           T == {m \in Nat : \E f : Is(f, m)}
<1>1. Reading(out) = CHOOSE f : Is(f, Len(out))
  BY Zenon DEF Reading
<1> HIDE DEF Step, start
<1>2. 0 \in T
  <2>1. Is([i \in 0..0 |-> start], 0)
    OBVIOUS
  <2> QED
    BY <2>1
<1>3. ASSUME NEW m \in 1..Len(out), m - 1 \in T PROVE m \in T
  <2>1. PICK f : Is(f, m - 1)
    BY <1>3
  <2> DEFINE g == [i \in 0..m |-> IF i < m THEN f[i] ELSE Step(f[m - 1], m)]
  <2>2. ASSUME NEW i \in 0..m PROVE g[i] = IF i = 0 THEN start ELSE Step(g[i - 1], i)
    <3>1. i \in Nat /\ m \in Nat /\ (i # 0 => i - 1 \in 0..m /\ i - 1 < m)
      OBVIOUS
    <3>2. i < m => i \in 0..(m - 1)
      BY <3>1
    <3>3. i # 0 => g[i - 1] = f[i - 1]
      BY <3>1
    <3>4. CASE i < m
      BY <2>1, <3>1, <3>2, <3>3, <3>4
    <3>5. CASE i = m
      BY <3>3, <3>5
    <3> QED
      BY <3>1, <3>4, <3>5
  <2>3. Is(g, m)
    BY <2>2
  <2>4. m \in Nat /\ \E h : Is(h, m)
    <3> HIDE DEF g
    <3> QED
      BY <2>3
  <2> QED
    BY <2>4, Zenon
<1>4. \E f : Is(f, Len(out))
  <2>1. Len(out) \in 0..Len(out)
    OBVIOUS
  <2>2. Len(out) \in T
    <3> HIDE DEF T
    <3> QED
      BY <1>2, <1>3, <2>1, Upwards
  <2> QED
    BY <2>2, Zenon
<1>5. Is(Reading(out), Len(out))
  BY <1>1, <1>4, Zenon
<1> QED
  BY <1>5, Zenon DEF Step, start

-----------------------------------------------------------------------------
(* One character. *)

Tags == {"B", "U", "I", "COLOR"}
Item == {<<c>> : c \in Char} \cup ({"open", "close"} \X Tags) \cup ({"COLOR"} \X Int \X Int)
State == [mask : SUBSET Tags, bg : Int, skip : Nat, out : Seq(Item)]

LEMMA DigitsIs ==
  ASSUME NEW t \in Seq(Char), NEW i \in Int
  PROVE  /\ Digits(t, i) \in 0..2
         /\ \A j \in i..(i + Digits(t, i) - 1) : j \in 1..Len(t) /\ t[j] \in DOMAIN Digit
         /\ Number(t, i) \in Int /\ Number(t, i) >= -1
         /\ Number(t, i) = -1 <=> Digits(t, i) = 0
<1>1. Len(t) \in Nat /\ DOMAIN t = 1..Len(t)
  OBVIOUS
<1>2. \A j \in Int : IsDigit(t, j) =>
        j \in 1..Len(t) /\ t[j] \in DOMAIN Digit /\ Digit[t[j]] \in Nat
  BY <1>1, DigitAssumption DEF IsDigit
<1>3. CASE ~IsDigit(t, i)
  BY <1>3 DEF Digits, Number
<1>4. CASE IsDigit(t, i) /\ ~IsDigit(t, i + 1)
  <2>1. Digits(t, i) = 1 /\ Number(t, i) = Digit[t[i]]
    BY <1>4 DEF Digits, Number
  <2> QED
    BY <1>2, <1>4, <2>1
<1>5. CASE IsDigit(t, i) /\ IsDigit(t, i + 1)
  <2>1. Digits(t, i) = 2 /\ Number(t, i) = 10 * Digit[t[i]] + Digit[t[i + 1]]
    BY <1>5 DEF Digits, Number
  <2>2. Digit[t[i]] \in Nat /\ Digit[t[i + 1]] \in Nat
    BY <1>2, <1>5
  <2>3. \A j \in i..(i + 1) : j = i \/ j = i + 1
    OBVIOUS
  <2>4. \A j \in i..(i + 1) : j \in 1..Len(t) /\ t[j] \in DOMAIN Digit
    BY <1>2, <1>5, <2>3
  <2> QED
    BY <2>1, <2>2, <2>4
<1> QED
  BY <1>3, <1>4, <1>5

(* A color ends within the text, and no other begins in it. *)
LEMMA ColorAtIs ==
  ASSUME NEW t \in Seq(Char), NEW i \in 1..Len(t)
  PROVE  LET c == ColorAt(t, i)
         IN /\ c.color \in Int /\ c.bg \in Int /\ c.bg >= -1
            /\ c.taken \in 0..(Len(t) - i)
            /\ \A j \in (i + 1)..(i + c.taken) : t[j] # Color
<1> DEFINE n == Digits(t, i + 1)
           comma == i + n + 1
           m == IF n > 0 /\ comma \in DOMAIN t /\ t[comma] = "," THEN Digits(t, comma + 1) ELSE 0
           c == ColorAt(t, i)
<1>1. Len(t) \in Nat /\ DOMAIN t = 1..Len(t) /\ i \in Int /\ i >= 1 /\ i <= Len(t)
  OBVIOUS
<1> DEFINE D(k) == Digits(t, k)
<1>A. \A k \in Int :
        /\ D(k) \in 0..2
        /\ \A j \in k..(k + D(k) - 1) : j \in 1..Len(t) /\ t[j] \in DOMAIN Digit
  BY DigitsIs
<1>2. n \in 0..2 /\ \A j \in (i + 1)..(i + n) : j \in 1..Len(t) /\ t[j] \in DOMAIN Digit
  <2>1. i + 1 \in Int /\ D(i + 1) \in 0..2
    BY <1>A, <1>1
  <2>2. i + 1 + D(i + 1) - 1 = i + D(i + 1)
    BY <1>1, <2>1
  <2> QED
    BY <1>A, <2>1, <2>2
<1>3. comma \in Int /\ m \in 0..2
  <2>1. comma \in Int
    BY <1>2
  <2>2. m = 0 \/ m = D(comma + 1)
    OBVIOUS
  <2> HIDE DEF n, comma, m, D
  <2> QED
    BY <1>A, <2>1, <2>2
<1>4. /\ c.color = Number(t, i + 1) /\ c.bg = IF m = 0 THEN -1 ELSE Number(t, comma + 1)
      /\ c.taken = n + IF m = 0 THEN 0 ELSE m + 1
  BY DEF ColorAt
<1>5. m > 0 => comma \in 1..Len(t) /\ t[comma] = "," /\ m = D(comma + 1)
  <2> DEFINE both == n > 0 /\ comma \in DOMAIN t /\ t[comma] = ","
  <2>1. CASE ~both
    <3>1. m = 0
      BY <2>1
    <3> HIDE DEF m
    <3>2. ~(m > 0)
      BY <3>1
    <3> QED
      BY <3>2, Zenon
  <2>2. CASE both
    BY <1>1, <2>2
  <2> QED
    BY <2>1, <2>2
<1> HIDE DEF D, n, comma, m, c
<1>6. m > 0 => \A j \in (comma + 1)..(comma + m) : j \in 1..Len(t) /\ t[j] \in DOMAIN Digit
  <2>1. comma + 1 \in Int /\ comma + 1 + m - 1 = comma + m
    BY <1>3
  <2> QED
    BY <1>A, <1>5, <2>1
<1>7. c.color \in Int /\ c.bg \in Int /\ c.bg >= -1
  BY <1>1, <1>3, <1>4, DigitsIs
<1>8. ASSUME NEW j \in (i + 1)..(i + c.taken) PROVE j <= Len(t) /\ t[j] # Color
  <2>1. comma = i + n + 1
    BY DEF comma
  <2>2. CASE j <= i + n
    BY <1>1, <1>2, <2>2, DigitAssumption
  <2>3. CASE j = comma /\ m > 0
    <3>1. t[j] = ","
      BY <1>5, <2>3
    <3>2. "," # Color
      BY DEF Color
    <3>3. t[j] # Color
      BY <3>1, <3>2, Zenon
    <3>4. j \in 1..Len(t)
      BY <1>5, <2>3
    <3>5. j <= Len(t)
      BY <1>1, <3>4
    <3> QED
      BY <3>3, <3>5
  <2>4. CASE j > comma /\ m > 0
    <3>1. j \in (comma + 1)..(comma + m)
      BY <1>1, <1>2, <1>3, <1>4, <2>1, <2>4
    <3> QED
      BY <1>6, <2>4, <3>1, DigitAssumption
  <2>5. m = 0 => j <= i + n
    BY <1>1, <1>2, <1>4
  <2> QED
    BY <1>1, <1>2, <1>3, <2>1, <2>2, <2>3, <2>4, <2>5
<1>9. c.taken \in 0..(Len(t) - i)
  <2>1. c.taken \in Nat
    BY <1>2, <1>3, <1>4
  <2>2. c.taken > 0 => i + c.taken \in (i + 1)..(i + c.taken)
    BY <1>1, <2>1
  <2>3. c.taken > 0 => i + c.taken <= Len(t)
    BY <1>8, <2>2
  <2> QED
    BY <1>1, <2>1, <2>3
<1> QED
  BY <1>7, <1>8, <1>9 DEF c

LEMMA ControlCharacters ==
  /\ Reset \notin Toggles /\ Color \notin Toggles /\ Color # Reset
  /\ \A x \in Toggles : TagOf[x] \in {"B", "U", "I"}
<1>1. Reset \notin Toggles /\ Color \notin Toggles /\ Color # Reset
  BY DEF Toggles, Bold, Underline, Invert, Reset, Color
<1>2. ASSUME NEW x \in Toggles PROVE TagOf[x] \in {"B", "U", "I"}
  <2>1. TagOf[x] = CASE x = Bold -> "B" [] x = Underline -> "U" [] OTHER -> "I"
    BY <1>2, Zenon DEF TagOf
  <2> QED
    BY <2>1, Zenon
<1> QED
  BY <1>1, <1>2

(* Which case of Convert applies. *)
LEMMA ConvertIs ==
  ASSUME NEW t, NEW strip \in BOOLEAN, NEW s, NEW i, s.skip \in Nat
  PROVE  LET r == Convert(t, strip, s, i)
         IN /\ s.skip > 0 => r = [s EXCEPT !.skip = @ - 1]
            /\ s.skip = 0 =>
                 /\ t[i] \in Toggles => r = IF strip THEN s ELSE Toggle(s, TagOf[t[i]])
                 /\ t[i] = Reset => r = IF strip THEN s ELSE CloseTags(s)
                 /\ t[i] = Color =>
                      r = [(IF strip \/ ~InRange(t, i) THEN s ELSE ApplyColor(s, ColorAt(t, i)))
                           EXCEPT !.skip = ColorAt(t, i).taken]
                 /\ t[i] \notin Toggles \cup {Reset, Color} =>
                      r = [s EXCEPT !.out = Append(@, <<t[i]>>)]
<1>1. /\ Reset \notin Toggles /\ Color \notin Toggles /\ Color # Reset
      /\ (s.skip > 0 => s.skip # 0) /\ (s.skip = 0 => ~(s.skip > 0)) /\ (s.skip > 0 \/ s.skip = 0)
  BY ControlCharacters
<1> DEFINE r == Convert(t, strip, s, i)
<1>2. CASE s.skip > 0
  <2>1. r = [s EXCEPT !.skip = @ - 1]
    BY <1>1, <1>2, Zenon DEF Convert
  <2> QED
    BY <1>1, <1>2, <2>1, Zenon
<1>3. CASE s.skip = 0 /\ t[i] \in Toggles
  <2>1. r = IF strip THEN s ELSE Toggle(s, TagOf[t[i]])
    BY <1>1, <1>3, Zenon DEF Convert
  <2> QED
    BY <1>1, <1>3, <2>1, Zenon
<1>4. CASE s.skip = 0 /\ t[i] = Reset
  <2>1. r = IF strip THEN s ELSE CloseTags(s)
    BY <1>1, <1>4, Zenon DEF Convert
  <2> QED
    BY <1>1, <1>4, <2>1, Zenon
<1>5. CASE s.skip = 0 /\ t[i] = Color
  <2>1. r = [(IF strip \/ ~InRange(t, i) THEN s ELSE ApplyColor(s, ColorAt(t, i)))
             EXCEPT !.skip = ColorAt(t, i).taken]
    BY <1>1, <1>5, Zenon DEF Convert, InRange
  <2> QED
    BY <1>1, <1>5, <2>1, Zenon
<1>6. CASE s.skip = 0 /\ t[i] \notin Toggles \cup {Reset, Color}
  <2>1. r = [s EXCEPT !.out = Append(@, <<t[i]>>)]
    BY <1>1, <1>6, Zenon DEF Convert
  <2> QED
    BY <1>1, <1>6, <2>1, Zenon
<1> QED
  BY <1>1, <1>2, <1>3, <1>4, <1>5, <1>6, Zenon

LEMMA StateIs ==
  ASSUME NEW mask \in SUBSET Tags, NEW bg \in Int, NEW skip \in Nat, NEW out \in Seq(Item)
  PROVE  [mask |-> mask, bg |-> bg, skip |-> skip, out |-> out] \in State
BY DEF State

LEMMA Items ==
  /\ \A c \in Char : <<c>> \in Item
  /\ \A tag \in Tags : <<"open", tag>> \in Item /\ <<"close", tag>> \in Item
  /\ \A fg, bg \in Int : <<"COLOR", fg, bg>> \in Item
BY DEF Item

LEMMA OneItem == ASSUME NEW x \in Item PROVE <<x>> \in Seq(Item)
OBVIOUS

LEMMA ClosingIs ==
  ASSUME NEW mask
  PROVE  Closing(mask) \in Seq(Item) /\ \A tag \in Tags : Closed(mask, tag) \in Seq(Item)
<1>1. ASSUME NEW tag \in Tags PROVE Closed(mask, tag) \in Seq(Item)
  <2>1. <<<<"close", tag>>>> \in Seq(Item)
    BY Items, OneItem
  <2> QED
    BY <2>1, EmptySeq DEF Closed
<1>2. /\ Closed(mask, "B") \in Seq(Item) /\ Closed(mask, "U") \in Seq(Item)
      /\ Closed(mask, "I") \in Seq(Item) /\ Closed(mask, "COLOR") \in Seq(Item)
  BY <1>1 DEF Tags
<1>3. Closed(mask, "B") \o Closed(mask, "U") \in Seq(Item)
  BY <1>2, ConcatProperties
<1>4. Closed(mask, "B") \o Closed(mask, "U") \o Closed(mask, "I") \in Seq(Item)
  BY <1>2, <1>3, ConcatProperties
<1>5. Closing(mask) \in Seq(Item)
  BY <1>2, <1>4, ConcatProperties DEF Closing
<1> QED
  BY <1>1, <1>5

LEMMA ToggleIs ==
  ASSUME NEW s \in State, NEW tag \in {"B", "U", "I"}
  PROVE  LET r == Toggle(s, tag)
         IN /\ r \in State /\ r.bg = s.bg /\ r.skip = s.skip
            /\ tag \in s.mask => /\ r.mask = s.mask \ {tag}
                                 /\ r.out = Append(s.out, <<"close", tag>>)
            /\ tag \notin s.mask => /\ r.mask = s.mask \cup {tag}
                                    /\ r.out = Append(s.out, <<"open", tag>>)
<1>1. /\ tag \in Tags /\ s.mask \in SUBSET Tags /\ s.bg \in Int /\ s.skip \in Nat
      /\ s.out \in Seq(Item)
  BY DEF State, Tags
<1>2. Append(s.out, <<"close", tag>>) \in Seq(Item) /\ Append(s.out, <<"open", tag>>) \in Seq(Item)
  BY <1>1, Items, AppendProperties
<1>3. CASE tag \in s.mask
  BY <1>1, <1>2, <1>3 DEF Toggle, State
<1>4. CASE tag \notin s.mask
  BY <1>1, <1>2, <1>4 DEF Toggle, State
<1> QED
  BY <1>3, <1>4

LEMMA CloseTagsIs ==
  ASSUME NEW s \in State
  PROVE  LET r == CloseTags(s)
         IN /\ r \in State /\ r.mask = {} /\ r.bg = s.bg /\ r.skip = s.skip
            /\ r.out = s.out \o Closing(s.mask)
<1>1. s.mask \in SUBSET Tags /\ s.bg \in Int /\ s.skip \in Nat /\ s.out \in Seq(Item)
  BY DEF State
<1>2. s.out \o Closing(s.mask) \in Seq(Item)
  BY <1>1, ClosingIs, ConcatProperties
<1> QED
  BY <1>1, <1>2 DEF CloseTags, State

Painted(s, c) == IF c.bg = -1 THEN s.bg ELSE c.bg

LEMMA ApplyColorIs ==
  ASSUME NEW s \in State, NEW c, c.color \in Int, c.bg \in Int
  PROVE  LET r == ApplyColor(s, c)
         IN /\ r \in State /\ r.mask = s.mask \cup {"COLOR"} /\ r.bg = Painted(s, c)
            /\ r.skip = s.skip
            /\ r.out = Append(s.out \o Closed(s.mask, "COLOR"),
                               <<"COLOR", c.color, Ground(Painted(s, c))>>)
<1>1. /\ s.mask \in SUBSET Tags /\ s.bg \in Int /\ s.skip \in Nat /\ s.out \in Seq(Item)
      /\ "COLOR" \in Tags
  BY DEF State, Tags
<1>2. Painted(s, c) \in Int /\ Ground(Painted(s, c)) \in Int
  BY <1>1 DEF Painted, Ground
<1>3. s.out \o Closed(s.mask, "COLOR") \in Seq(Item)
  BY <1>1, ClosingIs, ConcatProperties
<1>4. <<"COLOR", c.color, Ground(Painted(s, c))>> \in Item
  BY <1>2, Items
<1> DEFINE before == s.out \o Closed(s.mask, "COLOR")
           tag == <<"COLOR", c.color, Ground(Painted(s, c))>>
<1>5. ApplyColor(s, c) = [s EXCEPT !.mask = @ \cup {"COLOR"}, !.bg = Painted(s, c),
                                   !.out = before \o <<tag>>]
  BY DEF ApplyColor, Painted
<1> HIDE DEF before, tag
<1>6. before \o <<tag>> = Append(before, tag) /\ Append(before, tag) \in Seq(Item)
  <2>1. before \in Seq(Item) /\ tag \in Item
    BY <1>3, <1>4 DEF before, tag
  <2> QED
    BY <2>1, AppendIsConcat, AppendProperties
<1>7. s.mask \cup {"COLOR"} \in SUBSET Tags
  BY <1>1
<1>8. LET r == ApplyColor(s, c)
      IN /\ r \in State /\ r.mask = s.mask \cup {"COLOR"} /\ r.bg = Painted(s, c)
         /\ r.skip = s.skip /\ r.out = Append(before, tag)
  BY <1>1, <1>2, <1>5, <1>6, <1>7 DEF State
<1> QED
  BY <1>8 DEF before, tag

(* What is still to be skipped is in the text, and no color begins there.   *)
Ahead(t, i, s) == s.skip <= Len(t) - i /\ \A j \in (i + 1)..(i + s.skip) : t[j] # Color

(* A color was applied, with what it is. *)
Applies(t, strip, s, i) == s.skip = 0 /\ t[i] = Color /\ ~strip /\ InRange(t, i)

LEMMA ConvertColor ==
  ASSUME NEW t \in Seq(Char), NEW strip \in BOOLEAN, NEW s \in State, NEW i \in 1..Len(t),
         s.skip = 0, t[i] = Color
  PROVE  LET r == Convert(t, strip, s, i)
             a == ApplyColor(s, ColorAt(t, i))
         IN /\ r \in State /\ r.skip = ColorAt(t, i).taken
            /\ Applies(t, strip, s, i) => r.mask = a.mask /\ r.bg = a.bg /\ r.out = a.out
            /\ ~Applies(t, strip, s, i) => r.mask = s.mask /\ r.bg = s.bg /\ r.out = s.out
<1> DEFINE c == ColorAt(t, i)
           a == ApplyColor(s, c)
           r == Convert(t, strip, s, i)
<1>1. c.color \in Int /\ c.bg \in Int /\ c.taken \in Nat
  BY ColorAtIs
<1>2. a \in State
  BY <1>1, ApplyColorIs
<1>3. r = [(IF strip \/ ~InRange(t, i) THEN s ELSE a) EXCEPT !.skip = c.taken]
  BY ConvertIs DEF State
<1>4. CASE Applies(t, strip, s, i)
  <2>1. r = [a EXCEPT !.skip = c.taken]
    BY <1>3, <1>4, Zenon DEF Applies
  <2> HIDE DEF a, r, c
  <2>2. r \in State /\ r.skip = c.taken /\ r.mask = a.mask /\ r.bg = a.bg /\ r.out = a.out
    BY <1>1, <1>2, <2>1 DEF State
  <2> QED
    BY <1>4, <2>2, Zenon DEF a, r, c
<1>5. CASE ~Applies(t, strip, s, i)
  <2>1. r = [s EXCEPT !.skip = c.taken]
    BY <1>3, <1>5, Zenon DEF Applies
  <2> HIDE DEF a, r, c
  <2>2. r \in State /\ r.skip = c.taken /\ r.mask = s.mask /\ r.bg = s.bg /\ r.out = s.out
    BY <1>1, <2>1 DEF State
  <2> QED
    BY <1>5, <2>2, Zenon DEF a, r, c
<1> QED
  BY <1>4, <1>5, Zenon

(* Everything but a color: the background stays, nothing is skipped. *)
LEMMA ConvertOther ==
  ASSUME NEW t \in Seq(Char), NEW strip \in BOOLEAN, NEW s \in State, NEW i \in 1..Len(t),
         s.skip = 0, t[i] # Color
  PROVE  LET r == Convert(t, strip, s, i)
         IN r \in State /\ r.skip = 0 /\ r.bg = s.bg
<1> DEFINE r == Convert(t, strip, s, i)
<1>1. t[i] \in Char /\ s.out \in Seq(Item) /\ s.skip \in Nat
  BY ElementOfSeq DEF State
<1>2. CASE t[i] \in Toggles
  <2>1. r = s \/ r = Toggle(s, TagOf[t[i]])
    BY <1>1, <1>2, ConvertIs
  <2>2. TagOf[t[i]] \in {"B", "U", "I"}
    BY <1>2, ControlCharacters
  <2> HIDE DEF r
  <2>3. r \in State /\ r.skip = 0 /\ r.bg = s.bg
    BY <2>1, <2>2, ToggleIs
  <2> QED
    BY <2>3, Zenon DEF r
<1>3. CASE t[i] = Reset
  <2>1. r = s \/ r = CloseTags(s)
    BY <1>1, <1>3, ConvertIs
  <2> HIDE DEF r
  <2>3. r \in State /\ r.skip = 0 /\ r.bg = s.bg
    BY <2>1, CloseTagsIs
  <2> QED
    BY <2>3, Zenon DEF r
<1>4. CASE t[i] \notin Toggles \cup {Reset, Color}
  <2>1. r = [s EXCEPT !.out = Append(@, <<t[i]>>)]
    BY <1>1, <1>4, ConvertIs
  <2>2. Append(s.out, <<t[i]>>) \in Seq(Item)
    BY <1>1, Items, AppendProperties
  <2> HIDE DEF r
  <2>3. r \in State /\ r.skip = 0 /\ r.bg = s.bg
    BY <2>1, <2>2 DEF State
  <2> QED
    BY <2>3, Zenon DEF r
<1> QED
  BY <1>2, <1>3, <1>4, Zenon

LEMMA ConvertSkips ==
  ASSUME NEW t \in Seq(Char), NEW strip \in BOOLEAN, NEW s \in State, NEW i \in 1..Len(t),
         s.skip > 0
  PROVE  LET r == Convert(t, strip, s, i)
         IN /\ r \in State /\ r.skip = s.skip - 1
            /\ r.mask = s.mask /\ r.bg = s.bg /\ r.out = s.out
<1> DEFINE r == Convert(t, strip, s, i)
<1>1. r = [s EXCEPT !.skip = @ - 1]
  BY ConvertIs DEF State
<1>2. s.skip - 1 \in Nat
  BY DEF State
<1> HIDE DEF r
<1>3. /\ r \in State /\ r.skip = s.skip - 1
      /\ r.mask = s.mask /\ r.bg = s.bg /\ r.out = s.out
  BY <1>1, <1>2 DEF State
<1> QED
  BY <1>3, Zenon DEF r

LEMMA ConvertTyped ==
  ASSUME NEW t \in Seq(Char), NEW strip \in BOOLEAN, NEW s \in State, NEW i \in 1..Len(t),
         Ahead(t, i - 1, s)
  PROVE  LET r == Convert(t, strip, s, i) IN r \in State /\ Ahead(t, i, r)
<1> DEFINE r == Convert(t, strip, s, i)
<1>1. Len(t) \in Nat /\ i \in Nat /\ i <= Len(t) /\ s.skip \in Nat
  BY DEF State
<1>2. CASE s.skip > 0
  <2>1. r \in State /\ r.skip = s.skip - 1
    BY <1>2, ConvertSkips
  <2> HIDE DEF r
  <2>2. /\ r.skip <= Len(t) - i
        /\ \A j \in (i + 1)..(i + r.skip) : j \in (i - 1 + 1)..(i - 1 + s.skip)
    BY <1>1, <2>1 DEF Ahead
  <2> QED
    BY <2>1, <2>2, Zenon DEF Ahead, r
<1>3. CASE s.skip = 0 /\ t[i] = Color
  <2>1. r \in State /\ r.skip = ColorAt(t, i).taken
    BY <1>3, ConvertColor
  <2>2. /\ ColorAt(t, i).taken \in 0..(Len(t) - i)
        /\ \A j \in (i + 1)..(i + ColorAt(t, i).taken) : t[j] # Color
    BY ColorAtIs
  <2> HIDE DEF r
  <2>3. r.skip <= Len(t) - i
    BY <1>1, <2>1, <2>2
  <2> QED
    BY <2>1, <2>2, <2>3, Zenon DEF Ahead, r
<1>4. CASE s.skip = 0 /\ t[i] # Color
  <2>1. r \in State /\ r.skip = 0
    BY <1>4, ConvertOther
  <2> HIDE DEF r
  <2>2. r.skip <= Len(t) - i /\ (i + 1)..(i + r.skip) = {}
    BY <1>1, <2>1
  <2> QED
    BY <2>1, <2>2, Zenon DEF Ahead, r
<1> QED
  BY <1>1, <1>2, <1>3, <1>4

-----------------------------------------------------------------------------
(* A pass. *)

LEMMA PassingStep ==
  ASSUME NEW t \in Seq(Char), NEW strip \in BOOLEAN, NEW first
  PROVE  LET p == Passing(t, strip, first)
         IN p[0] = first /\ \A i \in 1..Len(t) : p[i] = Convert(t, strip, p[i - 1], i)
<1> DEFINE p == Passing(t, strip, first)
<1>1. Len(t) \in Nat
  OBVIOUS
<1>2. p = [i \in 0..Len(t) |-> IF i = 0 THEN first ELSE Convert(t, strip, p[i - 1], i)]
  BY <1>1, PassingIs
<1> HIDE DEF p
<1>3. 0 \in 0..Len(t) /\ \A i \in 1..Len(t) : i \in 0..Len(t) /\ i # 0
  BY <1>1
<1>4. p[0] = first /\ \A i \in 1..Len(t) : p[i] = Convert(t, strip, p[i - 1], i)
  BY <1>2, <1>3, Zenon
<1> QED
  BY <1>4, Zenon DEF p

LEMMA PassingTyped ==
  ASSUME NEW t \in Seq(Char), NEW strip \in BOOLEAN, NEW first \in State, first.skip = 0
  PROVE  LET p == Passing(t, strip, first)
         IN \A i \in 0..Len(t) : p[i] \in State /\ Ahead(t, i, p[i])
<1> DEFINE p == Passing(t, strip, first)
           Good(i) == p[i] \in State /\ Ahead(t, i, p[i])
           T == {i \in 0..Len(t) : Good(i)}
<1>1. p[0] = first /\ \A i \in 1..Len(t) : p[i] = Convert(t, strip, p[i - 1], i)
  BY PassingStep
<1> HIDE DEF p
<1>2. Len(t) \in Nat
  OBVIOUS
<1>3. 0 \in T
  <2>1. Ahead(t, 0, first)
    BY <1>2 DEF Ahead
  <2> QED
    BY <1>1, <1>2, <2>1
<1>4. ASSUME NEW i \in 1..Len(t), i - 1 \in T PROVE i \in T
  <2>1. Good(i - 1)
    BY <1>4
  <2>2. Good(i)
    BY <1>1, <2>1, ConvertTyped, Zenon
  <2>3. i \in 0..Len(t)
    BY <1>2
  <2> QED
    BY <2>2, <2>3, Zenon
<1>5. 0..Len(t) \subseteq T
  <2> HIDE DEF T
  <2> QED
    BY <1>2, <1>3, <1>4, Upwards
<1> QED
  BY <1>5, Zenon DEF p

Start == [mask |-> {}, bg |-> 0, skip |-> 0, out |-> <<>>]

LEMMA StartIs ==
  Start \in State /\ Start.skip = 0 /\ Start.bg = 0 /\ Start.mask = {} /\ Start.out = <<>>
<1>1. <<>> \in Seq(Item)
  OBVIOUS
<1> QED
  BY <1>1 DEF Start, State

(* A pass closes all tags, and has nothing to skip at its end. *)
LEMMA PassIs ==
  ASSUME NEW t \in Seq(Char), NEW strip \in BOOLEAN, NEW first \in State, first.skip = 0
  PROVE  LET r == Pass(t, strip, first)
             last == Passing(t, strip, first)[Len(t)]
         IN /\ r \in State /\ r.mask = {} /\ r.skip = 0 /\ r.bg = last.bg
            /\ r.out = last.out \o Closing(last.mask)
<1> DEFINE last == Passing(t, strip, first)[Len(t)]
           r == Pass(t, strip, first)
<1>1. Len(t) \in Nat /\ Len(t) \in 0..Len(t) /\ Len(t) - Len(t) = 0
  OBVIOUS
<1>2. last \in State /\ Ahead(t, Len(t), last)
  BY <1>1, PassingTyped, Zenon
<1>3. r = CloseTags(last)
  BY Zenon DEF Pass
<1> HIDE DEF last, r
<1>4. last.skip = 0
  BY <1>1, <1>2 DEF Ahead, State
<1>5. /\ r \in State /\ r.mask = {} /\ r.skip = 0 /\ r.bg = last.bg
      /\ r.out = last.out \o Closing(last.mask)
  BY <1>2, <1>3, <1>4, CloseTagsIs
<1> QED
  BY <1>5, Zenon DEF r, last

-----------------------------------------------------------------------------
(* The two passes. *)

ValidColors(t) == {i \in ColorsOf(t) : InRange(t, i)}

(* The background changes only with a color that brings one. *)
LEMMA BgKeeps ==
  ASSUME NEW t \in Seq(Char), NEW strip \in BOOLEAN, NEW s \in State, NEW i \in 1..Len(t),
         i \notin ValidColors(t) \/ ~HasBg(t, i) \/ strip
  PROVE  Convert(t, strip, s, i).bg = s.bg
<1>1. i \in DOMAIN t /\ s.skip \in Nat
  BY DEF State
<1>2. CASE s.skip > 0
  BY <1>2, ConvertSkips
<1>3. CASE s.skip = 0 /\ t[i] # Color
  BY <1>3, ConvertOther
<1>4. CASE s.skip = 0 /\ t[i] = Color
  <2>1. CASE ~Applies(t, strip, s, i)
    BY <1>4, <2>1, ConvertColor
  <2>2. CASE Applies(t, strip, s, i)
    <3>1. ~HasBg(t, i)
      BY <1>1, <2>2, Zenon DEF Applies, ValidColors, ColorsOf
    <3>2. Painted(s, ColorAt(t, i)) = s.bg
      BY <3>1 DEF Painted, HasBg
    <3>3. ColorAt(t, i).color \in Int /\ ColorAt(t, i).bg \in Int
      BY ColorAtIs
    <3>4. ApplyColor(s, ColorAt(t, i)).bg = s.bg
      BY <3>2, <3>3, ApplyColorIs
    <3> QED
      BY <1>4, <2>2, <3>4, ConvertColor
  <2> QED
    BY <2>1, <2>2
<1> QED
  BY <1>1, <1>2, <1>3, <1>4

(* Two states that differ in the background only go on alike as long as no  *)
(* color is applied, and are one after a color that brings a background.    *)
Alike(a, b) == a.mask = b.mask /\ a.skip = b.skip /\ a.out = b.out

LEMMA AlikeIs ==
  ASSUME NEW a \in State, NEW b \in State, Alike(a, b), a.bg = b.bg
  PROVE  a = b
BY DEF State, Alike

LEMMA AlikeKeeps ==
  ASSUME NEW t \in Seq(Char), NEW strip \in BOOLEAN, NEW i \in 1..Len(t),
         NEW a \in State, NEW b \in State, Alike(a, b),
         a.skip > 0 \/ i \notin ValidColors(t) \/ HasBg(t, i)
  PROVE  LET ra == Convert(t, strip, a, i)
             rb == Convert(t, strip, b, i)
         IN Alike(ra, rb) /\ (Applies(t, strip, a, i) => ra = rb)
<1> DEFINE ra == Convert(t, strip, a, i)
           rb == Convert(t, strip, b, i)
           c == ColorAt(t, i)
<1>1. a.skip \in Nat /\ a.skip = b.skip /\ i \in DOMAIN t
  BY DEF State, Alike
<1>2. CASE a.skip > 0
  <2>1. Alike(ra, rb)
    BY <1>1, <1>2, ConvertSkips DEF Alike
  <2>2. ~Applies(t, strip, a, i)
    BY <1>1, <1>2 DEF Applies
  <2> QED
    BY <2>1, <2>2, Zenon
<1>3. CASE a.skip = 0 /\ t[i] = Color
  <2>1. /\ ra \in State /\ rb \in State /\ ra.skip = rb.skip
        /\ Applies(t, strip, a, i) <=> Applies(t, strip, b, i)
    <3>1. b.skip = 0
      BY <1>1, <1>3
    <3>2. ra \in State /\ ra.skip = c.taken
      BY <1>3, ConvertColor
    <3>3. rb \in State /\ rb.skip = c.taken
      BY <1>3, <3>1, ConvertColor
    <3>4. Applies(t, strip, a, i) <=> Applies(t, strip, b, i)
      BY <1>3, <3>1, Zenon DEF Applies
    <3> QED
      BY <3>2, <3>3, <3>4, Zenon
  <2>2. CASE ~Applies(t, strip, a, i)
    <3>1. /\ ra.mask = a.mask /\ ra.out = a.out /\ rb.mask = b.mask /\ rb.out = b.out
      BY <1>1, <1>3, <2>1, <2>2, ConvertColor
    <3>2. Alike(ra, rb)
      BY <2>1, <3>1, Zenon DEF Alike
    <3> QED
      BY <2>2, <3>2, Zenon
  <2>3. CASE Applies(t, strip, a, i)
    <3>1. HasBg(t, i)
      BY <1>1, <1>3, <2>3 DEF Applies, ValidColors, ColorsOf
    <3>2. Painted(a, c) = c.bg /\ Painted(b, c) = c.bg
      BY <3>1 DEF Painted, HasBg
    <3>3. c.color \in Int /\ c.bg \in Int
      BY ColorAtIs
    <3>4. ApplyColor(a, c).mask = ApplyColor(b, c).mask /\ ApplyColor(a, c).bg = ApplyColor(b, c).bg
          /\ ApplyColor(a, c).out = ApplyColor(b, c).out
      <4> DEFINE pa == ApplyColor(a, c)
                 pb == ApplyColor(b, c)
      <4> HIDE DEF c
      <4>1. /\ pa.mask = a.mask \cup {"COLOR"} /\ pa.bg = Painted(a, c)
            /\ pa.out = Append(a.out \o Closed(a.mask, "COLOR"),
                               <<"COLOR", c.color, Ground(Painted(a, c))>>)
        BY <3>3, ApplyColorIs
      <4>2. /\ pb.mask = b.mask \cup {"COLOR"} /\ pb.bg = Painted(b, c)
            /\ pb.out = Append(b.out \o Closed(b.mask, "COLOR"),
                               <<"COLOR", c.color, Ground(Painted(b, c))>>)
        BY <3>3, ApplyColorIs
      <4> HIDE DEF pa, pb
      <4>3. pa.mask = pb.mask /\ pa.bg = pb.bg /\ pa.out = pb.out
        BY <3>2, <4>1, <4>2, Zenon DEF Alike
      <4> QED
        BY <4>3, Zenon DEF pa, pb
    <3>5. /\ ra.mask = ApplyColor(a, c).mask /\ ra.bg = ApplyColor(a, c).bg
          /\ ra.out = ApplyColor(a, c).out
      BY <1>1, <1>3, <2>3, ConvertColor
    <3>6. /\ rb.mask = ApplyColor(b, c).mask /\ rb.bg = ApplyColor(b, c).bg
          /\ rb.out = ApplyColor(b, c).out
      BY <1>1, <1>3, <2>1, <2>3, ConvertColor
    <3> HIDE DEF ra, rb, c
    <3>7. Alike(ra, rb) /\ ra.bg = rb.bg
      BY <2>1, <3>4, <3>5, <3>6, Zenon DEF Alike
    <3>8. ra = rb
      BY <2>1, <3>7, AlikeIs
    <3> QED
      BY <3>7, <3>8, Zenon DEF ra, rb
  <2> QED
    BY <2>2, <2>3
<1>4. CASE a.skip = 0 /\ t[i] # Color
  <2>5. b.skip = 0 /\ b.skip \in Nat
    BY <1>1, <1>4
  <2>1. ra \in State /\ ra.skip = 0 /\ rb \in State /\ rb.skip = 0
    BY <1>1, <1>4, ConvertOther
  <2>2. ra.mask = rb.mask /\ ra.out = rb.out
    <3>1. CASE t[i] \in Toggles
      <4>1. \/ ra = a /\ rb = b
            \/ ra = Toggle(a, TagOf[t[i]]) /\ rb = Toggle(b, TagOf[t[i]])
        <5>1. ra = IF strip THEN a ELSE Toggle(a, TagOf[t[i]])
          BY <1>1, <1>4, <3>1, ConvertIs
        <5>2. rb = IF strip THEN b ELSE Toggle(b, TagOf[t[i]])
          BY <2>5, <3>1, ConvertIs
        <5> QED
          BY <5>1, <5>2, Zenon
      <4> DEFINE tag == TagOf[t[i]]
      <4>2. tag \in {"B", "U", "I"}
        BY <3>1, ControlCharacters
      <4> HIDE DEF ra, rb, tag
      <4>3. Toggle(a, tag).mask = Toggle(b, tag).mask /\ Toggle(a, tag).out = Toggle(b, tag).out
        <5>1. CASE tag \in a.mask
          <6>1. /\ Toggle(a, tag).mask = a.mask \ {tag}
                /\ Toggle(a, tag).out = Append(a.out, <<"close", tag>>)
            BY <4>2, <5>1, ToggleIs
          <6>2. /\ Toggle(b, tag).mask = b.mask \ {tag}
                /\ Toggle(b, tag).out = Append(b.out, <<"close", tag>>)
            BY <4>2, <5>1, ToggleIs DEF Alike
          <6> QED
            BY <6>1, <6>2, Zenon DEF Alike
        <5>2. CASE tag \notin a.mask
          <6>1. /\ Toggle(a, tag).mask = a.mask \cup {tag}
                /\ Toggle(a, tag).out = Append(a.out, <<"open", tag>>)
            BY <4>2, <5>2, ToggleIs
          <6>2. /\ Toggle(b, tag).mask = b.mask \cup {tag}
                /\ Toggle(b, tag).out = Append(b.out, <<"open", tag>>)
            BY <4>2, <5>2, ToggleIs DEF Alike
          <6> QED
            BY <6>1, <6>2, Zenon DEF Alike
        <5> QED
          BY <5>1, <5>2
      <4> QED
        BY <4>1, <4>3, Zenon DEF Alike, tag
    <3>2. CASE t[i] = Reset
      <4>1. (ra = a /\ rb = b) \/ (ra = CloseTags(a) /\ rb = CloseTags(b))
        <5>1. ra = IF strip THEN a ELSE CloseTags(a)
          BY <1>1, <1>4, <3>2, ConvertIs
        <5>2. rb = IF strip THEN b ELSE CloseTags(b)
          BY <2>5, <3>2, ConvertIs
        <5> QED
          BY <5>1, <5>2, Zenon
      <4> HIDE DEF ra, rb
      <4> QED
        BY <4>1, CloseTagsIs DEF Alike
    <3>3. CASE t[i] \notin Toggles \cup {Reset, Color}
      <4>1. ra = [a EXCEPT !.out = Append(@, <<t[i]>>)]
        BY <1>1, <1>4, <3>3, ConvertIs
      <4>2. rb = [b EXCEPT !.out = Append(@, <<t[i]>>)]
        BY <2>5, <3>3, ConvertIs
      <4> HIDE DEF ra, rb
      <4> QED
        BY <4>1, <4>2 DEF Alike, State
    <3> QED
      BY <1>4, <3>1, <3>2, <3>3, Zenon
  <2>3. Alike(ra, rb)
    BY <2>1, <2>2, Zenon DEF Alike
  <2>4. ~Applies(t, strip, a, i)
    BY <1>4, Zenon DEF Applies
  <2> QED
    BY <2>3, <2>4, Zenon
<1> QED
  BY <1>1, <1>2, <1>3, <1>4

LEMMA FirstPassIs ==
  ASSUME NEW t, NEW strip
  PROVE  /\ FirstPass(t, strip) = Pass(t, strip, Start)
         /\ SecondPass(t, strip) = Pass(t, strip, [FirstPass(t, strip) EXCEPT !.out = <<>>])
BY Zenon DEF FirstPass, SecondPass, Start

(* Without a background the second pass begins like the first. *)
LEMMA NoBackground ==
  ASSUME NEW t \in Seq(Char), NEW strip \in BOOLEAN,
         strip \/ \A i \in ValidColors(t) : ~HasBg(t, i)
  PROVE  SecondPass(t, strip) = FirstPass(t, strip)
<1> DEFINE p == Passing(t, strip, Start)
           T == {i \in 0..Len(t) : p[i].bg = 0}
           f == FirstPass(t, strip)
<1>1. p[0] = Start /\ \A i \in 1..Len(t) : p[i] = Convert(t, strip, p[i - 1], i)
  BY PassingStep
<1>2. \A i \in 0..Len(t) : p[i] \in State
  BY PassingTyped, StartIs
<1>3. f = Pass(t, strip, Start)
  BY FirstPassIs
<1>4. f \in State /\ f.mask = {} /\ f.skip = 0 /\ f.bg = p[Len(t)].bg
  <2> DEFINE g == Pass(t, strip, Start)
  <2>1. g \in State /\ g.mask = {} /\ g.skip = 0 /\ g.bg = p[Len(t)].bg
    BY PassIs, StartIs
  <2> HIDE DEF g, p
  <2> QED
    BY <1>3, <2>1, Zenon DEF g
<1> HIDE DEF p, f
<1>5. Len(t) \in Nat
  OBVIOUS
<1>6. 0 \in T
  BY <1>1, <1>5, StartIs
<1>7. ASSUME NEW i \in 1..Len(t), i - 1 \in T PROVE i \in T
  <2>1. i - 1 \in 0..Len(t) /\ i \in 0..Len(t) /\ p[i - 1].bg = 0
    BY <1>5, <1>7
  <2>2. p[i - 1] \in State
    BY <1>2, <2>1
  <2>3. Convert(t, strip, p[i - 1], i).bg = p[i - 1].bg
    BY <2>2, BgKeeps
  <2> QED
    BY <1>1, <2>1, <2>3
<1>8. 0..Len(t) \subseteq T
  <2> HIDE DEF T
  <2> QED
    BY <1>5, <1>6, <1>7, Upwards
<1>9. f.bg = 0
  BY <1>4, <1>5, <1>8
<1>10. [f EXCEPT !.out = <<>>] = Start
  <2> DEFINE g == [f EXCEPT !.out = <<>>]
  <2>1. <<>> \in Seq(Item)
    OBVIOUS
  <2>2. g \in State /\ g.mask = {} /\ g.skip = 0 /\ g.bg = 0 /\ g.out = <<>>
    BY <1>4, <1>9, <2>1 DEF State
  <2> HIDE DEF g
  <2>3. Alike(g, Start)
    BY <2>2, StartIs DEF Alike
  <2>4. g = Start
    BY <2>2, <2>3, StartIs, AlikeIs
  <2> QED
    BY <2>4 DEF g
<1> QED
  BY <1>3, <1>10, FirstPassIs DEF f

(* With a background in the first color it is forgotten how they began.     *)
LEMMA FirstBackground ==
  ASSUME NEW t \in Seq(Char), NEW k \in ValidColors(t), HasBg(t, k),
         \A j \in ValidColors(t) : k <= j
  PROVE  SecondPass(t, FALSE) = FirstPass(t, FALSE)
<1> DEFINE f == FirstPass(t, FALSE)
           again == [f EXCEPT !.out = <<>>]
           p == Passing(t, FALSE, Start)
           q == Passing(t, FALSE, again)
           Together(i) == Alike(p[i], q[i]) /\ (i >= k => p[i] = q[i])
           T == {i \in 0..Len(t) : Together(i)}
<1>1. Len(t) \in Nat /\ k \in 1..Len(t) /\ t[k] = Color /\ InRange(t, k)
  BY DEF ValidColors, ColorsOf
<1>2. again \in State /\ again.mask = {} /\ again.skip = 0 /\ again.out = <<>>
  <2>1. f \in State /\ f.mask = {} /\ f.skip = 0
    <3> DEFINE g == Pass(t, FALSE, Start)
    <3>1. g \in State /\ g.mask = {} /\ g.skip = 0
      BY PassIs, StartIs
    <3>2. f = g
      BY FirstPassIs
    <3> HIDE DEF f, g
    <3> QED
      BY <3>1, <3>2
  <2>2. <<>> \in Seq(Item)
    OBVIOUS
  <2> HIDE DEF f
  <2> QED
    BY <2>1, <2>2 DEF State
<1>3. p[0] = Start /\ \A i \in 1..Len(t) : p[i] = Convert(t, FALSE, p[i - 1], i)
  BY PassingStep
<1>4. \A i \in 0..Len(t) : p[i] \in State /\ Ahead(t, i, p[i])
  BY PassingTyped, StartIs
<1> HIDE DEF again
<1>5. q[0] = again /\ \A i \in 1..Len(t) : q[i] = Convert(t, FALSE, q[i - 1], i)
  BY PassingStep
<1>6. \A i \in 0..Len(t) : q[i] \in State
  BY <1>2, PassingTyped
<1> HIDE DEF p, q
<1>7. 0 \in T
  <2>1. Alike(p[0], q[0])
    BY <1>2, <1>3, <1>5, StartIs DEF Alike
  <2> QED
    BY <1>1, <2>1
<1>8. ASSUME NEW i \in 1..Len(t), i - 1 \in T PROVE i \in T
  <2>1. i - 1 \in 0..Len(t) /\ i \in 0..Len(t) /\ Together(i - 1)
    BY <1>1, <1>8
  <2>2. /\ p[i - 1] \in State /\ q[i - 1] \in State /\ Ahead(t, i - 1, p[i - 1])
        /\ p[i] = Convert(t, FALSE, p[i - 1], i) /\ q[i] = Convert(t, FALSE, q[i - 1], i)
    BY <1>3, <1>4, <1>5, <1>6, <2>1
  <2>3. CASE i < k
    <3>1. i \notin ValidColors(t)
      BY <1>1, <2>3
    <3>2. Alike(p[i], q[i])
      BY <2>1, <2>2, <3>1, AlikeKeeps
    <3> QED
      BY <1>1, <2>1, <2>3, <3>2
  <2>4. CASE i = k
    <3>1. p[i - 1].skip = 0
      <4>1. p[i - 1].skip \in Nat
        BY <2>2 DEF State
      <4>2. p[i - 1].skip > 0 => i \in (i - 1 + 1)..(i - 1 + p[i - 1].skip)
        BY <4>1
      <4>3. ~(p[i - 1].skip > 0)
        BY <1>1, <2>2, <2>4, <4>2, Zenon DEF Ahead
      <4> QED
        BY <4>1, <4>3
    <3>2. Applies(t, FALSE, p[i - 1], i)
      BY <1>1, <2>4, <3>1, Zenon DEF Applies
    <3> DEFINE a == p[i - 1]
               b == q[i - 1]
    <3>3. /\ a \in State /\ b \in State /\ Alike(a, b) /\ HasBg(t, i)
          /\ p[i] = Convert(t, FALSE, a, i) /\ q[i] = Convert(t, FALSE, b, i)
          /\ Applies(t, FALSE, a, i)
      BY <2>1, <2>2, <2>4, <3>2
    <3> HIDE DEF a, b
    <3>4. Alike(p[i], q[i]) /\ p[i] = q[i]
      BY <3>3, AlikeKeeps
    <3> QED
      BY <2>1, <3>4
  <2>5. CASE i > k
    <3>1. p[i - 1] = q[i - 1]
      BY <1>1, <2>1, <2>5
    <3>2. Alike(p[i], q[i]) /\ p[i] = q[i]
      BY <2>2, <3>1 DEF Alike
    <3> QED
      BY <2>1, <3>2
  <2> QED
    BY <1>1, <2>1, <2>3, <2>4, <2>5
<1>9. 0..Len(t) \subseteq T
  <2> HIDE DEF T
  <2> QED
    BY <1>1, <1>7, <1>8, Upwards
<1>10. p[Len(t)] = q[Len(t)]
  <2>1. Len(t) \in T /\ Len(t) >= k
    BY <1>1, <1>9
  <2> QED
    BY <2>1
<1>11. Pass(t, FALSE, Start) = Pass(t, FALSE, again)
  BY <1>10, Zenon DEF Pass, p, q
<1> QED
  BY <1>11, FirstPassIs DEF again

LEMMA PassesAgree ==
  ASSUME NEW t \in Seq(Char), NoneOrFirst(t, ValidColors(t))
  PROVE  SecondPass(t, FALSE) = FirstPass(t, FALSE)
<1>1. CASE \A i \in ValidColors(t) : ~HasBg(t, i)
  BY <1>1, NoBackground
<1>2. CASE \E i \in ValidColors(t) : HasBg(t, i)
  <2>1. PICK k \in ValidColors(t) : HasBg(t, k) /\ \A j \in ValidColors(t) : k <= j
    BY <1>2 DEF NoneOrFirst
  <2> QED
    BY <2>1, FirstBackground
<1> QED
  BY <1>1, <1>2

-----------------------------------------------------------------------------
(* What is typed. *)

(* The function that FlattenSeq recurses with. *)
LEMMA FlattenIs ==
  ASSUME NEW S, NEW ss \in Seq(Seq(S)), Len(ss) > 0
  PROVE  \E f : /\ f = [i \in 1..Len(ss) |-> IF i = 1 THEN ss[i] ELSE f[i - 1] \o ss[i]]
                /\ FlattenSeq(ss) = f[Len(ss)]
<1> DEFINE n == Len(ss)
           After(x, i) == IF i = 1 THEN ss[i] ELSE x \o ss[i]
           Is(f, m) == f = [i \in 1..m |-> After(f[i - 1], i)]
           flat == CHOOSE f : Is(f, n)
           T == {m \in Nat : \E f : Is(f, m)}
<1>1. n \in Nat /\ \A i \in 1..n : ss[i] \in Seq(S)
  BY ElementOfSeq
<1>2. FlattenSeq(ss) = flat[n]
  <2>1. Len(ss) # 0
    OBVIOUS
  <2> QED
    BY <2>1, Zenon DEF FlattenSeq
<1>3. 0 \in T
  <2>1. Is([i \in 1..0 |-> ss], 0)
    OBVIOUS
  <2> QED
    BY <2>1
<1> HIDE DEF After
<1>4. ASSUME NEW m \in 1..n, m - 1 \in T PROVE m \in T
  <2>1. PICK f : Is(f, m - 1)
    BY <1>4
  <2> DEFINE g == [i \in 1..m |-> IF i < m THEN f[i] ELSE After(f[m - 1], m)]
  <2>2. ASSUME NEW i \in 1..m PROVE g[i] = After(g[i - 1], i)
    <3>1. CASE i < m /\ i > 1
      BY <2>1, <3>1
    <3>2. CASE i = m /\ i > 1
      BY <3>2
    <3>3. CASE i = 1
      <4>1. \A x, y : After(x, 1) = After(y, 1)
        BY DEF After
      <4>2. i < m => i \in 1..(m - 1)
        BY <3>3
      <4>3. CASE i < m
        <5>1. g[i] = After(f[i - 1], i)
          BY <2>1, <4>2, <4>3
        <5> QED
          BY <3>3, <4>1, <5>1
      <4>4. CASE i = m
        <5>1. g[i] = After(f[m - 1], m)
          BY <4>4
        <5> QED
          BY <3>3, <4>1, <4>4, <5>1
      <4> QED
        BY <4>3, <4>4
    <3> QED
      BY <3>1, <3>2, <3>3
  <2>3. Is(g, m)
    BY <2>2
  <2>4. m \in Nat /\ \E h : Is(h, m)
    <3>1. m \in Nat
      OBVIOUS
    <3> HIDE DEF g, Is
    <3> QED
      BY <2>3, <3>1, Zenon
  <2> QED
    BY <2>4, Zenon
<1>5. n \in T
  <2>1. n \in 0..n
    BY <1>1
  <2> HIDE DEF T, n
  <2> QED
    BY <1>1, <1>3, <1>4, <2>1, Upwards
<1>6. Is(flat, n)
  BY <1>5, Zenon
<1> HIDE DEF flat
<1>7. flat = [i \in 1..n |-> IF i = 1 THEN ss[i] ELSE flat[i - 1] \o ss[i]]
  BY <1>6, Zenon DEF After
<1> QED
  BY <1>2, <1>7, Zenon

LEMMA FlattenTyped ==
  ASSUME NEW S, NEW ss \in Seq(Seq(S))
  PROVE  FlattenSeq(ss) \in Seq(S)
<1> DEFINE n == Len(ss)
<1>1. n \in Nat /\ \A i \in 1..n : ss[i] \in Seq(S)
  BY ElementOfSeq
<1>2. CASE n = 0
  <2>1. ss = <<>> /\ FlattenSeq(ss) = ss
    BY <1>2, EmptySeq DEF FlattenSeq
  <2> QED
    BY <2>1, EmptySeq
<1>3. CASE n > 0
  <2>1. PICK flat : /\ flat = [i \in 1..n |-> IF i = 1 THEN ss[i] ELSE flat[i - 1] \o ss[i]]
                    /\ FlattenSeq(ss) = flat[n]
    BY <1>3, FlattenIs
  <2> DEFINE K == {m \in 0..n : m > 0 => flat[m] \in Seq(S)}
  <2>2. 0 \in K
    BY <1>1
  <2>3. ASSUME NEW m \in 1..n, m - 1 \in K PROVE m \in K
    <3>1. flat[m] = (IF m = 1 THEN ss[m] ELSE flat[m - 1] \o ss[m]) /\ ss[m] \in Seq(S)
      BY <1>1, <2>1
    <3>2. CASE m = 1
      BY <1>1, <3>1, <3>2
    <3>3. CASE m > 1
      <4>1. flat[m] = flat[m - 1] \o ss[m]
        <5>1. m # 1
          BY <3>3
        <5> QED
          BY <3>1, <5>1, Zenon
      <4>2. m - 1 > 0 /\ flat[m - 1] \in Seq(S)
        BY <2>3, <3>3
      <4>3. flat[m] \in Seq(S)
        BY <3>1, <4>1, <4>2, ConcatProperties
      <4> QED
        BY <1>1, <4>3
    <3> QED
      BY <3>2, <3>3
  <2>4. 0..n \subseteq K
    <3> HIDE DEF K
    <3> QED
      BY <1>1, <2>2, <2>3, Upwards
  <2>5. n \in 0..n
    BY <1>1
  <2>6. n \in K
    <3> HIDE DEF K
    <3> QED
      BY <2>4, <2>5
  <2>7. flat[n] \in Seq(S)
    BY <1>3, <2>6
  <2> QED
    BY <2>1, <2>7
<1> QED
  BY <1>1, <1>2, <1>3

LEMMA FlattenEmpty == FlattenSeq(<<>>) = <<>>
BY DEF FlattenSeq

LEMMA FlattenAppend ==
  ASSUME NEW S, NEW ss \in Seq(Seq(S)), NEW x \in Seq(S)
  PROVE  FlattenSeq(Append(ss, x)) = FlattenSeq(ss) \o x
<1> DEFINE n == Len(ss)
           xs == Append(ss, x)
<1>1. /\ n \in Nat /\ xs \in Seq(Seq(S)) /\ Len(xs) = n + 1
      /\ \A i \in 1..n : xs[i] = ss[i]
      /\ xs[n + 1] = x
  OBVIOUS
<1> HIDE DEF xs
<1>2. PICK g : /\ g = [i \in 1..(n + 1) |-> IF i = 1 THEN xs[i] ELSE g[i - 1] \o xs[i]]
               /\ FlattenSeq(xs) = g[n + 1]
  <2>1. Len(xs) > 0
    BY <1>1
  <2> QED
    BY <1>1, <2>1, FlattenIs
<1>3. CASE n = 0
  <2>1. g[1] = x /\ ss = <<>>
    BY <1>1, <1>2, <1>3
  <2>2. FlattenSeq(ss) \o x = x
    <3>1. <<>> \o x = x
      BY ConcatEmptySeq
    <3> QED
      BY <2>1, <3>1, FlattenEmpty, Zenon
  <2> QED
    BY <1>2, <1>3, <2>1, <2>2 DEF xs
<1>4. CASE n > 0
  <2>1. PICK f : /\ f = [i \in 1..n |-> IF i = 1 THEN ss[i] ELSE f[i - 1] \o ss[i]]
                 /\ FlattenSeq(ss) = f[n]
    BY <1>4, FlattenIs
  <2> DEFINE K == {m \in 0..n : m > 0 => f[m] = g[m]}
  <2>2. 0 \in K
    BY <1>1
  <2>3. ASSUME NEW m \in 1..n, m - 1 \in K PROVE m \in K
    <3>6. m \in 1..(n + 1)
      BY <1>1
    <3> DEFINE F(i) == IF i = 1 THEN ss[i] ELSE f[i - 1] \o ss[i]
               G(i) == IF i = 1 THEN xs[i] ELSE g[i - 1] \o xs[i]
    <3>7. f = [i \in 1..n |-> F(i)] /\ g = [i \in 1..(n + 1) |-> G(i)]
      BY <1>2, <2>1, Zenon
    <3>8. f[m] = F(m) /\ g[m] = G(m)
      <4> HIDE DEF F, G
      <4> QED
        BY <3>6, <3>7
    <3>1. /\ f[m] = IF m = 1 THEN ss[m] ELSE f[m - 1] \o ss[m]
          /\ g[m] = IF m = 1 THEN xs[m] ELSE g[m - 1] \o xs[m]
      BY <3>8, Zenon
    <3>2. xs[m] = ss[m]
      BY <1>1
    <3>3. m > 1 => f[m - 1] = g[m - 1]
      BY <2>3
    <3>4. m = 1 \/ m > 1
      OBVIOUS
    <3>5. f[m] = g[m]
      BY <3>1, <3>2, <3>3, <3>4
    <3> QED
      BY <1>1, <3>5
  <2>4. 0..n \subseteq K
    <3> HIDE DEF K
    <3> QED
      BY <1>1, <2>2, <2>3, Upwards
  <2>5. f[n] = g[n]
    <3>1. n \in 0..n
      BY <1>1
    <3>2. n \in K
      <4> HIDE DEF K
      <4> QED
        BY <2>4, <3>1
    <3> QED
      BY <1>4, <3>2
  <2>6. g[n + 1] = g[n] \o x
    <3> DEFINE G(i) == IF i = 1 THEN xs[i] ELSE g[i - 1] \o xs[i]
    <3>1. g = [i \in 1..(n + 1) |-> G(i)]
      BY <1>2, Zenon
    <3>2. g[n + 1] = G(n + 1)
      <4> HIDE DEF G
      <4> QED
        BY <1>1, <3>1
    <3>3. n + 1 # 1 /\ (n + 1) - 1 = n
      BY <1>1, <1>4
    <3>4. G(n + 1) = g[n] \o xs[n + 1]
      BY <3>3
    <3> QED
      BY <1>1, <3>2, <3>4
  <2> QED
    BY <1>2, <2>1, <2>5, <2>6 DEF xs
<1> QED
  BY <1>1, <1>3, <1>4

(* A text is typed from the pieces of its kind. *)
Drafted ==
  /\ kind = "none" => draft = <<>>
  /\ kind = "mirc" => draft \in Seq(MircPieces)
  /\ kind = "tags" => draft \in Seq(TagPieces)

LEMMA DraftedInit == Init => Drafted
BY DEF Init, ColorsInit, Drafted

LEMMA DraftedNext == Drafted /\ [Next]_vars => Drafted'
<1> SUFFICES ASSUME Drafted, [Next]_vars PROVE Drafted'
  OBVIOUS
<1>1. CASE UNCHANGED <<draft, kind>>
  BY <1>1 DEF Drafted
<1>2. CASE Begin
  BY <1>2 DEF Begin, Drafted
<1>3. CASE Type
  BY <1>3 DEF Type, Drafted
<1>4. CASE Finish
  BY <1>4 DEF Finish, Drafted
<1> QED
  BY <1>1, <1>2, <1>3, <1>4 DEF Next, Speak, Draft, ColorsNext, vars

LEMMA AlwaysDrafted == Spec => []Drafted
  BY DraftedInit, DraftedNext, PTL DEF Spec

LEMMA TypedIs == Drafted /\ kind = "mirc" => Typed \in Seq(Char)
<1> SUFFICES ASSUME Drafted, kind = "mirc" PROVE Typed \in Seq(Char)
  OBVIOUS
<1>1. draft \in Seq(Seq(Char))
  BY PieceAssumption DEF Drafted
<1> QED
  BY <1>1, FlattenTyped DEF Typed

(* What the second pass writes is what the first pass counted, for texts of *)
(* any length, unless a color without a background comes before one that    *)
(* has a background (colors.c 121-236).                                     *)
THEOREM CountedIsWritten == Spec => []ConvertedFits
<1>1. Drafted => ConvertedFits
  <2> SUFFICES ASSUME Drafted, kind = "mirc",
                      NoneOrFirst(Typed, {i \in ColorsOf(Typed) : InRange(Typed, i)})
               PROVE  SecondPass(Typed, FALSE).out = FirstPass(Typed, FALSE).out
    BY DEF ConvertedFits
  <2>1. Typed \in Seq(Char) /\ NoneOrFirst(Typed, ValidColors(Typed))
    BY TypedIs DEF ValidColors
  <2>2. SecondPass(Typed, FALSE) = FirstPass(Typed, FALSE)
    BY <2>1, PassesAgree
  <2> QED
    BY <2>2
<1> QED
  BY <1>1, AlwaysDrafted, PTL

-----------------------------------------------------------------------------
(* How texts are shown. *)

Picture == [char : Char, formats : SUBSET Tags, fg : Int, bg : Int]
Screen == [formats : SUBSET Tags, fg : Int, bg : Int, skip : Nat, text : Seq(Picture)]

LEMMA BlankIs ==
  /\ Blank \in Screen /\ Blank.formats = {} /\ Blank.fg = -1 /\ Blank.bg = -1
  /\ Blank.skip = 0 /\ Blank.text = <<>>
<1>1. <<>> \in Seq(Picture)
  OBVIOUS
<1> QED
  BY <1>1 DEF Blank, Screen

LEMMA LookIs ==
  ASSUME NEW c \in Char, NEW s \in Screen
  PROVE  /\ Look(c, s) \in Picture /\ Look(c, s).char = c
         /\ Append(s.text, Look(c, s)) \in Seq(Picture)
<1>1. Look(c, s) \in Picture /\ Look(c, s).char = c
  BY DEF Look, Picture, Screen
<1>2. s.text \in Seq(Picture)
  BY DEF Screen
<1> QED
  BY <1>1, <1>2, AppendProperties

(* The cases of a character exclude each other. *)
LEMMA Cases ==
  ASSUME NEW s \in Screen
  PROVE  /\ Reset \notin Toggles /\ Color \notin Toggles /\ Color # Reset
         /\ (s.skip > 0 => s.skip # 0) /\ (s.skip = 0 => ~(s.skip > 0)) /\ s.skip \in Nat
<1>1. s.skip \in Nat
  BY DEF Screen
<1> QED
  BY <1>1, ControlCharacters

LEMMA ShowingStep ==
  ASSUME NEW t \in Seq(Char)
  PROVE  LET g == Showing(t)
         IN g[0] = Blank /\ \A i \in 1..Len(t) : g[i] = ShowMirc(t, g[i - 1], i)
<1> DEFINE g == Showing(t)
<1>1. Len(t) \in Nat
  OBVIOUS
<1>2. g = [i \in 0..Len(t) |-> IF i = 0 THEN Blank ELSE ShowMirc(t, g[i - 1], i)]
  BY <1>1, ShowingIs
<1> HIDE DEF g
<1>3. 0 \in 0..Len(t) /\ \A i \in 1..Len(t) : i \in 0..Len(t) /\ i # 0
  BY <1>1
<1>4. g[0] = Blank /\ \A i \in 1..Len(t) : g[i] = ShowMirc(t, g[i - 1], i)
  BY <1>2, <1>3, Zenon
<1> QED
  BY <1>4, Zenon DEF g

(* The fields of what is shown next, for the characters that matter. *)
LEMMA ShowSkips ==
  ASSUME NEW t \in Seq(Char), NEW s \in Screen, NEW i \in 1..Len(t), s.skip > 0
  PROVE  LET r == ShowMirc(t, s, i)
         IN /\ r \in Screen /\ r.skip = s.skip - 1 /\ r.formats = s.formats
            /\ r.fg = s.fg /\ r.bg = s.bg /\ r.text = s.text
<1> DEFINE r == ShowMirc(t, s, i)
<1>1. r = [s EXCEPT !.skip = @ - 1]
  BY Cases, Zenon DEF ShowMirc
<1>2. s.skip - 1 \in Nat
  BY DEF Screen
<1> HIDE DEF r
<1>3. /\ r \in Screen /\ r.skip = s.skip - 1 /\ r.formats = s.formats
      /\ r.fg = s.fg /\ r.bg = s.bg /\ r.text = s.text
  BY <1>1, <1>2 DEF Screen
<1> QED
  BY <1>3, Zenon DEF r

LEMMA ShowToggles ==
  ASSUME NEW t \in Seq(Char), NEW s \in Screen, NEW i \in 1..Len(t), s.skip = 0, t[i] \in Toggles
  PROVE  LET r == ShowMirc(t, s, i)
             tag == TagOf[t[i]]
         IN /\ r \in Screen /\ r.skip = 0 /\ r.fg = s.fg /\ r.bg = s.bg /\ r.text = s.text
            /\ tag \in s.formats => r.formats = s.formats \ {tag}
            /\ tag \notin s.formats => r.formats = s.formats \cup {tag}
<1> DEFINE r == ShowMirc(t, s, i)
           tag == TagOf[t[i]]
<1>1. r = [s EXCEPT !.formats = (@ \ {tag}) \cup ({tag} \ @)]
  BY Cases, Zenon DEF ShowMirc
<1>2. tag \in Tags
  BY ControlCharacters DEF Tags
<1> HIDE DEF r, tag
<1>3. (s.formats \ {tag}) \cup ({tag} \ s.formats) \in SUBSET Tags
  BY <1>2 DEF Screen
<1>4. /\ r \in Screen /\ r.skip = 0 /\ r.fg = s.fg /\ r.bg = s.bg /\ r.text = s.text
      /\ r.formats = (s.formats \ {tag}) \cup ({tag} \ s.formats)
  BY <1>1, <1>3 DEF Screen
<1>5. /\ tag \in s.formats => r.formats = s.formats \ {tag}
      /\ tag \notin s.formats => r.formats = s.formats \cup {tag}
  BY <1>4
<1> QED
  BY <1>4, <1>5, Zenon DEF r, tag

LEMMA ShowReset ==
  ASSUME NEW t \in Seq(Char), NEW s \in Screen, NEW i \in 1..Len(t), s.skip = 0, t[i] = Reset
  PROVE  LET r == ShowMirc(t, s, i)
         IN /\ r \in Screen /\ r.skip = 0 /\ r.formats = {} /\ r.fg = -1 /\ r.bg = -1
            /\ r.text = s.text
<1> DEFINE r == ShowMirc(t, s, i)
<1>1. r = [Blank EXCEPT !.text = s.text]
  BY Cases, Zenon DEF ShowMirc
<1> HIDE DEF r
<1>2. /\ r \in Screen /\ r.skip = 0 /\ r.formats = {} /\ r.fg = -1 /\ r.bg = -1
      /\ r.text = s.text
  BY <1>1, BlankIs DEF Screen
<1> QED
  BY <1>2, Zenon DEF r

LEMMA ShowColor ==
  ASSUME NEW t \in Seq(Char), NEW s \in Screen, NEW i \in 1..Len(t), s.skip = 0, t[i] = Color
  PROVE  LET r == ShowMirc(t, s, i)
             c == ColorAt(t, i)
         IN /\ r \in Screen /\ r.skip = c.taken /\ r.formats = s.formats /\ r.fg = c.color
            /\ r.bg = Painted(s, c) /\ r.text = s.text
<1> DEFINE r == ShowMirc(t, s, i)
           c == ColorAt(t, i)
<1>1. r = [s EXCEPT !.skip = c.taken, !.fg = c.color, !.bg = Painted(s, c)]
  BY Cases, Zenon DEF ShowMirc, Painted
<1>2. c.color \in Int /\ c.bg \in Int /\ c.taken \in Nat
  BY ColorAtIs
<1> HIDE DEF r, c
<1>3. Painted(s, c) \in Int
  BY <1>2 DEF Painted, Screen
<1>4. /\ r \in Screen /\ r.skip = c.taken /\ r.formats = s.formats /\ r.fg = c.color
      /\ r.bg = Painted(s, c) /\ r.text = s.text
  BY <1>1, <1>2, <1>3 DEF Screen
<1> QED
  BY <1>4, Zenon DEF r, c

LEMMA ShowPlain ==
  ASSUME NEW t \in Seq(Char), NEW s \in Screen, NEW i \in 1..Len(t), s.skip = 0,
         t[i] \notin Toggles \cup {Reset, Color}
  PROVE  LET r == ShowMirc(t, s, i)
         IN /\ r \in Screen /\ r.skip = 0 /\ r.formats = s.formats /\ r.fg = s.fg /\ r.bg = s.bg
            /\ r.text = Append(s.text, Look(t[i], s))
<1> DEFINE r == ShowMirc(t, s, i)
<1>1. r = [s EXCEPT !.text = Append(@, Look(t[i], s))]
  BY Cases, Zenon DEF ShowMirc
<1>2. Append(s.text, Look(t[i], s)) \in Seq(Picture)
  BY ElementOfSeq, LookIs
<1> HIDE DEF r
<1>3. /\ r \in Screen /\ r.skip = 0 /\ r.formats = s.formats /\ r.fg = s.fg /\ r.bg = s.bg
      /\ r.text = Append(s.text, Look(t[i], s))
  BY <1>1, <1>2 DEF Screen
<1> QED
  BY <1>3, Zenon DEF r

LEMMA ShowTyped ==
  ASSUME NEW t \in Seq(Char), NEW s \in Screen, NEW i \in 1..Len(t)
  PROVE  ShowMirc(t, s, i) \in Screen
<1>1. s.skip \in Nat
  BY DEF Screen
<1>2. CASE s.skip > 0
  BY <1>2, ShowSkips
<1>3. CASE s.skip = 0 /\ t[i] \in Toggles
  BY <1>3, ShowToggles
<1>4. CASE s.skip = 0 /\ t[i] = Reset
  BY <1>4, ShowReset
<1>5. CASE s.skip = 0 /\ t[i] = Color
  BY <1>5, ShowColor
<1>6. CASE s.skip = 0 /\ t[i] \notin Toggles \cup {Reset, Color}
  BY <1>6, ShowPlain
<1> QED
  BY <1>1, <1>2, <1>3, <1>4, <1>5, <1>6

LEMMA ShowingTyped ==
  ASSUME NEW t \in Seq(Char)
  PROVE  \A i \in 0..Len(t) : Showing(t)[i] \in Screen
<1> DEFINE g == Showing(t)
           T == {i \in 0..Len(t) : g[i] \in Screen}
<1>1. g[0] = Blank /\ \A i \in 1..Len(t) : g[i] = ShowMirc(t, g[i - 1], i)
  BY ShowingStep
<1> HIDE DEF g
<1>2. Len(t) \in Nat
  OBVIOUS
<1>3. 0 \in T
  BY <1>1, <1>2, BlankIs
<1>4. ASSUME NEW i \in 1..Len(t), i - 1 \in T PROVE i \in T
  BY <1>1, <1>2, <1>4, ShowTyped
<1>5. 0..Len(t) \subseteq T
  <2> HIDE DEF T
  <2> QED
    BY <1>2, <1>3, <1>4, Upwards
<1> QED
  BY <1>5, Zenon DEF g

-----------------------------------------------------------------------------
(* A stripped text. *)

Letters(text) == [k \in DOMAIN text |-> <<text[k].char>>]

LEMMA LettersIs ==
  ASSUME NEW text \in Seq(Picture), NEW x \in Picture
  PROVE  /\ Letters(<<>>) = <<>>
         /\ Letters(Append(text, x)) = Append(Letters(text), <<x.char>>)
<1>1. Letters(<<>>) = <<>>
  BY DEF Letters
<1> DEFINE a == Letters(text)
           b == Letters(Append(text, x))
           c == Append(a, <<x.char>>)
           n == Len(text)
<1>2. /\ n \in Nat /\ DOMAIN text = 1..n
      /\ \A k \in 1..n : text[k] \in Picture /\ <<text[k].char>> \in Item
  <2>1. \A k \in 1..n : text[k] \in Picture
    BY ElementOfSeq
  <2>2. \A p \in Picture : p.char \in Char
    BY DEF Picture
  <2> QED
    BY <2>1, <2>2, Items
<1>3. <<x.char>> \in Item
  BY Items DEF Picture
<1>4. a \in Seq(Item) /\ Len(a) = n /\ \A k \in 1..n : a[k] = <<text[k].char>>
  BY <1>2 DEF Letters
<1>5. /\ Append(text, x) \in Seq(Picture) /\ DOMAIN Append(text, x) = 1..(n + 1)
      /\ Append(text, x)[n + 1] = x /\ \A k \in 1..n : Append(text, x)[k] = text[k]
  BY AppendProperties
<1>6. /\ b \in Seq(Item) /\ Len(b) = n + 1 /\ b[n + 1] = <<x.char>>
      /\ \A k \in 1..n : b[k] = <<text[k].char>>
  <2>1. b = [k \in 1..(n + 1) |-> <<Append(text, x)[k].char>>]
    BY <1>5, Zenon DEF Letters
  <2>2. \A k \in 1..(n + 1) : <<Append(text, x)[k].char>> \in Item
    <3>1. \A k \in 1..(n + 1) : k \in 1..n \/ k = n + 1
      BY <1>2
    <3> QED
      BY <1>2, <1>3, <1>5, <3>1
  <2> HIDE DEF b
  <2> QED
    BY <1>2, <1>5, <2>1, <2>2
<1> HIDE DEF a, b
<1>7. /\ c \in Seq(Item) /\ Len(c) = n + 1 /\ c[n + 1] = <<x.char>>
      /\ \A k \in 1..n : c[k] = <<text[k].char>>
  BY <1>3, <1>4, AppendProperties
<1> HIDE DEF c
<1>8. \A k \in 1..Len(b) : b[k] = c[k]
  <2>1. \A k \in 1..(n + 1) : k \in 1..n \/ k = n + 1
    BY <1>2
  <2> QED
    BY <1>6, <1>7, <2>1
<1>9. b = c
  BY <1>6, <1>7, <1>8, SeqEqual
<1> QED
  BY <1>1, <1>9 DEF b, c, a

LEMMA ConvertPlain ==
  ASSUME NEW t \in Seq(Char), NEW strip \in BOOLEAN, NEW s \in State, NEW i \in 1..Len(t),
         s.skip = 0, t[i] \notin Toggles \cup {Reset, Color}
  PROVE  LET r == Convert(t, strip, s, i)
         IN /\ r \in State /\ r.mask = s.mask /\ r.bg = s.bg /\ r.skip = 0
            /\ r.out = Append(s.out, <<t[i]>>)
<1> DEFINE r == Convert(t, strip, s, i)
<1>1. t[i] \in Char /\ s.out \in Seq(Item) /\ s.skip \in Nat
  BY ElementOfSeq DEF State
<1>2. r = [s EXCEPT !.out = Append(@, <<t[i]>>)]
  BY <1>1, ConvertIs
<1>3. Append(s.out, <<t[i]>>) \in Seq(Item)
  BY <1>1, Items, AppendProperties
<1> HIDE DEF r
<1>4. r \in State /\ r.mask = s.mask /\ r.bg = s.bg /\ r.skip = 0 /\ r.out = Append(s.out, <<t[i]>>)
  BY <1>2, <1>3 DEF State
<1> QED
  BY <1>4, Zenon DEF r

LEMMA StripsControls ==
  ASSUME NEW t \in Seq(Char), NEW strip \in BOOLEAN, NEW s \in State, NEW i \in 1..Len(t),
         s.skip = 0, t[i] \in Toggles \/ t[i] = Reset
  PROVE  strip => Convert(t, strip, s, i) = s
<1>1. s.skip \in Nat
  BY DEF State
<1>2. CASE t[i] \in Toggles
  <2>1. Convert(t, strip, s, i) = IF strip THEN s ELSE Toggle(s, TagOf[t[i]])
    BY <1>1, <1>2, ConvertIs
  <2> QED
    BY <2>1, Zenon
<1>3. CASE t[i] = Reset
  <2>1. Convert(t, strip, s, i) = IF strip THEN s ELSE CloseTags(s)
    BY <1>1, <1>3, ConvertIs
  <2> QED
    BY <2>1, Zenon
<1> QED
  BY <1>2, <1>3, Zenon

(* Stripping leaves the characters that are shown. *)
Stripped(a, s) == a.mask = {} /\ a.skip = s.skip /\ a.out = Letters(s.text)

LEMMA StrippedNext ==
  ASSUME NEW t \in Seq(Char), NEW i \in 1..Len(t), NEW a \in State, NEW s \in Screen, Stripped(a, s)
  PROVE  Stripped(Convert(t, TRUE, a, i), ShowMirc(t, s, i))
<1> DEFINE ra == Convert(t, TRUE, a, i)
           rs == ShowMirc(t, s, i)
<1>1. a.skip \in Nat /\ s.skip \in Nat /\ a.skip = s.skip /\ a.mask = {} /\ a.out = Letters(s.text)
  BY DEF State, Screen, Stripped
<1>2. CASE a.skip > 0
  <2>1. ra.skip = a.skip - 1 /\ ra.mask = a.mask /\ ra.out = a.out
    BY <1>2, ConvertSkips
  <2>2. rs.skip = s.skip - 1 /\ rs.text = s.text
    BY <1>1, <1>2, ShowSkips
  <2> HIDE DEF ra, rs
  <2> QED
    BY <1>1, <2>1, <2>2, Zenon DEF Stripped, ra, rs
<1>3. CASE a.skip = 0 /\ t[i] \in Toggles
  <2>1. ra = a
    BY <1>3, StripsControls
  <2>2. rs.skip = 0 /\ rs.text = s.text
    <3>1. s.skip = 0
      BY <1>1, <1>3
    <3> QED
      BY <1>3, <3>1, ShowToggles
  <2> HIDE DEF ra, rs
  <2> QED
    BY <1>1, <1>3, <2>1, <2>2, Zenon DEF Stripped, ra, rs
<1>4. CASE a.skip = 0 /\ t[i] = Reset
  <2>1. ra = a
    BY <1>4, StripsControls
  <2>2. rs.skip = 0 /\ rs.text = s.text
    BY <1>1, <1>4, ShowReset
  <2> HIDE DEF ra, rs
  <2> QED
    BY <1>1, <1>4, <2>1, <2>2, Zenon DEF Stripped, ra, rs
<1>5. CASE a.skip = 0 /\ t[i] = Color
  <2>1. ~Applies(t, TRUE, a, i)
    BY Zenon DEF Applies
  <2>2. ra.skip = ColorAt(t, i).taken /\ ra.mask = a.mask /\ ra.out = a.out
    BY <1>5, <2>1, ConvertColor
  <2>3. rs.skip = ColorAt(t, i).taken /\ rs.text = s.text
    BY <1>1, <1>5, ShowColor
  <2> HIDE DEF ra, rs
  <2> QED
    BY <1>1, <2>2, <2>3, Zenon DEF Stripped, ra, rs
<1>6. CASE a.skip = 0 /\ t[i] \notin Toggles \cup {Reset, Color}
  <2>1. ra.mask = a.mask /\ ra.skip = 0 /\ ra.out = Append(a.out, <<t[i]>>)
    BY <1>6, ConvertPlain
  <2>2. rs.skip = 0 /\ rs.text = Append(s.text, Look(t[i], s))
    BY <1>1, <1>6, ShowPlain
  <2>3. Look(t[i], s) \in Picture /\ Look(t[i], s).char = t[i] /\ s.text \in Seq(Picture)
    <3>1. t[i] \in Char
      BY ElementOfSeq
    <3> QED
      BY <3>1, LookIs DEF Screen
  <2>4. Letters(Append(s.text, Look(t[i], s))) = Append(Letters(s.text), <<t[i]>>)
    BY <2>3, LettersIs
  <2> HIDE DEF ra, rs
  <2> QED
    BY <1>1, <2>1, <2>2, <2>4, Zenon DEF Stripped, ra, rs
<1>7. a.skip > 0 \/ a.skip = 0
  BY <1>1
<1> QED
  BY <1>2, <1>3, <1>4, <1>5, <1>6, <1>7, Zenon

LEMMA StripIs ==
  ASSUME NEW t \in Seq(Char)
  PROVE  Strip(t) = Letters(Shown(t))
<1> DEFINE p == Passing(t, TRUE, Start)
           g == Showing(t)
           T == {i \in 0..Len(t) : Stripped(p[i], g[i])}
<1>1. p[0] = Start /\ \A i \in 1..Len(t) : p[i] = Convert(t, TRUE, p[i - 1], i)
  BY PassingStep
<1>2. \A i \in 0..Len(t) : p[i] \in State
  BY PassingTyped, StartIs
<1>3. g[0] = Blank /\ \A i \in 1..Len(t) : g[i] = ShowMirc(t, g[i - 1], i)
  BY ShowingStep
<1>4. \A i \in 0..Len(t) : g[i] \in Screen
  BY ShowingTyped
<1>5. Strip(t) = p[Len(t)].out \o Closing(p[Len(t)].mask)
  <2>1. SecondPass(t, TRUE) = Pass(t, TRUE, Start)
    BY NoBackground, FirstPassIs
  <2>2. Pass(t, TRUE, Start).out = p[Len(t)].out \o Closing(p[Len(t)].mask)
    BY PassIs, StartIs
  <2> QED
    BY <2>1, <2>2, Zenon DEF Strip
<1>6. Shown(t) = g[Len(t)].text
  BY Zenon DEF Shown
<1> HIDE DEF p, g
<1>7. Len(t) \in Nat
  OBVIOUS
<1>8. 0 \in T
  <2>1. Letters(<<>>) = <<>>
    BY DEF Letters
  <2>2. Stripped(Start, Blank)
    BY <2>1, StartIs, BlankIs, Zenon DEF Stripped
  <2> QED
    BY <1>1, <1>3, <1>7, <2>2
<1>9. ASSUME NEW i \in 1..Len(t), i - 1 \in T PROVE i \in T
  <2>1. i - 1 \in 0..Len(t) /\ i \in 0..Len(t) /\ Stripped(p[i - 1], g[i - 1])
    BY <1>7, <1>9
  <2>2. Stripped(p[i], g[i])
    BY <1>1, <1>2, <1>3, <1>4, <2>1, StrippedNext, Zenon
  <2> QED
    BY <2>1, <2>2, Zenon
<1>10. 0..Len(t) \subseteq T
  <2> HIDE DEF T
  <2> QED
    BY <1>7, <1>8, <1>9, Upwards
<1>11. Stripped(p[Len(t)], g[Len(t)])
  BY <1>7, <1>10
<1>12. Closing({}) = <<>>
  <2>1. \A tag : Closed({}, tag) = <<>>
    BY DEF Closed
  <2> QED
    BY <2>1 DEF Closing
<1>13. p[Len(t)].out \o <<>> = p[Len(t)].out
  <2>1. Len(t) \in 0..Len(t) /\ p[Len(t)].out \in Seq(Item)
    BY <1>2, <1>7 DEF State
  <2> QED
    BY <2>1
<1> QED
  BY <1>5, <1>6, <1>11, <1>12, <1>13, Zenon DEF Stripped

-----------------------------------------------------------------------------
(* How tags are read. *)

ReadOf(out) == Reading(out)[Len(out)]

LEMMA ReadStep ==
  ASSUME NEW out \in Seq(Item)
  PROVE  LET r == Reading(out)
         IN r[0] = Blank /\ \A i \in 1..Len(out) : r[i] = ShowTag(r[i - 1], out[i])
<1> DEFINE r == Reading(out)
<1>1. Len(out) \in Nat
  OBVIOUS
<1>2. r = [i \in 0..Len(out) |-> IF i = 0 THEN Blank ELSE ShowTag(r[i - 1], out[i])]
  BY <1>1, ReadingIs
<1> HIDE DEF r
<1>3. 0 \in 0..Len(out) /\ \A i \in 1..Len(out) : i \in 0..Len(out) /\ i # 0
  BY <1>1
<1>4. r[0] = Blank /\ \A i \in 1..Len(out) : r[i] = ShowTag(r[i - 1], out[i])
  BY <1>2, <1>3, Zenon
<1> QED
  BY <1>4, Zenon DEF r

(* What is read of the empty text and of one more character or tag. *)
LEMMA ReadAppend ==
  ASSUME NEW out \in Seq(Item), NEW x \in Item
  PROVE  ReadOf(<<>>) = Blank /\ ReadOf(Append(out, x)) = ShowTag(ReadOf(out), x)
<1>1. ReadOf(<<>>) = Blank
  <2>1. <<>> \in Seq(Item) /\ Len(<<>>) = 0
    OBVIOUS
  <2> QED
    BY <2>1, ReadStep, Zenon DEF ReadOf
<1> DEFINE more == Append(out, x)
           n == Len(out)
           r == Reading(out)
           s == Reading(more)
           T == {i \in 0..n : r[i] = s[i]}
<1>2. /\ n \in Nat /\ more \in Seq(Item) /\ Len(more) = n + 1 /\ more[n + 1] = x
      /\ \A i \in 1..n : more[i] = out[i]
  BY AppendProperties
<1>3. r[0] = Blank /\ \A i \in 1..n : r[i] = ShowTag(r[i - 1], out[i])
  BY ReadStep
<1>4. s[0] = Blank /\ \A i \in 1..(n + 1) : s[i] = ShowTag(s[i - 1], more[i])
  <2>1. more \in Seq(Item) /\ Len(more) = n + 1
    BY <1>2
  <2> HIDE DEF more
  <2> QED
    BY <2>1, ReadStep
<1>5. ReadOf(out) = r[n] /\ ReadOf(more) = s[n + 1]
  BY <1>2 DEF ReadOf
<1> HIDE DEF r, s, more
<1>6. 0 \in T
  BY <1>2, <1>3, <1>4
<1>7. ASSUME NEW i \in 1..n, i - 1 \in T PROVE i \in T
  <2>1. i \in 0..n /\ i \in 1..(n + 1) /\ r[i - 1] = s[i - 1] /\ more[i] = out[i]
    BY <1>2, <1>7
  <2>2. r[i] = s[i]
    BY <1>3, <1>4, <2>1, Zenon
  <2> QED
    BY <2>1, <2>2
<1>8. 0..n \subseteq T
  <2> HIDE DEF T
  <2> QED
    BY <1>2, <1>6, <1>7, Upwards
<1>9. r[n] = s[n]
  BY <1>2, <1>8
<1>10. s[n + 1] = ShowTag(s[n], x)
  <2>1. n + 1 \in 1..(n + 1) /\ n + 1 - 1 = n
    BY <1>2
  <2>2. s[n + 1] = ShowTag(s[n + 1 - 1], more[n + 1])
    BY <1>4, <2>1
  <2>3. more[n + 1] = x
    BY <1>2
  <2> QED
    BY <2>1, <2>2, <2>3
<1> QED
  BY <1>1, <1>5, <1>9, <1>10, Zenon DEF more

Colored(s, fg, bg) == [s EXCEPT !.fg = fg, !.bg = bg]

(* Which case of ShowTag applies. *)
LEMMA ShowTagIs ==
  ASSUME NEW s
  PROVE  /\ \A c \in Char : ShowTag(s, <<c>>) = [s EXCEPT !.text = Append(@, Look(c, s))]
         /\ \A tag : ShowTag(s, <<"open", tag>>) = [s EXCEPT !.formats = @ \cup {tag}]
         /\ \A tag : tag # "COLOR" =>
              ShowTag(s, <<"close", tag>>) = [s EXCEPT !.formats = @ \ {tag}]
         /\ ShowTag(s, <<"close", "COLOR">>) = Colored(s, -1, -1)
<1>1. "open" # "close" /\ "open" # "COLOR" /\ "close" # "COLOR"
  OBVIOUS
<1>2. ASSUME NEW c \in Char PROVE ShowTag(s, <<c>>) = [s EXCEPT !.text = Append(@, Look(c, s))]
  <2> DEFINE x == <<c>>
  <2>1. x[1] = c /\ c # "open" /\ c # "close" /\ c # "COLOR"
    BY DEF Char
  <2> HIDE DEF x
  <2>2. ShowTag(s, x) = [s EXCEPT !.text = Append(@, Look(x[1], s))]
    BY <2>1, Zenon DEF ShowTag
  <2> QED
    BY <2>1, <2>2, Zenon DEF x
<1>3. ASSUME NEW tag PROVE ShowTag(s, <<"open", tag>>) = [s EXCEPT !.formats = @ \cup {tag}]
  <2> DEFINE x == <<"open", tag>>
  <2>1. x[1] = "open" /\ x[2] = tag
    OBVIOUS
  <2> HIDE DEF x
  <2>2. ShowTag(s, x) = [s EXCEPT !.formats = @ \cup {x[2]}]
    BY <1>1, <2>1, Zenon DEF ShowTag
  <2> QED
    BY <2>1, <2>2, Zenon DEF x
<1>4. ASSUME NEW tag, tag # "COLOR"
      PROVE  ShowTag(s, <<"close", tag>>) = [s EXCEPT !.formats = @ \ {tag}]
  <2> DEFINE x == <<"close", tag>>
  <2>1. x[1] = "close" /\ x[2] = tag
    OBVIOUS
  <2> HIDE DEF x
  <2>2. ShowTag(s, x) = [s EXCEPT !.formats = @ \ {x[2]}]
    BY <1>1, <1>4, <2>1, Zenon DEF ShowTag
  <2> QED
    BY <2>1, <2>2, Zenon DEF x
<1>5. ShowTag(s, <<"close", "COLOR">>) = Colored(s, -1, -1)
  <2> DEFINE x == <<"close", "COLOR">>
  <2>1. x[1] = "close" /\ x[2] = "COLOR"
    OBVIOUS
  <2> HIDE DEF x
  <2>2. ShowTag(s, x) = Colored(s, -1, -1)
    BY <1>1, <2>1, Zenon DEF ShowTag, Colored
  <2> QED
    BY <2>1, <2>2, Zenon DEF x
<1> QED
  BY <1>2, <1>3, <1>4, <1>5, Zenon

LEMMA ColoredIs ==
  ASSUME NEW s \in Screen, NEW fg \in Int, NEW bg \in Int
  PROVE  LET r == Colored(s, fg, bg)
         IN /\ r \in Screen /\ r.fg = fg /\ r.bg = bg
            /\ r.text = s.text /\ r.formats = s.formats
BY DEF Screen, Colored

LEMMA ShowColorTag ==
  ASSUME NEW s, NEW fg, NEW bg
  PROVE  ShowTag(s, <<"COLOR", fg, bg>>) = Colored(s, fg, bg)
<1> DEFINE x == <<"COLOR", fg, bg>>
<1>1. x[1] = "COLOR" /\ x[2] = fg /\ x[3] = bg /\ "open" # "COLOR" /\ "close" # "COLOR"
  OBVIOUS
<1> HIDE DEF x
<1>2. ShowTag(s, x) = Colored(s, x[2], x[3])
  BY <1>1, Zenon DEF ShowTag, Colored
<1> QED
  BY <1>1, <1>2, Zenon DEF x

LEMMA ShowTagTyped ==
  ASSUME NEW s \in Screen, NEW x \in Item
  PROVE  ShowTag(s, x) \in Screen
<1>1. CASE \E c \in Char : x = <<c>>
  <2>1. PICK c \in Char : x = <<c>>
    BY <1>1
  <2>2. ShowTag(s, x) = [s EXCEPT !.text = Append(@, Look(c, s))]
    BY <2>1, ShowTagIs, Zenon
  <2>3. Append(s.text, Look(c, s)) \in Seq(Picture)
    BY LookIs
  <2> QED
    BY <2>2, <2>3 DEF Screen
<1>2. CASE \E tag \in Tags : x = <<"open", tag>>
  <2>1. PICK tag \in Tags : x = <<"open", tag>>
    BY <1>2
  <2>2. ShowTag(s, x) = [s EXCEPT !.formats = @ \cup {tag}]
    BY <2>1, ShowTagIs, Zenon
  <2> QED
    BY <2>2 DEF Screen
<1>3. CASE \E tag \in Tags : x = <<"close", tag>> /\ tag # "COLOR"
  <2>1. PICK tag \in Tags : x = <<"close", tag>> /\ tag # "COLOR"
    BY <1>3
  <2>2. ShowTag(s, x) = [s EXCEPT !.formats = @ \ {tag}]
    BY <2>1, ShowTagIs, Zenon
  <2> QED
    BY <2>2 DEF Screen
<1>4. CASE x = <<"close", "COLOR">>
  <2>1. ShowTag(s, x) = Colored(s, -1, -1)
    BY <1>4, ShowTagIs, Zenon
  <2> QED
    BY <2>1, ColoredIs
<1>5. CASE \E fg, bg \in Int : x = <<"COLOR", fg, bg>>
  <2>1. PICK fg \in Int, bg \in Int : x = <<"COLOR", fg, bg>>
    BY <1>5
  <2>2. ShowTag(s, x) = Colored(s, fg, bg)
    BY <2>1, ShowColorTag
  <2> QED
    BY <2>2, ColoredIs
<1>6. \/ \E c \in Char : x = <<c>>
      \/ \E tag \in Tags : x = <<"open", tag>>
      \/ \E tag \in Tags : x = <<"close", tag>>
      \/ \E fg, bg \in Int : x = <<"COLOR", fg, bg>>
  BY DEF Item
<1> QED
  BY <1>1, <1>2, <1>3, <1>4, <1>5, <1>6, Zenon

LEMMA ReadTyped ==
  ASSUME NEW out \in Seq(Item)
  PROVE  ReadOf(out) \in Screen
<1> DEFINE r == Reading(out)
           T == {i \in 0..Len(out) : r[i] \in Screen}
<1>1. r[0] = Blank /\ \A i \in 1..Len(out) : r[i] = ShowTag(r[i - 1], out[i])
  BY ReadStep
<1> HIDE DEF r
<1>2. Len(out) \in Nat /\ \A i \in 1..Len(out) : out[i] \in Item
  BY ElementOfSeq
<1>3. 0 \in T
  BY <1>1, <1>2, BlankIs
<1>4. ASSUME NEW i \in 1..Len(out), i - 1 \in T PROVE i \in T
  BY <1>1, <1>2, <1>4, ShowTagTyped
<1>5. 0..Len(out) \subseteq T
  <2> HIDE DEF T
  <2> QED
    BY <1>2, <1>3, <1>4, Upwards
<1>6. r[Len(out)] \in Screen
  BY <1>2, <1>5
<1> QED
  BY <1>6, Zenon DEF ReadOf, r

(* What is shown in the same way, except for what is still to be skipped. *)
Same(r, s) == r.text = s.text /\ r.formats = s.formats /\ r.fg = s.fg /\ r.bg = s.bg

(* What each item does to what is read. *)
LEMMA ReadLetter ==
  ASSUME NEW out \in Seq(Item), NEW c \in Char
  PROVE  LET r == ReadOf(out)
             after == ReadOf(Append(out, <<c>>))
         IN /\ after.text = Append(r.text, Look(c, r)) /\ after.formats = r.formats
            /\ after.fg = r.fg /\ after.bg = r.bg
<1> DEFINE r == ReadOf(out)
           after == ReadOf(Append(out, <<c>>))
<1>1. r \in Screen /\ <<c>> \in Item
  BY ReadTyped, Items
<1>2. after = ShowTag(r, <<c>>)
  BY <1>1, ReadAppend
<1> HIDE DEF after, r
<1>3. after = [r EXCEPT !.text = Append(@, Look(c, r))]
  BY <1>2, ShowTagIs, Zenon
<1>4. /\ after.text = Append(r.text, Look(c, r)) /\ after.formats = r.formats
      /\ after.fg = r.fg /\ after.bg = r.bg
  BY <1>1, <1>3 DEF Screen
<1> QED
  BY <1>4, Zenon DEF r, after

LEMMA ReadFormat ==
  ASSUME NEW out \in Seq(Item), NEW tag \in {"B", "U", "I"}
  PROVE  LET r == ReadOf(out)
             opened == ReadOf(Append(out, <<"open", tag>>))
             closed == ReadOf(Append(out, <<"close", tag>>))
         IN /\ opened.formats = r.formats \cup {tag} /\ closed.formats = r.formats \ {tag}
            /\ opened.text = r.text /\ opened.fg = r.fg /\ opened.bg = r.bg
            /\ closed.text = r.text /\ closed.fg = r.fg /\ closed.bg = r.bg
<1> DEFINE r == ReadOf(out)
           opened == ReadOf(Append(out, <<"open", tag>>))
           closed == ReadOf(Append(out, <<"close", tag>>))
<1>1. r \in Screen /\ <<"open", tag>> \in Item /\ <<"close", tag>> \in Item /\ tag # "COLOR"
  BY ReadTyped, Items DEF Tags
<1>2. opened = ShowTag(r, <<"open", tag>>)
  BY <1>1, ReadAppend
<1>3. closed = ShowTag(r, <<"close", tag>>)
  BY <1>1, ReadAppend
<1> HIDE DEF opened, closed, r
<1>4. opened = [r EXCEPT !.formats = @ \cup {tag}]
  BY <1>2, ShowTagIs, Zenon
<1>5. closed = [r EXCEPT !.formats = @ \ {tag}]
  BY <1>1, <1>3, ShowTagIs, Zenon
<1>6. /\ opened.formats = r.formats \cup {tag} /\ closed.formats = r.formats \ {tag}
      /\ opened.text = r.text /\ opened.fg = r.fg /\ opened.bg = r.bg
      /\ closed.text = r.text /\ closed.fg = r.fg /\ closed.bg = r.bg
  BY <1>1, <1>4, <1>5 DEF Screen
<1> QED
  BY <1>6, Zenon DEF r, opened, closed

LEMMA ReadColor ==
  ASSUME NEW out \in Seq(Item), NEW fg \in Int, NEW bg \in Int
  PROVE  LET r == ReadOf(out)
             after == ReadOf(Append(out, <<"COLOR", fg, bg>>))
         IN /\ after.fg = fg /\ after.bg = bg
            /\ after.text = r.text /\ after.formats = r.formats
<1> DEFINE r == ReadOf(out)
           after == ReadOf(Append(out, <<"COLOR", fg, bg>>))
<1>1. r \in Screen /\ <<"COLOR", fg, bg>> \in Item
  BY ReadTyped, Items
<1>2. after = ShowTag(r, <<"COLOR", fg, bg>>)
  BY <1>1, ReadAppend
<1> HIDE DEF after, r
<1>3. after = Colored(r, fg, bg)
  BY <1>2, ShowColorTag
<1>4. /\ after.fg = fg /\ after.bg = bg
      /\ after.text = r.text /\ after.formats = r.formats
  BY <1>1, <1>3, ColoredIs
<1> QED
  BY <1>4, Zenon DEF r, after

LEMMA ReadColorClosed ==
  ASSUME NEW out \in Seq(Item)
  PROVE  LET r == ReadOf(out)
             after == ReadOf(Append(out, <<"close", "COLOR">>))
         IN /\ after.fg = -1 /\ after.bg = -1
            /\ after.text = r.text /\ after.formats = r.formats
<1> DEFINE r == ReadOf(out)
           after == ReadOf(Append(out, <<"close", "COLOR">>))
<1>1. r \in Screen /\ <<"close", "COLOR">> \in Item
  BY ReadTyped, Items DEF Tags
<1>2. after = ShowTag(r, <<"close", "COLOR">>)
  BY <1>1, ReadAppend
<1> HIDE DEF after, r
<1>3. after = Colored(r, -1, -1)
  BY <1>2, ShowTagIs, Zenon
<1>4. /\ after.fg = -1 /\ after.bg = -1
      /\ after.text = r.text /\ after.formats = r.formats
  BY <1>1, <1>3, ColoredIs
<1> QED
  BY <1>4, Zenon DEF r, after

(* A tag is closed if it is open. *)
WithoutTag(formats, mask, tag) ==
  IF tag \in mask \ {"COLOR"} THEN formats \ {tag} ELSE formats

ReadWithout(out, mask, tag) ==
  LET r == ReadOf(out)
      after == ReadOf(out \o Closed(mask, tag))
  IN /\ out \o Closed(mask, tag) \in Seq(Item) /\ after.text = r.text
     /\ after.formats = WithoutTag(r.formats, mask, tag)
     /\ tag = "COLOR" /\ tag \in mask => after.fg = -1 /\ after.bg = -1
     /\ tag # "COLOR" \/ tag \notin mask => after.fg = r.fg /\ after.bg = r.bg

LEMMA ReadClosed ==
  ASSUME NEW out \in Seq(Item), NEW mask, NEW tag \in Tags
  PROVE  ReadWithout(out, mask, tag)
<1> DEFINE r == ReadOf(out)
           after == ReadOf(out \o Closed(mask, tag))
           x == <<"close", tag>>
<1>1. out \o Closed(mask, tag) \in Seq(Item)
  BY ClosingIs, ConcatProperties
<1>2. CASE tag \notin mask
  <2>1. Closed(mask, tag) = <<>>
    BY <1>2, Zenon DEF Closed
  <2>2. out \o <<>> = out
    OBVIOUS
  <2>3. after = r
    BY <2>1, <2>2, Zenon
  <2> HIDE DEF after, r
  <2>4. tag \notin mask \ {"COLOR"}
    BY <1>2
  <2> QED
    BY <1>1, <1>2, <2>3, <2>4, Zenon DEF after, r, ReadWithout, WithoutTag
<1>3. CASE tag \in mask
  <2>1. Closed(mask, tag) = <<x>>
    BY <1>3, Zenon DEF Closed
  <2>2. x \in Item
    BY Items
  <2> HIDE DEF x
  <2>3. out \o <<x>> = Append(out, x)
    BY <2>2, AppendIsConcat
  <2>4. after = ReadOf(Append(out, x))
    BY <2>1, <2>3, Zenon
  <2>5. CASE tag = "COLOR"
    <3>1. x = <<"close", "COLOR">>
      BY <2>5, Zenon DEF x
    <3>2. after.fg = -1 /\ after.bg = -1 /\ after.text = r.text /\ after.formats = r.formats
      BY <2>4, <3>1, ReadColorClosed, Zenon
    <3>3. tag \notin mask \ {"COLOR"}
      BY <2>5
    <3> HIDE DEF after, r
    <3> QED
      BY <1>1, <1>3, <2>5, <3>2, <3>3, Zenon DEF after, r, ReadWithout, WithoutTag
  <2>6. CASE tag # "COLOR"
    <3>1. tag \in {"B", "U", "I"} /\ tag \in mask \ {"COLOR"}
      BY <1>3, <2>6 DEF Tags
    <3>2. /\ after.formats = r.formats \ {tag} /\ after.text = r.text
          /\ after.fg = r.fg /\ after.bg = r.bg
      <4>1. after = ReadOf(Append(out, <<"close", tag>>))
        BY <2>4, Zenon DEF x
      <4>2. tag \in {"B", "U", "I"}
        BY <3>1
      <4> HIDE DEF after
      <4> QED
        BY <4>1, <4>2, ReadFormat
    <3> HIDE DEF after, r
    <3> QED
      BY <1>1, <2>6, <3>1, <3>2, Zenon DEF after, r, ReadWithout, WithoutTag
  <2> QED
    BY <2>5, <2>6
<1> QED
  BY <1>2, <1>3

OneByOne(out, b, u, i, c) == out \o (((b \o u) \o i) \o c) = (((out \o b) \o u) \o i) \o c

Regroups(s, t, u) == (s \o t) \o u = s \o (t \o u)

LEMMA Regroup ==
  ASSUME NEW s \in Seq(Item), NEW t \in Seq(Item), NEW u \in Seq(Item)
  PROVE  Regroups(s, t, u) /\ s \o t \in Seq(Item)
BY ConcatAssociative, ConcatProperties DEF Regroups

LEMMA ConcatFour ==
  ASSUME NEW out \in Seq(Item), NEW b \in Seq(Item), NEW u \in Seq(Item), NEW i \in Seq(Item),
         NEW c \in Seq(Item)
  PROVE  OneByOne(out, b, u, i, c)
<1>1. Regroups(out, b, u) /\ b \o u \in Seq(Item)
  BY Regroup
<1>2. Regroups(out, b \o u, i) /\ (b \o u) \o i \in Seq(Item)
  BY <1>1, Regroup
<1>3. Regroups(out, (b \o u) \o i, c)
  BY <1>2, Regroup
<1> QED
  BY <1>1, <1>2, <1>3, Zenon DEF Regroups, OneByOne

(* Closing what is open ends all formats and colors, and shows nothing.     *)
LEMMA ReadClosing ==
  ASSUME NEW out \in Seq(Item), NEW mask \in SUBSET Tags, ReadOf(out).formats = mask \ {"COLOR"}
  PROVE  LET r == ReadOf(out)
             after == ReadOf(out \o Closing(mask))
         IN /\ after.text = r.text /\ after.formats = {}
            /\ "COLOR" \in mask => after.fg = -1 /\ after.bg = -1
            /\ "COLOR" \notin mask => after.fg = r.fg /\ after.bg = r.bg
<1> DEFINE r == ReadOf(out)
           b == Closed(mask, "B")
           u == Closed(mask, "U")
           i == Closed(mask, "I")
           c == Closed(mask, "COLOR")
           outB == out \o b
           outU == outB \o u
           outI == outU \o i
           after == ReadOf(outI \o c)
<1>1. b \in Seq(Item) /\ u \in Seq(Item) /\ i \in Seq(Item) /\ c \in Seq(Item)
  BY ClosingIs DEF Tags
<1>2. "B" \in Tags /\ "U" \in Tags /\ "I" \in Tags /\ "COLOR" \in Tags
      /\ "B" # "COLOR" /\ "U" # "COLOR" /\ "I" # "COLOR"
  BY DEF Tags
<1>3. /\ outB \in Seq(Item) /\ ReadOf(outB).text = r.text
      /\ ReadOf(outB).formats = WithoutTag(r.formats, mask, "B")
      /\ ReadOf(outB).fg = r.fg /\ ReadOf(outB).bg = r.bg
  <2>1. ReadWithout(out, mask, "B")
    BY <1>2, ReadClosed
  <2> QED
    BY <1>2, <2>1, Zenon DEF ReadWithout
<1>B. outB \in Seq(Item)
  BY <1>3
<1> HIDE DEF outB
<1>4. /\ outU \in Seq(Item) /\ ReadOf(outU).text = ReadOf(outB).text
      /\ ReadOf(outU).formats = WithoutTag(ReadOf(outB).formats, mask, "U")
      /\ ReadOf(outU).fg = ReadOf(outB).fg /\ ReadOf(outU).bg = ReadOf(outB).bg
  <2>1. ReadWithout(outB, mask, "U")
    BY <1>2, <1>B, ReadClosed
  <2> QED
    BY <1>2, <2>1, Zenon DEF ReadWithout
<1>U. outU \in Seq(Item)
  BY <1>4
<1> HIDE DEF outU
<1>5. /\ outI \in Seq(Item) /\ ReadOf(outI).text = ReadOf(outU).text
      /\ ReadOf(outI).formats = WithoutTag(ReadOf(outU).formats, mask, "I")
      /\ ReadOf(outI).fg = ReadOf(outU).fg /\ ReadOf(outI).bg = ReadOf(outU).bg
  <2>1. ReadWithout(outU, mask, "I")
    BY <1>2, <1>U, ReadClosed
  <2> QED
    BY <1>2, <2>1, Zenon DEF ReadWithout
<1>I. outI \in Seq(Item)
  BY <1>5
<1> HIDE DEF outI
<1>6. /\ after.text = ReadOf(outI).text /\ after.formats = ReadOf(outI).formats
      /\ "COLOR" \in mask => after.fg = -1 /\ after.bg = -1
      /\ "COLOR" \notin mask => after.fg = ReadOf(outI).fg /\ after.bg = ReadOf(outI).bg
  <2>1. "COLOR" \notin mask \ {"COLOR"}
    OBVIOUS
  <2>2. ReadWithout(outI, mask, "COLOR")
    BY <1>2, <1>I, ReadClosed
  <2> QED
    BY <1>2, <2>1, <2>2, Zenon DEF ReadWithout, WithoutTag
<1>7. out \o Closing(mask) = outI \o c
  <2> HIDE DEF b, u, i, c
  <2>0. b \in Seq(Item) /\ u \in Seq(Item) /\ i \in Seq(Item) /\ c \in Seq(Item)
    BY <1>1
  <2>1. OneByOne(out, b, u, i, c)
    BY <2>0, ConcatFour
  <2> QED
    BY <2>1, Zenon DEF OneByOne, Closing, outI, outU, outB, b, u, i, c
<1> HIDE DEF after
<1>8. after.formats = {}
  <2>1. after.formats = WithoutTag(
          WithoutTag(WithoutTag(mask \ {"COLOR"}, mask, "B"), mask, "U"), mask, "I")
    BY <1>3, <1>4, <1>5, <1>6, Zenon
  <2> QED
    BY <2>1 DEF Tags, WithoutTag
<1> HIDE DEF r
<1>9. /\ after.text = r.text /\ after.formats = {}
      /\ "COLOR" \in mask => after.fg = -1 /\ after.bg = -1
      /\ "COLOR" \notin mask => after.fg = r.fg /\ after.bg = r.bg
  BY <1>3, <1>4, <1>5, <1>6, <1>8, Zenon
<1> QED
  BY <1>7, <1>9, Zenon DEF r, after

-----------------------------------------------------------------------------
(* Tags look like the control characters they stand for. *)

LEMMA ConvertsControls ==
  ASSUME NEW t \in Seq(Char), NEW strip \in BOOLEAN, NEW s \in State, NEW i \in 1..Len(t),
         s.skip = 0
  PROVE  /\ ~strip /\ t[i] \in Toggles => Convert(t, strip, s, i) = Toggle(s, TagOf[t[i]])
         /\ ~strip /\ t[i] = Reset => Convert(t, strip, s, i) = CloseTags(s)
<1>1. s.skip \in Nat
  BY DEF State
<1>2. ASSUME t[i] \in Toggles PROVE ~strip => Convert(t, strip, s, i) = Toggle(s, TagOf[t[i]])
  <2>1. Convert(t, strip, s, i) = IF strip THEN s ELSE Toggle(s, TagOf[t[i]])
    BY <1>1, <1>2, ConvertIs
  <2> QED
    BY <2>1, Zenon
<1>3. ASSUME t[i] = Reset PROVE ~strip => Convert(t, strip, s, i) = CloseTags(s)
  <2>1. Convert(t, strip, s, i) = IF strip THEN s ELSE CloseTags(s)
    BY <1>1, <1>3, ConvertIs
  <2> QED
    BY <2>1, Zenon
<1> QED
  BY <1>2, <1>3, Zenon

(* The texts whose looks are kept. *)
SomeBg(t) == \E i \in ColorsOf(t) : HasBg(t, i)
AllBg(t) == \A i \in ColorsOf(t) : HasBg(t, i)
Usual(t) ==
  /\ NoneOrFirst(t, ColorsOf(t))
  /\ \A i \in ColorsOf(t) : InRange(t, i) /\ ColorAt(t, i).bg # 0
  /\ SomeBg(t) /\ ~AllBg(t) => ~Contains(t, Reset)

(* How the state of a pass and its tags so far match what is shown so far.  *)
(* A background that was reset comes back with the next color that brings   *)
(* none: no such color follows.                                             *)
Matches(t, a, g) ==
  /\ a.skip = g.skip /\ Same(ReadOf(a.out), g) /\ g.formats = a.mask \ {"COLOR"}
  /\ "COLOR" \in a.mask => g.bg = Ground(a.bg)
  /\ "COLOR" \notin a.mask => g.fg = -1 /\ g.bg = -1 /\ (a.bg # 0 => AllBg(t))
  /\ a.bg # 0 => SomeBg(t)

LEMMA MatchSkips ==
  ASSUME NEW t \in Seq(Char), NEW i \in 1..Len(t), NEW a \in State, NEW g \in Screen,
         Matches(t, a, g), a.skip > 0
  PROVE  Matches(t, Convert(t, FALSE, a, i), ShowMirc(t, g, i))
<1> DEFINE ra == Convert(t, FALSE, a, i)
           rg == ShowMirc(t, g, i)
<1>1. ra.skip = a.skip - 1 /\ ra.mask = a.mask /\ ra.bg = a.bg /\ ra.out = a.out
  BY ConvertSkips
<1>2. g.skip > 0 /\ g.skip = a.skip
  BY Zenon DEF Matches
<1>3. /\ rg.skip = g.skip - 1 /\ rg.formats = g.formats /\ rg.fg = g.fg /\ rg.bg = g.bg
      /\ rg.text = g.text
  BY <1>2, ShowSkips
<1> HIDE DEF ra, rg
<1>4. Matches(t, ra, rg)
  BY <1>1, <1>2, <1>3, Zenon DEF Matches, Same
<1> QED
  BY <1>4, Zenon DEF ra, rg

LEMMA MatchToggles ==
  ASSUME NEW t \in Seq(Char), NEW i \in 1..Len(t), NEW a \in State, NEW g \in Screen,
         Matches(t, a, g), a.skip = 0, t[i] \in Toggles
  PROVE  Matches(t, Convert(t, FALSE, a, i), ShowMirc(t, g, i))
<1> DEFINE ra == Convert(t, FALSE, a, i)
           rg == ShowMirc(t, g, i)
           tag == TagOf[t[i]]
           r == ReadOf(a.out)
           q == ReadOf(ra.out)
<1>1. tag \in {"B", "U", "I"} /\ a.out \in Seq(Item) /\ a.mask \in SUBSET Tags
  BY ControlCharacters DEF State
<1>2. ra = Toggle(a, tag)
  BY ConvertsControls
<1>3. g.skip = 0 /\ g.formats = a.mask \ {"COLOR"}
  BY Zenon DEF Matches
<1>4. /\ rg.skip = 0 /\ rg.fg = g.fg /\ rg.bg = g.bg /\ rg.text = g.text
      /\ tag \in g.formats => rg.formats = g.formats \ {tag}
      /\ tag \notin g.formats => rg.formats = g.formats \cup {tag}
  BY <1>3, ShowToggles
<1> HIDE DEF ra, rg, tag
<1>5. tag # "COLOR" /\ (tag \in g.formats <=> tag \in a.mask)
  BY <1>1, <1>3
<1>6. CASE tag \in a.mask
  <2>1. /\ ra.bg = a.bg /\ ra.skip = a.skip /\ ra.mask = a.mask \ {tag}
        /\ ra.out = Append(a.out, <<"close", tag>>)
    BY <1>1, <1>2, <1>6, ToggleIs
  <2>2. /\ ReadOf(Append(a.out, <<"close", tag>>)).formats = r.formats \ {tag}
        /\ ReadOf(Append(a.out, <<"close", tag>>)).text = r.text
        /\ ReadOf(Append(a.out, <<"close", tag>>)).fg = r.fg
        /\ ReadOf(Append(a.out, <<"close", tag>>)).bg = r.bg
    BY <1>1, ReadFormat
  <2>3. q.formats = r.formats \ {tag} /\ q.text = r.text /\ q.fg = r.fg /\ q.bg = r.bg
    BY <2>1, <2>2, Zenon
  <2> HIDE DEF q, r
  <2>4. Same(q, rg)
    BY <1>4, <1>5, <1>6, <2>3, Zenon DEF Matches, Same, r
  <2>5. /\ ra.mask \ {"COLOR"} = (a.mask \ {"COLOR"}) \ {tag}
        /\ ("COLOR" \in ra.mask <=> "COLOR" \in a.mask)
    BY <1>5, <2>1
  <2>6. Matches(t, ra, rg)
    BY <1>3, <1>4, <1>5, <1>6, <2>1, <2>4, <2>5, Zenon DEF Matches, q
  <2> QED
    BY <2>6, Zenon DEF ra, rg
<1>7. CASE tag \notin a.mask
  <2>1. /\ ra.bg = a.bg /\ ra.skip = a.skip /\ ra.mask = a.mask \cup {tag}
        /\ ra.out = Append(a.out, <<"open", tag>>)
    BY <1>1, <1>2, <1>7, ToggleIs
  <2>2. /\ ReadOf(Append(a.out, <<"open", tag>>)).formats = r.formats \cup {tag}
        /\ ReadOf(Append(a.out, <<"open", tag>>)).text = r.text
        /\ ReadOf(Append(a.out, <<"open", tag>>)).fg = r.fg
        /\ ReadOf(Append(a.out, <<"open", tag>>)).bg = r.bg
    BY <1>1, ReadFormat
  <2>3. q.formats = r.formats \cup {tag} /\ q.text = r.text /\ q.fg = r.fg /\ q.bg = r.bg
    BY <2>1, <2>2, Zenon
  <2> HIDE DEF q, r
  <2>4. Same(q, rg)
    BY <1>4, <1>5, <1>7, <2>3, Zenon DEF Matches, Same, r
  <2>5. /\ ra.mask \ {"COLOR"} = (a.mask \ {"COLOR"}) \cup {tag}
        /\ ("COLOR" \in ra.mask <=> "COLOR" \in a.mask)
    BY <1>5, <2>1
  <2>6. Matches(t, ra, rg)
    BY <1>3, <1>4, <1>5, <1>7, <2>1, <2>4, <2>5, Zenon DEF Matches, q
  <2> QED
    BY <2>6, Zenon DEF ra, rg
<1> QED
  BY <1>6, <1>7

LEMMA MatchReset ==
  ASSUME NEW t \in Seq(Char), NEW i \in 1..Len(t), NEW a \in State, NEW g \in Screen, Usual(t),
         Matches(t, a, g), a.skip = 0, t[i] = Reset
  PROVE  Matches(t, Convert(t, FALSE, a, i), ShowMirc(t, g, i))
<1> DEFINE ra == Convert(t, FALSE, a, i)
           rg == ShowMirc(t, g, i)
           r == ReadOf(a.out)
           q == ReadOf(a.out \o Closing(a.mask))
<1>1. a.out \in Seq(Item) /\ a.mask \in SUBSET Tags
  BY DEF State
<1>2. ra = CloseTags(a)
  BY ConvertsControls
<1>3. g.skip = 0 /\ Same(r, g) /\ g.formats = a.mask \ {"COLOR"}
  BY Zenon DEF Matches
<1>4. rg.skip = 0 /\ rg.formats = {} /\ rg.fg = -1 /\ rg.bg = -1 /\ rg.text = g.text
  BY <1>3, ShowReset
<1> HIDE DEF ra, rg
<1>5. ra.mask = {} /\ ra.bg = a.bg /\ ra.skip = a.skip /\ ra.out = a.out \o Closing(a.mask)
  BY <1>2, CloseTagsIs
<1>6. r.formats = a.mask \ {"COLOR"} /\ r.fg = g.fg /\ r.bg = g.bg /\ r.text = g.text
  BY <1>3, Zenon DEF Same
<1>7. /\ q.text = r.text /\ q.formats = {}
      /\ "COLOR" \in a.mask => q.fg = -1 /\ q.bg = -1
      /\ "COLOR" \notin a.mask => q.fg = r.fg /\ q.bg = r.bg
  BY <1>1, <1>6, ReadClosing
<1> HIDE DEF q, r
<1>8. q.fg = -1 /\ q.bg = -1
  BY <1>6, <1>7, Zenon DEF Matches
<1>9. Same(q, rg)
  BY <1>4, <1>6, <1>7, <1>8, Zenon DEF Same
<1>10. a.bg # 0 => AllBg(t)
  <2>1. Contains(t, Reset)
    BY Zenon DEF Contains
  <2> QED
    BY <2>1, Zenon DEF Usual, Matches
<1>11. {} = {} \ {"COLOR"} /\ "COLOR" \notin {}
  OBVIOUS
<1>12. Matches(t, ra, rg)
  BY <1>3, <1>4, <1>5, <1>9, <1>10, <1>11, Zenon DEF Matches, q
<1> QED
  BY <1>12, Zenon DEF ra, rg

LEMMA MatchColor ==
  ASSUME NEW t \in Seq(Char), NEW i \in 1..Len(t), NEW a \in State, NEW g \in Screen, Usual(t),
         Matches(t, a, g), a.skip = 0, t[i] = Color
  PROVE  Matches(t, Convert(t, FALSE, a, i), ShowMirc(t, g, i))
<1> DEFINE ra == Convert(t, FALSE, a, i)
           rg == ShowMirc(t, g, i)
           c == ColorAt(t, i)
           bg == Painted(a, c)
           before == a.out \o Closed(a.mask, "COLOR")
           r == ReadOf(a.out)
           m == ReadOf(before)
           q == ReadOf(ra.out)
<1>1. a.out \in Seq(Item) /\ a.mask \in SUBSET Tags /\ a.bg \in Int /\ "COLOR" \in Tags
  BY DEF State, Tags
<1>2. i \in ColorsOf(t) /\ InRange(t, i) /\ c.bg # 0
  <2>1. i \in ColorsOf(t)
    BY DEF ColorsOf
  <2> QED
    BY <2>1, Zenon DEF Usual
<1>3. c.color \in Int /\ c.bg \in Int /\ c.taken \in Nat
  BY ColorAtIs
<1>4. Applies(t, FALSE, a, i)
  BY <1>2, Zenon DEF Applies
<1>5. /\ ra.skip = c.taken /\ ra.mask = ApplyColor(a, c).mask /\ ra.bg = ApplyColor(a, c).bg
      /\ ra.out = ApplyColor(a, c).out
  BY <1>4, ConvertColor
<1>6. /\ ApplyColor(a, c).mask = a.mask \cup {"COLOR"} /\ ApplyColor(a, c).bg = bg
      /\ ApplyColor(a, c).out = Append(before, <<"COLOR", c.color, Ground(bg)>>)
  BY <1>3, ApplyColorIs
<1>7. g.skip = 0 /\ Same(r, g) /\ g.formats = a.mask \ {"COLOR"}
  BY Zenon DEF Matches
<1>8. /\ rg.skip = c.taken /\ rg.formats = g.formats /\ rg.fg = c.color
      /\ rg.bg = Painted(g, c) /\ rg.text = g.text
  BY <1>7, ShowColor
<1> HIDE DEF ra, rg, c
<1>9. bg \in Int /\ Ground(bg) \in Int
  BY <1>1, <1>3 DEF Painted, Ground
<1>10. before \in Seq(Item) /\ m.text = r.text /\ m.formats = r.formats
  <2>1. ReadWithout(a.out, a.mask, "COLOR")
    BY <1>1, ReadClosed
  <2>2. "COLOR" \notin a.mask \ {"COLOR"}
    OBVIOUS
  <2> QED
    BY <2>1, <2>2, Zenon DEF ReadWithout, WithoutTag
<1> HIDE DEF bg, before
<1>11. q.fg = c.color /\ q.bg = Ground(bg) /\ q.text = m.text /\ q.formats = m.formats
  <2> DEFINE tagged == Append(before, <<"COLOR", c.color, Ground(bg)>>)
  <2>1. before \in Seq(Item)
    BY <1>10
  <2>2. /\ ReadOf(tagged).fg = c.color /\ ReadOf(tagged).bg = Ground(bg)
        /\ ReadOf(tagged).text = m.text /\ ReadOf(tagged).formats = m.formats
    BY <1>3, <1>9, <2>1, ReadColor
  <2> QED
    BY <1>5, <1>6, <2>2, Zenon
<1>12. Painted(g, c) = Ground(bg) /\ (bg # 0 => SomeBg(t))
  <2>1. CASE c.bg = -1
    <3>1. bg = a.bg /\ Painted(g, c) = g.bg
      BY <2>1 DEF Painted, bg
    <3>2. ~AllBg(t)
      BY <1>2, <2>1, Zenon DEF AllBg, HasBg, c
    <3>3. "COLOR" \notin a.mask => a.bg = 0 /\ g.bg = -1
      BY <3>2, Zenon DEF Matches
    <3>4. "COLOR" \notin a.mask => g.bg = Ground(a.bg)
      BY <3>3 DEF Ground
    <3> QED
      BY <3>1, <3>4, Zenon DEF Matches
  <2>2. CASE c.bg # -1
    <3>1. bg = c.bg /\ Painted(g, c) = c.bg
      BY <2>2 DEF Painted, bg
    <3>2. SomeBg(t)
      BY <1>2, <2>2, Zenon DEF SomeBg, HasBg, c
    <3>3. Ground(c.bg) = c.bg
      BY <1>2 DEF Ground
    <3> QED
      BY <3>1, <3>2, <3>3, Zenon
  <2> QED
    BY <2>1, <2>2
<1> HIDE DEF q, r, m
<1>13. Same(q, rg)
  BY <1>7, <1>8, <1>10, <1>11, <1>12, Zenon DEF Same
<1>14. ra.mask = a.mask \cup {"COLOR"} /\ ra.bg = bg /\ ra.skip = c.taken
  BY <1>5, <1>6, Zenon
<1>15. ra.mask \ {"COLOR"} = a.mask \ {"COLOR"} /\ "COLOR" \in ra.mask
  BY <1>14
<1>16. Matches(t, ra, rg)
  BY <1>7, <1>8, <1>12, <1>13, <1>14, <1>15, Zenon DEF Matches, q
<1> QED
  BY <1>16, Zenon DEF ra, rg

LEMMA MatchPlain ==
  ASSUME NEW t \in Seq(Char), NEW i \in 1..Len(t), NEW a \in State, NEW g \in Screen,
         Matches(t, a, g), a.skip = 0, t[i] \notin Toggles \cup {Reset, Color}
  PROVE  Matches(t, Convert(t, FALSE, a, i), ShowMirc(t, g, i))
<1> DEFINE ra == Convert(t, FALSE, a, i)
           rg == ShowMirc(t, g, i)
           r == ReadOf(a.out)
           q == ReadOf(Append(a.out, <<t[i]>>))
<1>1. t[i] \in Char /\ a.out \in Seq(Item)
  BY ElementOfSeq DEF State
<1>2. ra.mask = a.mask /\ ra.bg = a.bg /\ ra.skip = 0 /\ ra.out = Append(a.out, <<t[i]>>)
  BY ConvertPlain
<1>3. g.skip = 0 /\ Same(r, g)
  BY Zenon DEF Matches
<1>4. /\ rg.skip = 0 /\ rg.formats = g.formats /\ rg.fg = g.fg /\ rg.bg = g.bg
      /\ rg.text = Append(g.text, Look(t[i], g))
  BY <1>3, ShowPlain
<1>5. /\ q.text = Append(r.text, Look(t[i], r)) /\ q.formats = r.formats
      /\ q.fg = r.fg /\ q.bg = r.bg
  BY <1>1, ReadLetter
<1> HIDE DEF ra, rg, q, r
<1>6. Look(t[i], r) = Look(t[i], g)
  BY <1>3, Zenon DEF Look, Same
<1>7. Same(q, rg)
  BY <1>3, <1>4, <1>5, <1>6, Zenon DEF Same
<1>8. Matches(t, ra, rg)
  BY <1>2, <1>4, <1>7, Zenon DEF Matches, q
<1> QED
  BY <1>8, Zenon DEF ra, rg

LEMMA MatchNext ==
  ASSUME NEW t \in Seq(Char), NEW i \in 1..Len(t), NEW a \in State, NEW g \in Screen, Usual(t),
         Matches(t, a, g)
  PROVE  Matches(t, Convert(t, FALSE, a, i), ShowMirc(t, g, i))
<1>1. a.skip > 0 \/ a.skip = 0
  BY DEF State
<1>2. CASE a.skip > 0
  BY <1>2, MatchSkips
<1>3. CASE a.skip = 0 /\ t[i] \in Toggles
  BY <1>3, MatchToggles
<1>4. CASE a.skip = 0 /\ t[i] = Reset
  BY <1>4, MatchReset
<1>5. CASE a.skip = 0 /\ t[i] = Color
  BY <1>5, MatchColor
<1>6. CASE a.skip = 0 /\ t[i] \notin Toggles \cup {Reset, Color}
  BY <1>6, MatchPlain
<1> QED
  BY <1>1, <1>2, <1>3, <1>4, <1>5, <1>6, Zenon

LEMMA FromMircIs ==
  ASSUME NEW t \in Seq(Char), Usual(t)
  PROVE  Read(FromMirc(t)) = Shown(t)
<1> DEFINE p == Passing(t, FALSE, Start)
           g == Showing(t)
           T == {i \in 0..Len(t) : Matches(t, p[i], g[i])}
           last == p[Len(t)]
<1>1. p[0] = Start /\ \A i \in 1..Len(t) : p[i] = Convert(t, FALSE, p[i - 1], i)
  BY PassingStep
<1>2. \A i \in 0..Len(t) : p[i] \in State
  BY PassingTyped, StartIs
<1>3. g[0] = Blank /\ \A i \in 1..Len(t) : g[i] = ShowMirc(t, g[i - 1], i)
  BY ShowingStep
<1>4. \A i \in 0..Len(t) : g[i] \in Screen
  BY ShowingTyped
<1>5. FromMirc(t) = last.out \o Closing(last.mask)
  <2>1. ValidColors(t) = ColorsOf(t)
    BY DEF Usual, ValidColors
  <2>2. SecondPass(t, FALSE) = FirstPass(t, FALSE)
    BY <2>1, PassesAgree DEF Usual
  <2>3. FirstPass(t, FALSE) = Pass(t, FALSE, Start)
    BY FirstPassIs
  <2>4. Pass(t, FALSE, Start).out = last.out \o Closing(last.mask)
    BY PassIs, StartIs
  <2> QED
    BY <2>2, <2>3, <2>4, Zenon DEF FromMirc
<1>6. Shown(t) = g[Len(t)].text
  BY Zenon DEF Shown
<1> HIDE DEF p, g
<1>7. Len(t) \in Nat /\ Len(t) \in 0..Len(t)
  OBVIOUS
<1>8. 0 \in T
  <2>1. ReadOf(<<>>) = Blank
    <3>1. <<>> \in Seq(Item) /\ <<"open", "B">> \in Item
      BY Items DEF Tags
    <3> QED
      BY <3>1, ReadAppend
  <2>2. {} = {} \ {"COLOR"} /\ "COLOR" \notin {}
    OBVIOUS
  <2>3. Matches(t, Start, Blank)
    BY <2>1, <2>2, StartIs, BlankIs, Zenon DEF Matches, Same
  <2> QED
    BY <1>1, <1>3, <1>7, <2>3
<1>9. ASSUME NEW i \in 1..Len(t), i - 1 \in T PROVE i \in T
  <2>1. i - 1 \in 0..Len(t) /\ i \in 0..Len(t) /\ Matches(t, p[i - 1], g[i - 1])
    BY <1>7, <1>9
  <2>2. Matches(t, p[i], g[i])
    BY <1>1, <1>2, <1>3, <1>4, <2>1, MatchNext, Zenon
  <2> QED
    BY <2>1, <2>2, Zenon
<1>10. 0..Len(t) \subseteq T
  <2> HIDE DEF T
  <2> QED
    BY <1>7, <1>8, <1>9, Upwards
<1>11. last \in State /\ Matches(t, last, g[Len(t)])
  BY <1>2, <1>7, <1>10
<1> HIDE DEF last
<1>12. ReadOf(last.out).formats = last.mask \ {"COLOR"} /\ ReadOf(last.out).text = g[Len(t)].text
  BY <1>11, Zenon DEF Matches, Same
<1>13. last.out \in Seq(Item) /\ last.mask \in SUBSET Tags
  BY <1>11 DEF State
<1>14. ReadOf(last.out \o Closing(last.mask)).text = ReadOf(last.out).text
  BY <1>12, <1>13, ReadClosing
<1>15. Read(FromMirc(t)) = ReadOf(FromMirc(t)).text
  BY Zenon DEF Read, ReadOf
<1> QED
  BY <1>5, <1>6, <1>12, <1>14, <1>15, Zenon

(* A text of any length has the characters it shows when it is stripped,    *)
(* and looks the same with tags as it did with control characters, if its   *)
(* colors are in range, no background is white or ended by a reset, and the *)
(* first color brings a background or none does (colors.c 121-288).         *)
THEOREM LooksAreKept == Spec => []FormatsKept
<1>1. Drafted => FormatsKept
  <2> DEFINE shown == Shown(Typed)
             cs == ColorsOf(Typed)
  <2> SUFFICES ASSUME Drafted, kind = "mirc"
               PROVE  /\ Strip(Typed) = [i \in DOMAIN shown |-> <<shown[i].char>>]
                      /\ Usual(Typed) => Read(FromMirc(Typed)) = shown
    BY Zenon DEF FormatsKept, Usual, SomeBg, AllBg
  <2>1. Typed \in Seq(Char)
    BY TypedIs
  <2>2. Strip(Typed) = Letters(Shown(Typed))
    BY <2>1, StripIs
  <2>3. Usual(Typed) => Read(FromMirc(Typed)) = Shown(Typed)
    BY <2>1, FromMircIs
  <2> QED
    BY <2>2, <2>3, Zenon DEF Letters
<1> QED
  BY <1>1, AlwaysDrafted, PTL

-----------------------------------------------------------------------------
(* A set of sequences that has the empty one, and with each sequence those  *)
(* that are one longer, has them all.                                       *)
LEMMA ByPrefixes ==
  ASSUME NEW S, NEW T, <<>> \in T,
         \A t \in Seq(S), c \in S : t \in T => Append(t, c) \in T
  PROVE  \A t \in Seq(S) : t \in T
<1> SUFFICES ASSUME NEW t \in Seq(S) PROVE t \in T
  OBVIOUS
<1> DEFINE K == {m \in 0..Len(t) : SubSeq(t, 1, m) \in T}
<1>1. Len(t) \in Nat /\ SubSeq(t, 1, Len(t)) = t /\ SubSeq(t, 1, 0) = <<>>
  BY LenProperties, SubSeqFull, SubSeqEmpty
<1>2. 0 \in K
  <2>1. 0 \in 0..Len(t)
    BY <1>1
  <2>2. SubSeq(t, 1, 0) \in T
    BY <1>1, Zenon
  <2> QED
    BY <2>1, <2>2, Zenon
<1>3. ASSUME NEW m \in 1..Len(t), m - 1 \in K PROVE m \in K
  <2>1. SubSeq(t, 1, m) = Append(SubSeq(t, 1, m - 1), t[m])
    BY <1>1
  <2>2. SubSeq(t, 1, m - 1) \in Seq(S) /\ t[m] \in S
    BY <1>1
  <2>3. SubSeq(t, 1, m - 1) \in T
    BY <1>3
  <2>4. m \in 0..Len(t)
    BY <1>1
  <2>5. SubSeq(t, 1, m) \in T
    BY <2>1, <2>2, <2>3, Zenon
  <2> QED
    BY <2>4, <2>5, Zenon
<1>4. Len(t) \in K
  <2>1. Len(t) \in 0..Len(t)
    BY <1>1
  <2>2. 0..Len(t) \subseteq K
    <3> HIDE DEF K
    <3> QED
      BY <1>1, <1>2, <1>3, Upwards
  <2> QED
    BY <2>1, <2>2
<1> QED
  BY <1>1, <1>4

(* Where the pieces of a text are in it. *)

Offsets(ws, flat, f) ==
  /\ f \in [0..Len(ws) -> Nat] /\ f[0] = 0 /\ f[Len(ws)] = Len(flat)
  /\ \A i \in 1..Len(ws) :
       /\ f[i] = f[i - 1] + Len(ws[i]) /\ f[i] <= Len(flat)
       /\ \A j \in 1..Len(ws[i]) : flat[f[i - 1] + j] = ws[i][j]

LEMMA OffsetsAppend ==
  ASSUME NEW S, NEW ws \in Seq(Seq(S)), NEW x \in Seq(S), NEW flat \in Seq(S), NEW f,
         Offsets(ws, flat, f)
  PROVE  \E g : Offsets(Append(ws, x), flat \o x, g)
<1> DEFINE n == Len(ws)
           m == Len(flat)
           xs == Append(ws, x)
           more == flat \o x
           g == [i \in 0..(n + 1) |-> IF i = n + 1 THEN m + Len(x) ELSE f[i]]
<1>1. n \in Nat /\ m \in Nat /\ Len(x) \in Nat
  OBVIOUS
<1>2. /\ Len(xs) = n + 1 /\ xs[n + 1] = x /\ \A i \in 1..n : xs[i] = ws[i]
  OBVIOUS
<1>3. /\ Len(more) = m + Len(x)
      /\ \A i \in 1..m : more[i] = flat[i]
      /\ \A j \in 1..Len(x) : more[m + j] = x[j]
  OBVIOUS
<1>4. /\ f \in [0..n -> Nat] /\ f[0] = 0 /\ f[n] = m
      /\ \A i \in 1..n : /\ f[i] = f[i - 1] + Len(ws[i]) /\ f[i] <= m
                         /\ \A j \in 1..Len(ws[i]) : flat[f[i - 1] + j] = ws[i][j]
  BY DEF Offsets
<1>5. \A i \in 1..n : Len(ws[i]) \in Nat
  BY ElementOfSeq
<1>6. g \in [0..(n + 1) -> Nat] /\ g[n + 1] = m + Len(x) /\ \A i \in 0..n : g[i] = f[i]
  BY <1>1, <1>4
<1> HIDE DEF n, m, xs, more, g
<1>7. ASSUME NEW i \in 1..(n + 1)
      PROVE  /\ g[i] = g[i - 1] + Len(xs[i]) /\ g[i] <= Len(more)
             /\ \A j \in 1..Len(xs[i]) : more[g[i - 1] + j] = xs[i][j]
  <2>1. CASE i \in 1..n
    <3>1. g[i] = f[i] /\ g[i - 1] = f[i - 1] /\ xs[i] = ws[i] /\ f[i - 1] \in Nat
      BY <1>1, <1>2, <1>4, <1>6, <2>1
    <3>2. f[i] = f[i - 1] + Len(ws[i]) /\ f[i] <= m
      BY <1>4, <2>1
    <3>3. ASSUME NEW j \in 1..Len(ws[i]) PROVE more[f[i - 1] + j] = ws[i][j]
      <4>1. f[i - 1] + j \in 1..m
        <5> DEFINE from == f[i - 1]
                   k == Len(ws[i])
        <5>1. from \in Nat /\ from + k <= m /\ m \in Nat
          BY <1>1, <3>1, <3>2
        <5>2. k \in Nat /\ j \in 1..k
          BY <1>5, <2>1
        <5> HIDE DEF from, k
        <5>3. from + j \in 1..m
          BY <5>1, <5>2
        <5> QED
          BY <5>3, Zenon DEF from
      <4> QED
        BY <1>3, <1>4, <2>1, <4>1
    <3> QED
      BY <1>1, <1>3, <3>1, <3>2, <3>3
  <2>2. CASE i = n + 1
    BY <1>1, <1>2, <1>3, <1>4, <1>6, <2>2
  <2> QED
    BY <1>1, <2>1, <2>2
<1>8. Offsets(xs, more, g)
  BY <1>1, <1>2, <1>3, <1>4, <1>6, <1>7 DEF Offsets
<1> QED
  BY <1>8 DEF xs, more

LEMMA OffsetsAre ==
  ASSUME NEW S
  PROVE  \A ws \in Seq(Seq(S)) : \E f : Offsets(ws, FlattenSeq(ws), f)
<1> DEFINE T == {ws \in Seq(Seq(S)) : \E f : Offsets(ws, FlattenSeq(ws), f)}
<1>1. <<>> \in T
  <2>1. <<>> \in Seq(Seq(S)) /\ Len(<<>>) = 0 /\ FlattenSeq(<<>>) = <<>>
    BY FlattenEmpty
  <2>2. Offsets(<<>>, <<>>, [i \in 0..0 |-> 0])
    BY DEF Offsets
  <2> QED
    BY <2>1, <2>2
<1>2. ASSUME NEW ws \in Seq(Seq(S)), NEW x \in Seq(S), ws \in T PROVE Append(ws, x) \in T
  <2>1. PICK f : Offsets(ws, FlattenSeq(ws), f)
    BY <1>2
  <2>2. FlattenSeq(ws) \in Seq(S) /\ FlattenSeq(Append(ws, x)) = FlattenSeq(ws) \o x
    BY FlattenTyped, FlattenAppend
  <2>3. \E g : Offsets(Append(ws, x), FlattenSeq(Append(ws, x)), g)
    BY <2>1, <2>2, OffsetsAppend
  <2>4. Append(ws, x) \in Seq(Seq(S))
    BY AppendProperties
  <2> QED
    BY <2>3, <2>4
<1> HIDE DEF T
<1>3. \A ws \in Seq(Seq(S)) : ws \in T
  BY <1>1, <1>2, ByPrefixes
<1> QED
  BY <1>3 DEF T

(* What is left of a text from a piece on: the piece, and what is left      *)
(* behind it.                                                               *)
LeftOf(flat, m) == SubSeq(flat, m + 1, Len(flat))
Splits(flat, p, w, q) == LeftOf(flat, p) = w \o LeftOf(flat, q)

LEMMA BehindPiece ==
  ASSUME NEW S, NEW flat \in Seq(S), NEW w \in Seq(S), NEW p \in Nat, NEW q \in Nat,
         q = p + Len(w), q <= Len(flat), \A j \in 1..Len(w) : flat[p + j] = w[j]
  PROVE  Splits(flat, p, w, q)
<1> DEFINE m == Len(flat)
           a == SubSeq(flat, p + 1, m)
           b == SubSeq(flat, q + 1, m)
           c == w \o b
<1>1. m \in Nat /\ Len(w) \in Nat
  OBVIOUS
<1>2. /\ a \in Seq(S) /\ Len(a) = m - p /\ \A j \in 1..(m - p) : a[j] = flat[p + j]
      /\ b \in Seq(S) /\ Len(b) = m - q /\ \A j \in 1..(m - q) : b[j] = flat[q + j]
  OBVIOUS
<1> HIDE DEF a, b, m
<1>3. /\ c \in Seq(S) /\ Len(c) = Len(w) + Len(b)
      /\ \A j \in 1..Len(w) : c[j] = w[j]
      /\ \A j \in 1..Len(b) : c[Len(w) + j] = b[j]
  <2>1. b \in Seq(S)
    BY <1>2
  <2> QED
    BY <2>1
<1> HIDE DEF c
<1>4. \A j \in 1..Len(a) : a[j] = c[j]
  <2> SUFFICES ASSUME NEW j \in 1..Len(a) PROVE a[j] = c[j]
    OBVIOUS
  <2>1. CASE j <= Len(w)
    BY <1>1, <1>2, <1>3, <2>1
  <2>2. CASE j > Len(w)
    <3> DEFINE k == j - Len(w)
    <3>1. k \in 1..Len(b) /\ j = Len(w) + k /\ p + j = q + k
      BY <1>1, <1>2, <2>2
    <3> HIDE DEF k
    <3>2. c[j] = b[k] /\ b[k] = flat[q + k]
      BY <1>1, <1>2, <1>3, <3>1
    <3> QED
      BY <1>1, <1>2, <3>1, <3>2
  <2> QED
    BY <1>1, <1>2, <2>1, <2>2
<1>5. Len(a) = Len(c)
  BY <1>1, <1>2, <1>3
<1>6. a = c
  BY <1>2, <1>3, <1>4, <1>5, SeqEqual
<1> QED
  BY <1>6, Zenon DEF Splits, LeftOf, a, b, c, m

LEMMA OffsetsRest ==
  ASSUME NEW S, NEW ws \in Seq(Seq(S)), NEW flat \in Seq(S), NEW f, Offsets(ws, flat, f),
         NEW i \in 1..Len(ws)
  PROVE  Splits(flat, f[i - 1], ws[i], f[i])
<1>1. /\ f[i] \in Nat /\ f[i - 1] \in Nat /\ f[i] = f[i - 1] + Len(ws[i]) /\ f[i] <= Len(flat)
      /\ \A j \in 1..Len(ws[i]) : flat[f[i - 1] + j] = ws[i][j]
  <2>1. Len(ws) \in Nat /\ i \in 0..Len(ws) /\ i - 1 \in 0..Len(ws)
    OBVIOUS
  <2>2. f[i] \in Nat /\ f[i - 1] \in Nat
    BY <2>1 DEF Offsets
  <2> QED
    BY <2>2, Zenon DEF Offsets
<1>2. ws[i] \in Seq(S)
  BY ElementOfSeq
<1> QED
  BY <1>1, <1>2, BehindPiece
-----------------------------------------------------------------------------
(* The search for brackets. *)

LEMMA FirstFromIs ==
  ASSUME NEW t, Len(t) \in Nat, NEW c, NEW i \in Nat \ {0}
  PROVE  LET r == FirstFrom(t, c, i)
         IN \/ r = 0 /\ \A j \in i..Len(t) : t[j] # c
            \/ r \in i..Len(t) /\ t[r] = c /\ \A j \in i..Len(t) : t[j] = c => r <= j
<1> DEFINE at == {j \in i..Len(t) : t[j] = c}
           r == FirstFrom(t, c, i)
<1>1. CASE at = {}
  <2>1. r = 0
    BY <1>1 DEF FirstFrom
  <2> QED
    BY <1>1, <2>1
<1>2. CASE at # {}
  <2>1. r = Min(at)
    BY <1>2 DEF FirstFrom
  <2>2. at \subseteq Nat
    OBVIOUS
  <2> HIDE DEF at, r
  <2>3. \E m \in at : \A j \in at : m <= j
    BY <1>2, <2>2, LeastMember
  <2>4. r \in at /\ \A j \in at : r <= j
    BY <2>1, <2>3 DEF Min
  <2> QED
    BY <2>4 DEF at, r
<1> QED
  BY <1>1, <1>2

LEMMA FirstFromNext ==
  ASSUME NEW t, Len(t) \in Nat, NEW c
  PROVE  /\ FirstFrom(t, c, Len(t) + 1) = 0
         /\ \A i \in 1..Len(t) :
              FirstFrom(t, c, i) = IF t[i] = c THEN i ELSE FirstFrom(t, c, i + 1)
<1>1. FirstFrom(t, c, Len(t) + 1) = 0
  BY FirstFromIs
<1>2. ASSUME NEW i \in 1..Len(t), t[i] = c PROVE FirstFrom(t, c, i) = i
  BY <1>2, FirstFromIs
<1>3. ASSUME NEW i \in 1..Len(t), t[i] # c PROVE FirstFrom(t, c, i) = FirstFrom(t, c, i + 1)
  <2>1. {j \in i..Len(t) : t[j] = c} = {j \in (i + 1)..Len(t) : t[j] = c}
    BY <1>3
  <2> QED
    BY <2>1 DEF FirstFrom
<1> QED
  BY <1>1, <1>2, <1>3

(* What ToMirc makes of the text from cur on, when from is what it makes of *)
(* each shorter rest.                                                       *)
Close(t, cur) ==
  LET open == FirstFrom(t, "[", cur) IN IF open = 0 THEN 0 ELSE FirstFrom(t, "]", open)
TagAt(t, open, close) == close = open + 2 /\ t[open + 1] \in DOMAIN Mirc
Piecewise(t, from, cur) ==
  IF Close(t, cur) = 0 THEN SubSeq(t, cur, Len(t))
  ELSE IF TagAt(t, FirstFrom(t, "[", cur), Close(t, cur))
  THEN Replaced(t, cur, FirstFrom(t, "[", cur), Close(t, cur)) \o from[Close(t, cur) + 1]
  ELSE SubSeq(t, cur, Close(t, cur)) \o from[Close(t, cur) + 1]

LEMMA CloseIs ==
  ASSUME NEW t, Len(t) \in Nat, NEW cur \in Nat \ {0}, Close(t, cur) # 0
  PROVE  LET open == FirstFrom(t, "[", cur)
         IN open \in cur..Len(t) /\ Close(t, cur) \in open..Len(t)
<1>1. FirstFrom(t, "[", cur) \in cur..Len(t)
  BY FirstFromIs DEF Close
<1>2. FirstFrom(t, "[", cur) # 0 /\ FirstFrom(t, "[", cur) \in Nat \ {0}
  BY <1>1
<1>3. Close(t, cur) = FirstFrom(t, "]", FirstFrom(t, "[", cur))
  BY <1>2 DEF Close
<1> QED
  BY <1>1, <1>2, <1>3, FirstFromIs

LEMMA PiecewiseLater ==
  ASSUME NEW t, Len(t) \in Nat, NEW cur \in 1..(Len(t) + 1), NEW x, NEW y,
         \A j \in (cur + 1)..(Len(t) + 1) : x[j] = y[j]
  PROVE  Piecewise(t, x, cur) = Piecewise(t, y, cur)
<1>1. CASE Close(t, cur) = 0
  BY <1>1 DEF Piecewise
<1>2. CASE Close(t, cur) # 0
  <2>1. cur \in Nat \ {0}
    OBVIOUS
  <2>2. FirstFrom(t, "[", cur) \in cur..Len(t) /\ Close(t, cur) \in FirstFrom(t, "[", cur)..Len(t)
    BY <1>2, <2>1, CloseIs
  <2>3. Close(t, cur) + 1 \in (cur + 1)..(Len(t) + 1)
    BY <2>2
  <2>4. x[Close(t, cur) + 1] = y[Close(t, cur) + 1]
    BY <2>3
  <2> QED
    BY <2>4, Zenon DEF Piecewise
<1> QED
  BY <1>1, <1>2

(* The function that ToMirc recurses with. *)
LEMMA ToMircIs ==
  ASSUME NEW t, Len(t) \in Nat
  PROVE  \E from : /\ from = [cur \in 1..(Len(t) + 1) |-> Piecewise(t, from, cur)]
                   /\ ToMirc(t) = from[1]
<1> DEFINE n == Len(t) + 1
           Is(f, k) == f = [cur \in k..n |-> Piecewise(t, f, cur)]
           whole == CHOOSE f : Is(f, 1)
           T == {m \in 0..n : \E f : Is(f, n + 1 - m)}
<1>1. ToMirc(t) = whole[1]
  BY Zenon DEF ToMirc, Piecewise, Close, TagAt
<1>2. n \in Nat
  OBVIOUS
<1>3. 0 \in T
  <2>1. Is([cur \in (n + 1 - 0)..n |-> t], n + 1 - 0)
    OBVIOUS
  <2>2. 0 \in 0..n
    BY <1>2
  <2> HIDE DEF Is
  <2> QED
    BY <2>1, <2>2
<1>4. ASSUME NEW m \in 1..n, m - 1 \in T PROVE m \in T
  <2> DEFINE k == n + 1 - m
  <2>1. PICK f : Is(f, k + 1)
    <3>1. n + 1 - (m - 1) = k + 1
      BY <1>2
    <3>2. \E f : Is(f, n + 1 - (m - 1))
      BY <1>4
    <3> QED
      BY <3>1, <3>2, Zenon
  <2>2. k \in 1..n
    BY <1>2
  <2> HIDE DEF k
  <2> DEFINE g == [cur \in k..n |-> IF cur = k THEN Piecewise(t, f, k) ELSE f[cur]]
  <2>3. \A cur \in (k + 1)..n : g[cur] = f[cur]
    BY <1>2, <2>2
  <2>4. g[k] = Piecewise(t, f, k)
    BY <1>2, <2>2
  <2> HIDE DEF n
  <2>5. ASSUME NEW cur \in k..n PROVE g[cur] = Piecewise(t, g, cur)
    <3>1. cur \in 1..n /\ \A j \in (cur + 1)..n : j \in (k + 1)..n
      BY <1>2, <2>2
    <3>2. \A j \in (cur + 1)..n : f[j] = g[j]
      BY <2>3, <3>1
    <3> HIDE DEF g
    <3>3. Piecewise(t, f, cur) = Piecewise(t, g, cur)
      BY <3>1, <3>2, PiecewiseLater, Zenon DEF n
    <3>4. CASE cur = k
      BY <2>4, <3>3, <3>4
    <3>5. CASE cur # k
      <4>1. cur \in (k + 1)..n
        BY <1>2, <2>2, <3>5
      <4>2. f[cur] = Piecewise(t, f, cur)
        BY <2>1, <4>1
      <4> QED
        BY <2>3, <3>3, <4>1, <4>2
    <3> QED
      BY <3>4, <3>5
  <2>6. Is(g, k)
    BY <2>5
  <2>7. m \in 0..n
    BY <1>2
  <2>8. \E h : Is(h, k)
    <3> HIDE DEF g, Is
    <3> QED
      BY <2>6, Zenon
  <2> QED
    BY <2>7, <2>8 DEF k
<1>5. n \in T
  <2>1. n \in 0..n
    BY <1>2
  <2> HIDE DEF T, n
  <2> QED
    BY <1>2, <1>3, <1>4, <2>1, Upwards
<1>6. \E f : Is(f, 1)
  <2>1. n + 1 - n = 1
    BY <1>2
  <2>2. \E f : Is(f, n + 1 - n)
    BY <1>5
  <2> QED
    BY <2>1, <2>2, Zenon
<1>7. Is(whole, 1)
  BY <1>6, Zenon
<1> QED
  BY <1>1, <1>7, Zenon
(* The characters of a text with tags. *)
Sign == Char \cup DOMAIN Mirc

LEMMA Concats ==
  ASSUME NEW s \in Seq(Sign), NEW t \in Seq(Sign), NEW u \in Seq(Sign)
  PROVE  Regroups(s, t, u) /\ s \o t \in Seq(Sign)
BY ConcatAssociative, ConcatProperties DEF Regroups

LEMMA SubHead ==
  ASSUME NEW S, NEW t \in Seq(S), NEW a \in 1..Len(t), NEW b \in a..Len(t)
  PROVE  /\ SubSeq(t, a, b) = <<t[a]>> \o SubSeq(t, a + 1, b)
         /\ <<t[a]>> \in Seq(S) /\ SubSeq(t, a + 1, b) \in Seq(S)
<1> DEFINE u == SubSeq(t, a, b)
           v == SubSeq(t, a + 1, b)
           w == <<t[a]>> \o v
<1>1. /\ u \in Seq(S) /\ Len(u) = b - a + 1
      /\ \A j \in 1..(b - a + 1) : u[j] = t[a + j - 1]
      /\ v \in Seq(S) /\ Len(v) = b - a
      /\ \A j \in 1..(b - a) : v[j] = t[a + j]
      /\ t[a] \in S
  OBVIOUS
<1> HIDE DEF u, v
<1>2. /\ w \in Seq(S) /\ Len(w) = b - a + 1 /\ w[1] = t[a]
      /\ \A j \in 1..(b - a) : w[j + 1] = v[j]
  BY <1>1
<1> HIDE DEF w
<1>3. \A j \in 1..Len(u) : u[j] = w[j]
  <2> SUFFICES ASSUME NEW j \in 1..(b - a + 1) PROVE u[j] = w[j]
    BY <1>1
  <2>1. CASE j = 1
    BY <1>1, <1>2, <2>1
  <2>2. CASE j # 1
    <3>1. j - 1 \in 1..(b - a) /\ (j - 1) + 1 = j /\ a + (j - 1) = a + j - 1
      BY <2>2
    <3> QED
      BY <1>1, <1>2, <3>1
  <2> QED
    BY <2>1, <2>2
<1>4. u = w
  BY <1>1, <1>2, <1>3, SeqEqual
<1> QED
  BY <1>1, <1>4 DEF u, v, w

(* What ToMirc makes of the rest of a text from each position on. *)
Rests(t, from) == from = [cur \in 1..(Len(t) + 1) |-> Piecewise(t, from, cur)]

LEMMA RestsTyped ==
  ASSUME NEW t \in Seq(Sign), NEW from, Rests(t, from),
         \A n \in DOMAIN Mirc : Mirc[n] \in Seq(Sign)
  PROVE  \A cur \in 1..(Len(t) + 1) : from[cur] \in Seq(Sign)
<1> DEFINE n == Len(t) + 1
           T == {m \in 0..n : \A cur \in (n + 1 - m)..n : from[cur] \in Seq(Sign)}
<1>1. n \in Nat /\ Len(t) \in Nat
  OBVIOUS
<1>2. 0 \in T
  BY <1>1
<1>3. ASSUME NEW m \in 1..n, m - 1 \in T PROVE m \in T
  <2> DEFINE k == n + 1 - m
             open == FirstFrom(t, "[", k)
             close == Close(t, k)
  <2>1. k \in 1..n /\ m \in 0..n /\ \A j \in (k + 1)..n : from[j] \in Seq(Sign)
    <3>1. k + 1 = n + 1 - (m - 1)
      BY <1>1
    <3>2. \A j \in (n + 1 - (m - 1))..n : from[j] \in Seq(Sign)
      BY <1>3
    <3> QED
      BY <1>1, <3>1, <3>2
  <2> HIDE DEF k
  <2>2. from[k] = Piecewise(t, from, k)
    BY <2>1 DEF Rests
  <2>3. from[k] \in Seq(Sign)
    <3>3. CASE close = 0
      <4>1. from[k] = SubSeq(t, k, Len(t))
        BY <2>2, <3>3, Zenon DEF Piecewise
      <4>2. from[k] \in Seq(Sign)
        <5> HIDE DEF Sign
        <5> QED
          BY <1>1, <2>1, <4>1
      <4> QED
        BY <4>2
    <3>4. CASE close # 0
      <4>1. k \in Nat \ {0}
        BY <2>1
      <4>2. open \in k..Len(t) /\ close \in open..Len(t)
        BY <1>1, <3>4, <4>1, CloseIs
      <4>3. from[close + 1] \in Seq(Sign)
        <5>1. close + 1 \in (k + 1)..n
          BY <1>1, <2>1, <4>2
        <5> QED
          BY <2>1, <5>1
      <4>4. SubSeq(t, k, close) \in Seq(Sign) /\ SubSeq(t, k, open - 1) \in Seq(Sign)
        <5>1. \A a \in Nat \ {0} : \A b \in 0..Len(t) : SubSeq(t, a, b) \in Seq(Sign)
          <6> HIDE DEF Sign
          <6> QED
            OBVIOUS
        <5>2. close \in 0..Len(t) /\ open - 1 \in 0..Len(t)
          BY <1>1, <2>1, <4>2
        <5> QED
          BY <4>1, <5>1, <5>2
      <4>5. TagAt(t, open, close) => Mirc[t[open + 1]] \in Seq(Sign)
        BY DEF TagAt
      <4> HIDE DEF Sign, open, close
      <4>6. TagAt(t, open, close) => Replaced(t, k, open, close) \in Seq(Sign)
        BY <4>4, <4>5, ConcatProperties DEF Replaced
      <4>7. from[k] = IF TagAt(t, open, close)
                      THEN Replaced(t, k, open, close) \o from[close + 1]
                      ELSE SubSeq(t, k, close) \o from[close + 1]
        BY <2>2, <3>4, Zenon DEF Piecewise, open, close
      <4> DEFINE rest == from[close + 1]
                 tag == Replaced(t, k, open, close)
                 all == SubSeq(t, k, close)
      <4>8. \A x, y \in Seq(Sign) : x \o y \in Seq(Sign)
        BY ConcatProperties
      <4>9. CASE TagAt(t, open, close)
        <5>1. from[k] = tag \o rest /\ tag \in Seq(Sign) /\ rest \in Seq(Sign)
          BY <4>3, <4>6, <4>7, <4>9, Zenon
        <5> QED
          BY <4>8, <5>1, Zenon
      <4>10. CASE ~TagAt(t, open, close)
        <5>1. from[k] = all \o rest /\ all \in Seq(Sign) /\ rest \in Seq(Sign)
          BY <4>3, <4>4, <4>7, <4>10, Zenon
        <5> QED
          BY <4>8, <5>1, Zenon
      <4> QED
        BY <4>9, <4>10
    <3> QED
      BY <3>3, <3>4
  <2>4. \A cur \in k..n : cur = k \/ cur \in (k + 1)..n
    BY <1>1, <2>1
  <2> QED
    BY <2>1, <2>3, <2>4 DEF k
<1>4. n \in T
  <2>1. n \in 0..n
    BY <1>1
  <2> HIDE DEF T, n
  <2> QED
    BY <1>1, <1>2, <1>3, <2>1, Upwards
<1>5. n + 1 - n = 1
  BY <1>1
<1>6. \A cur \in (n + 1 - n)..n : from[cur] \in Seq(Sign)
  BY <1>4
<1> QED
  BY <1>5, <1>6

(* A character that opens no tag is copied. *)
LEMMA RestCopies ==
  ASSUME NEW t \in Seq(Sign), NEW from, Rests(t, from), NEW cur \in 1..Len(t), t[cur] # "[",
         \A n \in DOMAIN Mirc : Mirc[n] \in Seq(Sign)
  PROVE  from[cur] = <<t[cur]>> \o from[cur + 1]
<1> DEFINE n == Len(t)
           open == FirstFrom(t, "[", cur)
           close == Close(t, cur)
<1>1. n \in Nat /\ cur \in 1..(n + 1) /\ cur + 1 \in 1..(n + 1) /\ cur + 1 \in Nat \ {0}
  OBVIOUS
<1>2. open = FirstFrom(t, "[", cur + 1) /\ close = Close(t, cur + 1)
  <2>1. open = FirstFrom(t, "[", cur + 1)
    BY <1>1, FirstFromNext
  <2> QED
    BY <2>1, Zenon DEF Close
<1>3. from[cur] = Piecewise(t, from, cur) /\ from[cur + 1] = Piecewise(t, from, cur + 1)
  BY <1>1 DEF Rests
<1>4. \A j \in 1..(n + 1) : from[j] \in Seq(Sign)
  BY RestsTyped
<1>5. CASE close = 0
  <2>1. from[cur] = SubSeq(t, cur, n) /\ from[cur + 1] = SubSeq(t, cur + 1, n)
    BY <1>2, <1>3, <1>5, Zenon DEF Piecewise
  <2> QED
    BY <1>1, <2>1, SubHead
<1>6. CASE close # 0
  <2>1. open \in (cur + 1)..n /\ close \in open..n
    BY <1>1, <1>2, <1>6, CloseIs
  <2>2. from[close + 1] \in Seq(Sign)
    BY <1>1, <1>4, <2>1
  <2>3. CASE TagAt(t, open, close)
    <3> DEFINE m == Mirc[t[open + 1]]
    <3>1. /\ from[cur] = Replaced(t, cur, open, close) \o from[close + 1]
          /\ from[cur + 1] = Replaced(t, cur + 1, open, close) \o from[close + 1]
      BY <1>2, <1>3, <1>6, <2>3, Zenon DEF Piecewise
    <3>2. m \in Seq(Sign)
      BY <2>3 DEF TagAt
    <3>3. open - 1 \in cur..n
      BY <1>1, <2>1
    <3>4. /\ SubSeq(t, cur, open - 1) = <<t[cur]>> \o SubSeq(t, cur + 1, open - 1)
          /\ <<t[cur]>> \in Seq(Sign) /\ SubSeq(t, cur + 1, open - 1) \in Seq(Sign)
      BY <3>3, SubHead
    <3> DEFINE a == SubSeq(t, cur + 1, open - 1)
    <3>5. Regroups(<<t[cur]>>, a, m) /\ a \o m \in Seq(Sign)
      BY <3>2, <3>4, Concats
    <3>6. Regroups(<<t[cur]>>, a \o m, from[close + 1])
      BY <2>2, <3>4, <3>5, Concats
    <3> QED
      BY <3>1, <3>4, <3>5, <3>6, Zenon DEF Replaced, Regroups
  <2>4. CASE ~TagAt(t, open, close)
    <3>1. /\ from[cur] = SubSeq(t, cur, close) \o from[close + 1]
          /\ from[cur + 1] = SubSeq(t, cur + 1, close) \o from[close + 1]
      BY <1>2, <1>3, <1>6, <2>4, Zenon DEF Piecewise
    <3>2. close \in cur..n
      BY <1>1, <2>1
    <3>3. /\ SubSeq(t, cur, close) = <<t[cur]>> \o SubSeq(t, cur + 1, close)
          /\ <<t[cur]>> \in Seq(Sign) /\ SubSeq(t, cur + 1, close) \in Seq(Sign)
      BY <3>2, SubHead
    <3>4. Regroups(<<t[cur]>>, SubSeq(t, cur + 1, close), from[close + 1])
      BY <2>2, <3>3, Concats
    <3> QED
      BY <3>1, <3>3, <3>4, Zenon DEF Regroups
  <2> QED
    BY <2>3, <2>4
<1> QED
  BY <1>5, <1>6

(* A tag is replaced. *)
LEMMA RestReplaces ==
  ASSUME NEW t \in Seq(Sign), NEW from, Rests(t, from), NEW cur \in 1..Len(t), t[cur] = "[",
         cur + 2 <= Len(t), t[cur + 1] \in DOMAIN Mirc, t[cur + 1] # "]", t[cur + 2] = "]",
         \A n \in DOMAIN Mirc : Mirc[n] \in Seq(Sign)
  PROVE  from[cur] = Mirc[t[cur + 1]] \o from[cur + 3]
<1>1. Len(t) \in Nat /\ cur \in 1..(Len(t) + 1) /\ cur + 1 \in 1..Len(t) /\ cur + 2 \in 1..Len(t)
      /\ cur + 1 + 1 = cur + 2 /\ cur + 2 + 1 = cur + 3
  OBVIOUS
<1>2. FirstFrom(t, "[", cur) = cur
  BY <1>1, FirstFromNext
<1>3. "[" # "]"
  OBVIOUS
<1>4. FirstFrom(t, "]", cur) = cur + 2
  <2>1. FirstFrom(t, "]", cur) = FirstFrom(t, "]", cur + 1)
    BY <1>1, <1>3, FirstFromNext
  <2>2. FirstFrom(t, "]", cur + 1) = FirstFrom(t, "]", cur + 2)
    <3>1. \A i \in 1..Len(t) :
            FirstFrom(t, "]", i) = IF t[i] = "]" THEN i ELSE FirstFrom(t, "]", i + 1)
      BY <1>1, FirstFromNext, Zenon
    <3>2. FirstFrom(t, "]", cur + 1) = FirstFrom(t, "]", cur + 1 + 1)
      BY <1>1, <3>1, Zenon
    <3> QED
      BY <1>1, <3>2, Zenon
  <2>3. FirstFrom(t, "]", cur + 2) = cur + 2
    BY <1>1, FirstFromNext
  <2> QED
    BY <2>1, <2>2, <2>3
<1>5. Close(t, cur) = cur + 2 /\ cur + 2 # 0
  BY <1>1, <1>2, <1>4 DEF Close
<1>6. TagAt(t, cur, cur + 2)
  BY DEF TagAt
<1>7. from[cur] = Replaced(t, cur, cur, cur + 2) \o from[cur + 3]
  <2>1. from[cur] = Piecewise(t, from, cur)
    BY <1>1 DEF Rests
  <2> QED
    BY <1>1, <1>2, <1>5, <1>6, <2>1, Zenon DEF Piecewise
<1>8. Replaced(t, cur, cur, cur + 2) = Mirc[t[cur + 1]]
  <2>1. SubSeq(t, cur, cur - 1) = <<>>
    BY <1>1
  <2>2. <<>> \o Mirc[t[cur + 1]] = Mirc[t[cur + 1]]
    OBVIOUS
  <2> QED
    BY <2>1, <2>2, Zenon DEF Replaced
<1> QED
  BY <1>7, <1>8
(* What ToMirc makes of the rest of a text whose bracket, open before cur,  *)
(* encloses no tag.                                                         *)
InBrackets(t, from, cur) ==
  LET close == FirstFrom(t, "]", cur)
  IN IF close = 0 THEN SubSeq(t, cur, Len(t)) ELSE SubSeq(t, cur, close) \o from[close + 1]

LEMMA BracketCopies ==
  ASSUME NEW t \in Seq(Sign), NEW from, Rests(t, from), NEW cur \in 1..Len(t), t[cur] = "[",
         cur + 1 \in 1..Len(t) => t[cur + 1] \notin DOMAIN Mirc,
         \A n \in DOMAIN Mirc : Mirc[n] \in Seq(Sign)
  PROVE  from[cur] = <<t[cur]>> \o InBrackets(t, from, cur + 1)
<1> DEFINE n == Len(t)
           close == FirstFrom(t, "]", cur + 1)
<1>1. n \in Nat /\ cur \in 1..(n + 1) /\ cur + 1 \in Nat \ {0} /\ cur # 0 /\ "[" # "]"
  OBVIOUS
<1>2. FirstFrom(t, "[", cur) = cur /\ FirstFrom(t, "]", cur) = close
  <2>1. FirstFrom(t, "[", cur) = cur
    BY <1>1, FirstFromNext
  <2>2. FirstFrom(t, "]", cur) = close
    BY <1>1, FirstFromNext
  <2> QED
    BY <2>1, <2>2
<1>3. close = 0 \/ close \in (cur + 1)..n
  BY <1>1, FirstFromIs
<1> HIDE DEF close
<1>4. Close(t, cur) = close
  BY <1>1, <1>2, Zenon DEF Close
<1>5. from[cur] = Piecewise(t, from, cur)
  BY <1>1 DEF Rests
<1>6. CASE close = 0
  <2>1. from[cur] = SubSeq(t, cur, n) /\ InBrackets(t, from, cur + 1) = SubSeq(t, cur + 1, n)
    BY <1>4, <1>5, <1>6, Zenon DEF Piecewise, InBrackets, close
  <2>2. n \in cur..n
    BY <1>1
  <2> QED
    BY <2>1, <2>2, SubHead
<1>7. CASE close # 0
  <2>1. ~TagAt(t, cur, close)
    <3> SUFFICES ASSUME TagAt(t, cur, close) PROVE FALSE
      OBVIOUS
    <3>1. close = cur + 2 /\ t[cur + 1] \in DOMAIN Mirc
      BY Zenon DEF TagAt
    <3>2. cur + 1 \in 1..n
      BY <1>1, <1>3, <1>7, <3>1
    <3> QED
      BY <3>1, <3>2
  <2>2. from[cur] = SubSeq(t, cur, close) \o from[close + 1]
    BY <1>2, <1>4, <1>5, <1>7, <2>1, Zenon DEF Piecewise
  <2>3. InBrackets(t, from, cur + 1) = SubSeq(t, cur + 1, close) \o from[close + 1]
    BY <1>7, Zenon DEF InBrackets, close
  <2>4. close \in cur..n /\ close + 1 \in 1..(n + 1)
    BY <1>1, <1>3, <1>7
  <2>5. from[close + 1] \in Seq(Sign)
    BY <2>4, RestsTyped
  <2>6. /\ SubSeq(t, cur, close) = <<t[cur]>> \o SubSeq(t, cur + 1, close)
        /\ <<t[cur]>> \in Seq(Sign) /\ SubSeq(t, cur + 1, close) \in Seq(Sign)
    BY <2>4, SubHead
  <2>7. Regroups(<<t[cur]>>, SubSeq(t, cur + 1, close), from[close + 1])
    BY <2>5, <2>6, Concats
  <2> QED
    BY <2>2, <2>3, <2>6, <2>7, Zenon DEF Regroups
<1> QED
  BY <1>6, <1>7

LEMMA WithinCopies ==
  ASSUME NEW t \in Seq(Sign), NEW from, Rests(t, from), NEW cur \in 1..Len(t),
         \A n \in DOMAIN Mirc : Mirc[n] \in Seq(Sign)
  PROVE  /\ t[cur] = "]" => InBrackets(t, from, cur) = <<t[cur]>> \o from[cur + 1]
         /\ t[cur] # "]" => InBrackets(t, from, cur) = <<t[cur]>> \o InBrackets(t, from, cur + 1)
<1> DEFINE n == Len(t)
           close == FirstFrom(t, "]", cur)
<1>1. n \in Nat /\ cur + 1 \in Nat \ {0} /\ cur # 0 /\ cur \in cur..n /\ n \in cur..n
  OBVIOUS
<1>2. CASE t[cur] = "]"
  <2>1. close = cur
    BY <1>1, <1>2, FirstFromNext
  <2>2. InBrackets(t, from, cur) = SubSeq(t, cur, cur) \o from[cur + 1]
    BY <1>1, <2>1, Zenon DEF InBrackets
  <2>3. SubSeq(t, cur, cur) = <<t[cur]>>
    <3>1. SubSeq(t, cur, cur) = <<t[cur]>> \o SubSeq(t, cur + 1, cur)
      BY <1>1, SubHead
    <3>2. SubSeq(t, cur + 1, cur) = <<>>
      BY <1>1
    <3>3. \A x : <<x>> \o <<>> = <<x>>
      OBVIOUS
    <3> QED
      BY <3>1, <3>2, <3>3, Zenon
  <2> QED
    BY <1>2, <2>2, <2>3, Zenon
<1>3. CASE t[cur] # "]"
  <2>1. close = FirstFrom(t, "]", cur + 1)
    BY <1>1, <1>3, FirstFromNext
  <2>2. close = 0 \/ close \in (cur + 1)..n
    BY <1>1, <2>1, FirstFromIs
  <2> HIDE DEF close
  <2>3. CASE close = 0
    <3>1. /\ InBrackets(t, from, cur) = SubSeq(t, cur, n)
          /\ InBrackets(t, from, cur + 1) = SubSeq(t, cur + 1, n)
      BY <2>1, <2>3, Zenon DEF InBrackets, close
    <3> QED
      BY <1>1, <1>3, <3>1, SubHead
  <2>4. CASE close # 0
    <3>1. /\ InBrackets(t, from, cur) = SubSeq(t, cur, close) \o from[close + 1]
          /\ InBrackets(t, from, cur + 1) = SubSeq(t, cur + 1, close) \o from[close + 1]
      BY <2>1, <2>4, Zenon DEF InBrackets, close
    <3>2. close \in cur..n /\ close + 1 \in 1..(n + 1)
      BY <1>1, <2>2, <2>4
    <3>3. from[close + 1] \in Seq(Sign)
      BY <3>2, RestsTyped
    <3>4. /\ SubSeq(t, cur, close) = <<t[cur]>> \o SubSeq(t, cur + 1, close)
          /\ <<t[cur]>> \in Seq(Sign) /\ SubSeq(t, cur + 1, close) \in Seq(Sign)
      BY <3>2, SubHead
    <3>5. Regroups(<<t[cur]>>, SubSeq(t, cur + 1, close), from[close + 1])
      BY <3>3, <3>4, Concats
    <3> QED
      BY <1>3, <3>1, <3>4, <3>5, Zenon DEF Regroups
  <2> QED
    BY <2>3, <2>4
<1> QED
  BY <1>2, <1>3

(* Nothing is left behind the last character. *)
LEMMA RestEnds ==
  ASSUME NEW t \in Seq(Sign), NEW from, Rests(t, from)
  PROVE  from[Len(t) + 1] = <<>> /\ InBrackets(t, from, Len(t) + 1) = <<>>
<1> DEFINE n == Len(t)
<1>1. n \in Nat /\ n + 1 \in 1..(n + 1)
  OBVIOUS
<1>2. FirstFrom(t, "[", n + 1) = 0 /\ FirstFrom(t, "]", n + 1) = 0
  BY <1>1, FirstFromNext
<1>3. Close(t, n + 1) = 0
  BY <1>2, Zenon DEF Close
<1>4. from[n + 1] = Piecewise(t, from, n + 1)
  BY <1>1 DEF Rests
<1>5. SubSeq(t, n + 1, n) = <<>>
  <2> HIDE DEF Sign
  <2> QED
    BY <1>1
<1> QED
  BY <1>2, <1>3, <1>4, <1>5, Zenon DEF Piecewise, InBrackets
-----------------------------------------------------------------------------
(* The pieces of a text with tags, and what each one becomes. *)
Ordinary == Char \ (Toggles \cup {Reset, Color} \cup DOMAIN Mirc)
Image(p) == IF Len(p) = 3 THEN Mirc[p[2]] ELSE p
ItemOf(p) == IF Len(p) = 3 /\ p[2] \in DOMAIN Mirc THEN Tag(p[2]) ELSE <<p[1]>>

LEMMA PiecesAre ==
  /\ \A p \in TagPieces : \/ \E n \in DOMAIN Mirc : p = <<"[", n, "]">>
                          \/ \E c \in Ordinary : p = <<c>>
  /\ "[" \in Char /\ "]" \in Char /\ "[" \notin DOMAIN Mirc /\ "]" \notin DOMAIN Mirc
<1>1. ASSUME NEW p \in TagPieces
      PROVE  (\E n \in DOMAIN Mirc : p = <<"[", n, "]">>) \/ (\E c \in Ordinary : p = <<c>>)
  <2>1. CASE p \in {"["} \X (DOMAIN Mirc) \X {"]"}
    <3>1. \A T : p \in {"["} \X T \X {"]"} => \E n \in T : p = <<"[", n, "]">>
      OBVIOUS
    <3> QED
      BY <2>1, <3>1, Zenon
  <2>2. CASE /\ p \in Seq(Char) /\ Len(p) = 1
             /\ p[1] \notin Toggles \cup {Reset, Color} \cup DOMAIN Mirc
    <3>1. p = <<p[1]>> /\ p[1] \in Char
      <4> HIDE DEF Char
      <4> QED
        BY <2>2
    <3>2. p[1] \in Ordinary
      BY <2>2, <3>1, Zenon DEF Ordinary
    <3> QED
      BY <3>1, <3>2
  <2> QED
    BY <2>1, <2>2, TagAssumption, Zenon
<1>2. "[" \in Char /\ "]" \in Char
  BY TagAssumption
<1>3. DOMAIN Mirc = {"B", "/B", "U", "/U", "I", "/I", "/COLOR"} \cup DOMAIN ColorTags
  BY Zenon DEF Mirc
<1>4. "[" \notin DOMAIN Mirc /\ "]" \notin DOMAIN Mirc
  BY <1>3, TagAssumption
<1> QED
  BY <1>1, <1>2, <1>4, Zenon

(* What a tag becomes, and how it is read. *)
Value(a, b) == 10 * Digit[a] + Digit[b]

Toggling(n) == \E x \in Toggles : Mirc[n] = <<x>> /\ Tag(n) \in {"open", "close"} \X {TagOf[x]}
Resetting(n) == Mirc[n] = <<Reset>> /\ Tag(n) = <<"close", "COLOR">>
Coloring(n) == \E a, b \in DOMAIN Digit :
                 Mirc[n] = <<Color, a, b>> /\ Tag(n) = <<"COLOR", Value(a, b), -1>>
Grounding(n) == \E a, b, c, d \in DOMAIN Digit :
                  /\ Mirc[n] = <<Color, a, b, ",", c, d>>
                  /\ Tag(n) = <<"COLOR", Value(a, b), Value(c, d)>>

LEMMA TwoDigitsIs ==
  ASSUME NEW a \in DOMAIN Digit, NEW b \in DOMAIN Digit
  PROVE  Number(<<a, b>>, 1) = Value(a, b) /\ Number(<<a, b>>, 4) = -1
<1> DEFINE t == <<a, b>>
<1>1. DOMAIN t = {1, 2} /\ t[1] = a /\ t[2] = b
  OBVIOUS
<1> HIDE DEF t
<1>2. IsDigit(t, 1) /\ IsDigit(t, 1 + 1) /\ ~IsDigit(t, 4)
  BY <1>1 DEF IsDigit
<1>3. Digits(t, 1) = 2 /\ Digits(t, 4) = 0
  BY <1>2 DEF Digits
<1>4. Number(t, 1) = 10 * Digit[t[1]] + Digit[t[1 + 1]] /\ Number(t, 4) = -1
  BY <1>3 DEF Number
<1> QED
  BY <1>1, <1>4 DEF Value, t

FourDigits(a, b, c, d, e) ==
  Number(<<a, b, e, c, d>>, 1) = Value(a, b) /\ Number(<<a, b, e, c, d>>, 4) = Value(c, d)

LEMMA FourDigitsAre ==
  ASSUME NEW a \in DOMAIN Digit, NEW b \in DOMAIN Digit, NEW c \in DOMAIN Digit,
         NEW d \in DOMAIN Digit, NEW e
  PROVE  FourDigits(a, b, c, d, e)
<1> DEFINE t == <<a, b, e, c, d>>
<1>1. DOMAIN t = {1, 2, 3, 4, 5} /\ t[1] = a /\ t[2] = b /\ t[4] = c /\ t[5] = d
  OBVIOUS
<1> HIDE DEF t
<1>2. IsDigit(t, 1) /\ IsDigit(t, 1 + 1) /\ IsDigit(t, 4) /\ IsDigit(t, 4 + 1)
  BY <1>1 DEF IsDigit
<1>3. Digits(t, 1) = 2 /\ Digits(t, 4) = 2
  BY <1>2 DEF Digits
<1>4. /\ Number(t, 1) = 10 * Digit[t[1]] + Digit[t[1 + 1]]
      /\ Number(t, 4) = 10 * Digit[t[4]] + Digit[t[4 + 1]]
  BY <1>3 DEF Number
<1>5. Number(t, 1) = Value(a, b) /\ Number(t, 4) = Value(c, d)
  BY <1>1, <1>4 DEF Value
<1> QED
  BY <1>5, Zenon DEF FourDigits, t

LEMMA PairsAre ==
  ASSUME NEW x \in TwoDigits
  PROVE  \E a, b \in DOMAIN Digit : x = <<a, b>>
<1>1. \A T : x \in T \X T => \E a, b \in T : x = <<a, b>>
  OBVIOUS
<1> QED
  BY <1>1, Zenon DEF TwoDigits

LEMMA Joined ==
  ASSUME NEW S, NEW s \in Seq(S), NEW t \in Seq(S), NEW v \in Seq(S), Len(v) = Len(s) + Len(t),
         \A j \in 1..Len(s) : v[j] = s[j], \A j \in 1..Len(t) : v[Len(s) + j] = t[j]
  PROVE  s \o t = v
<1> DEFINE w == s \o t
<1>1. /\ w \in Seq(S) /\ Len(w) = Len(v) /\ Len(s) \in Nat /\ Len(t) \in Nat
      /\ \A j \in 1..Len(s) : w[j] = s[j]
      /\ \A j \in 1..Len(t) : w[Len(s) + j] = t[j]
  OBVIOUS
<1> HIDE DEF w
<1>2. \A j \in 1..Len(w) : w[j] = v[j]
  <2> SUFFICES ASSUME NEW j \in 1..Len(w) PROVE w[j] = v[j]
    OBVIOUS
  <2>1. CASE j <= Len(s)
    BY <1>1, <2>1
  <2>2. CASE j > Len(s)
    <3>1. j - Len(s) \in 1..Len(t) /\ j = Len(s) + (j - Len(s))
      BY <1>1, <2>2
    <3> QED
      BY <1>1, <3>1
  <2> QED
    BY <1>1, <2>1, <2>2
<1>3. w = v
  BY <1>1, <1>2, SeqEqual
<1> QED
  BY <1>3 DEF w

LEMMA JoinedTwo ==
  ASSUME NEW S, NEW a \in S, NEW b \in S, NEW c \in S
  PROVE  <<c>> \o <<a, b>> = <<c, a, b>>
<1> DEFINE s == <<c>>
           t == <<a, b>>
           v == <<c, a, b>>
<1>1. /\ s \in Seq(S) /\ Len(s) = 1 /\ s[1] = c
      /\ t \in Seq(S) /\ Len(t) = 2 /\ t[1] = a /\ t[2] = b
      /\ v \in Seq(S) /\ Len(v) = 3 /\ v[1] = c /\ v[2] = a /\ v[3] = b
  OBVIOUS
<1> HIDE DEF s, t, v
<1>2. \A j \in 1..1 : j = 1
  OBVIOUS
<1>3. \A j \in 1..2 : j = 1 \/ j = 2
  OBVIOUS
<1>4. s \o t = v
  <2>1. \A j \in 1..Len(s) : v[j] = s[j]
    BY <1>1, <1>2
  <2>2. \A j \in 1..Len(t) : v[Len(s) + j] = t[j]
    BY <1>1, <1>3
  <2>3. s \in Seq(S) /\ t \in Seq(S) /\ v \in Seq(S) /\ Len(v) = Len(s) + Len(t)
    BY <1>1
  <2> QED
    BY <2>1, <2>2, <2>3, Joined
<1> QED
  BY <1>4, Zenon DEF s, t, v

Six(S, a, b, c, d, e, f) == <<f, a, b, e, c, d>> \in Seq(S)

LEMMA SixAre ==
  ASSUME NEW S, NEW a \in S, NEW b \in S, NEW c \in S, NEW d \in S, NEW e \in S, NEW f \in S
  PROVE  Six(S, a, b, c, d, e, f)
BY DEF Six

Five(a, b, c, d, e, f) ==
  /\ <<f>> \o (<<a, b>> \o <<e>> \o <<c, d>>) = <<f, a, b, e, c, d>>
  /\ <<a, b>> \o <<e>> \o <<c, d>> = <<a, b, e, c, d>>

LEMMA JoinedFive ==
  ASSUME NEW S, NEW a \in S, NEW b \in S, NEW c \in S, NEW d \in S, NEW e \in S, NEW f \in S
  PROVE  Five(a, b, c, d, e, f)
<1> DEFINE x == <<a, b>>
           y == <<e>>
           z == <<c, d>>
           p == <<a, b, e>>
           q == <<a, b, e, c, d>>
           g == <<f>>
           v == <<f, a, b, e, c, d>>
<1>1. /\ x \in Seq(S) /\ Len(x) = 2 /\ x[1] = a /\ x[2] = b
      /\ y \in Seq(S) /\ Len(y) = 1 /\ y[1] = e
      /\ z \in Seq(S) /\ Len(z) = 2 /\ z[1] = c /\ z[2] = d
      /\ p \in Seq(S) /\ Len(p) = 3 /\ p[1] = a /\ p[2] = b /\ p[3] = e
      /\ q \in Seq(S) /\ Len(q) = 5 /\ q[1] = a /\ q[2] = b /\ q[3] = e /\ q[4] = c /\ q[5] = d
      /\ g \in Seq(S) /\ Len(g) = 1 /\ g[1] = f
      /\ v \in Seq(S) /\ Len(v) = 6 /\ v[1] = f /\ v[2] = a /\ v[3] = b /\ v[4] = e
      /\ v[5] = c /\ v[6] = d
  OBVIOUS
<1> HIDE DEF x, y, z, p, q, g, v
<1>2. /\ \A j \in 1..1 : j = 1
      /\ \A j \in 1..2 : j = 1 \/ j = 2
      /\ \A j \in 1..3 : j = 1 \/ j = 2 \/ j = 3
      /\ \A j \in 1..5 : j = 1 \/ j = 2 \/ j = 3 \/ j = 4 \/ j = 5
  OBVIOUS
<1>3. x \o y = p
  <2>1. \A j \in 1..Len(x) : p[j] = x[j]
    BY <1>1, <1>2
  <2>2. \A j \in 1..Len(y) : p[Len(x) + j] = y[j]
    BY <1>1, <1>2
  <2>3. x \in Seq(S) /\ y \in Seq(S) /\ p \in Seq(S) /\ Len(p) = Len(x) + Len(y)
    BY <1>1
  <2> QED
    BY <2>1, <2>2, <2>3, Joined
<1>4. p \o z = q
  <2>1. \A j \in 1..Len(p) : q[j] = p[j]
    BY <1>1, <1>2
  <2>2. \A j \in 1..Len(z) : q[Len(p) + j] = z[j]
    BY <1>1, <1>2
  <2>3. p \in Seq(S) /\ z \in Seq(S) /\ q \in Seq(S) /\ Len(q) = Len(p) + Len(z)
    BY <1>1
  <2> QED
    BY <2>1, <2>2, <2>3, Joined
<1>5. g \o q = v
  <2>1. \A j \in 1..Len(g) : v[j] = g[j]
    BY <1>1, <1>2
  <2>2. \A j \in 1..Len(q) : v[Len(g) + j] = q[j]
    BY <1>1, <1>2
  <2>3. g \in Seq(S) /\ q \in Seq(S) /\ v \in Seq(S) /\ Len(v) = Len(g) + Len(q)
    BY <1>1
  <2> QED
    BY <2>1, <2>2, <2>3, Joined
<1> QED
  BY <1>3, <1>4, <1>5, Zenon DEF x, y, z, p, q, g, v, Five

LEMMA TagIs ==
  ASSUME NEW n \in DOMAIN Mirc
  PROVE  Toggling(n) \/ Resetting(n) \/ Coloring(n) \/ Grounding(n)
<1> DEFINE Name == {"B", "/B", "U", "/U", "I", "/I", "/COLOR"}
<1>1. /\ n \in Name \cup DOMAIN ColorTags
      /\ Mirc[n] = CASE n \in {"B", "/B"} -> <<Bold>> [] n \in {"U", "/U"} -> <<Underline>>
                     [] n \in {"I", "/I"} -> <<Invert>> [] n = "/COLOR" -> <<Reset>>
                     [] OTHER -> <<Color>> \o ColorTags[n]
  BY Zenon DEF Mirc
<1>2. /\ Bold \in Toggles /\ Underline \in Toggles /\ Invert \in Toggles
      /\ TagOf[Bold] = "B" /\ TagOf[Underline] = "U" /\ TagOf[Invert] = "I"
  BY DEF Toggles, TagOf, Bold, Underline, Invert
<1> HIDE DEF Name
<1>3. CASE n \in {"B", "/B"}
  <2>1. Mirc[n] = <<Bold>>
    BY <1>1, <1>3
  <2>2. Tag(n) \in {"open", "close"} \X {"B"}
    BY <1>3 DEF Tag
  <2> QED
    BY <1>2, <2>1, <2>2, Zenon DEF Toggling
<1>4. CASE n \in {"U", "/U"}
  <2>1. Mirc[n] = <<Underline>>
    BY <1>1, <1>4
  <2>2. Tag(n) \in {"open", "close"} \X {"U"}
    BY <1>4 DEF Tag
  <2> QED
    BY <1>2, <2>1, <2>2, Zenon DEF Toggling
<1>5. CASE n \in {"I", "/I"}
  <2>1. Mirc[n] = <<Invert>>
    BY <1>1, <1>5
  <2>2. Tag(n) \in {"open", "close"} \X {"I"}
    BY <1>5 DEF Tag
  <2> QED
    BY <1>2, <2>1, <2>2, Zenon DEF Toggling
<1>6. CASE n = "/COLOR"
  BY <1>1, <1>6 DEF Resetting, Tag
<1>7. CASE n \notin Name
  <2>1. n \in DOMAIN ColorTags
    BY <1>1, <1>7
  <2> DEFINE ds == ColorTags[n]
  <2>2. ds \in TwoDigits \/ \E x, y \in TwoDigits : ds = x \o <<",">> \o y
    BY <2>1, TagAssumption, Zenon
  <2>3. Mirc[n] = <<Color>> \o ds
    BY <1>1, <1>7 DEF Name
  <2>4. Tag(n) = <<"COLOR", Number(ds, 1), Number(ds, 4)>>
    BY <1>7 DEF Name, Tag
  <2>7. "," \in Char /\ Color \in Char /\ DOMAIN Digit \subseteq Char
    BY TagAssumption
  <2> HIDE DEF ds
  <2>5. CASE ds \in TwoDigits
    <3>1. PICK a \in DOMAIN Digit, b \in DOMAIN Digit : ds = <<a, b>>
      BY <2>5, PairsAre
    <3>2. Number(ds, 1) = Value(a, b) /\ Number(ds, 4) = -1
      BY <3>1, TwoDigitsIs
    <3>3. <<Color>> \o <<a, b>> = <<Color, a, b>>
      BY <2>7, JoinedTwo
    <3>4. Mirc[n] = <<Color, a, b>> /\ Tag(n) = <<"COLOR", Value(a, b), -1>>
      BY <2>3, <2>4, <3>1, <3>2, <3>3, Zenon
    <3> QED
      BY <3>4, Zenon DEF Coloring
  <2>6. CASE \E x, y \in TwoDigits : ds = x \o <<",">> \o y
    <3>1. PICK x \in TwoDigits, y \in TwoDigits : ds = x \o <<",">> \o y
      BY <2>6
    <3>2. PICK a \in DOMAIN Digit, b \in DOMAIN Digit : x = <<a, b>>
      BY <3>1, PairsAre
    <3>3. PICK c \in DOMAIN Digit, d \in DOMAIN Digit : y = <<c, d>>
      BY <3>1, PairsAre
    <3>4. /\ <<Color>> \o (<<a, b>> \o <<",">> \o <<c, d>>) = <<Color, a, b, ",", c, d>>
          /\ <<a, b>> \o <<",">> \o <<c, d>> = <<a, b, ",", c, d>>
      <4>1. Five(a, b, c, d, ",", Color)
        BY <2>7, JoinedFive
      <4> QED
        BY <4>1, Zenon DEF Five
    <3>5. ds = <<a, b, ",", c, d>>
      BY <3>1, <3>2, <3>3, <3>4, Zenon
    <3>6. Number(ds, 1) = Value(a, b) /\ Number(ds, 4) = Value(c, d)
      <4>1. FourDigits(a, b, c, d, ",")
        BY FourDigitsAre
      <4> QED
        BY <3>5, <4>1, Zenon DEF FourDigits
    <3>8. Mirc[n] = <<Color, a, b, ",", c, d>> /\ Tag(n) = <<"COLOR", Value(a, b), Value(c, d)>>
      BY <2>3, <2>4, <3>1, <3>2, <3>3, <3>4, <3>6, Zenon
    <3> QED
      BY <3>8, Zenon DEF Grounding
  <2> QED
    BY <2>2, <2>5, <2>6, Zenon
<1> QED
  BY <1>3, <1>4, <1>5, <1>6, <1>7 DEF Name

LEMMA ImagesTyped ==
  /\ \A n \in DOMAIN Mirc : Mirc[n] \in Seq(Char) /\ Mirc[n] \in Seq(Sign) /\ Tag(n) \in Item
  /\ \A c \in Char : <<c>> \in Seq(Char)
<1>1. Toggles \cup {Reset, Color, ","} \cup DOMAIN Digit \subseteq Char
  BY TagAssumption
<1>2. \A a, b \in DOMAIN Digit : Value(a, b) \in Int
  BY DigitAssumption DEF Value
<1>3. \A c \in Char : <<c>> \in Seq(Char)
  OBVIOUS
<1>4. ASSUME NEW n \in DOMAIN Mirc PROVE Mirc[n] \in Seq(Char) /\ Tag(n) \in Item
  <2>1. CASE Toggling(n)
    <3>1. PICK x \in Toggles : Mirc[n] = <<x>> /\ Tag(n) \in {"open", "close"} \X {TagOf[x]}
      BY <2>1, Zenon DEF Toggling
    <3>2. x \in Char /\ TagOf[x] \in Tags
      BY <1>1, ControlCharacters DEF Tags
    <3> QED
      BY <1>3, <3>1, <3>2 DEF Item
  <2>2. CASE Resetting(n)
    <3>1. Reset \in Char /\ "COLOR" \in Tags
      BY <1>1 DEF Tags
    <3> QED
      BY <1>3, <2>2, <3>1, Items DEF Resetting
  <2>3. CASE Coloring(n)
    <3>1. PICK a \in DOMAIN Digit, b \in DOMAIN Digit :
            Mirc[n] = <<Color, a, b>> /\ Tag(n) = <<"COLOR", Value(a, b), -1>>
      BY <2>3, Zenon DEF Coloring
    <3>2. a \in Char /\ b \in Char /\ Color \in Char
      BY <1>1
    <3>3. \A x, y, z \in Char : <<x, y, z>> \in Seq(Char)
      OBVIOUS
    <3>4. Tag(n) \in Item
      BY <1>2, <3>1, Items
    <3> QED
      BY <3>1, <3>2, <3>3, <3>4, Zenon
  <2>4. CASE Grounding(n)
    <3>1. PICK a \in DOMAIN Digit, b \in DOMAIN Digit, c \in DOMAIN Digit, d \in DOMAIN Digit :
            /\ Mirc[n] = <<Color, a, b, ",", c, d>>
            /\ Tag(n) = <<"COLOR", Value(a, b), Value(c, d)>>
      BY <2>4, Zenon DEF Grounding
    <3>2. a \in Char /\ b \in Char /\ Color \in Char /\ c \in Char /\ d \in Char /\ "," \in Char
      BY <1>1
    <3>3. <<Color, a, b, ",", c, d>> \in Seq(Char)
      <4>1. Six(Char, a, b, c, d, ",", Color)
        BY <3>2, SixAre
      <4> QED
        BY <4>1, Zenon DEF Six
    <3>4. Tag(n) \in Item
      BY <1>2, <3>1, Items
    <3> QED
      BY <3>1, <3>2, <3>3, <3>4, Zenon
  <2> QED
    BY <2>1, <2>2, <2>3, <2>4, TagIs
<1>5. \A t \in Seq(Char) : t \in Seq(Sign)
  <2>1. Char \subseteq Sign
    BY DEF Sign
  <2> HIDE DEF Sign, Char
  <2> QED
    BY <2>1
<1> QED
  BY <1>3, <1>4, <1>5
-----------------------------------------------------------------------------
(* A text with tags becomes, piece by piece, what its pieces become. *)
Images(d) == [i \in 1..Len(d) |-> Image(d[i])]

(* No tag comes before the next closing bracket behind piece k. *)
Harmless(d, k) ==
  \A j \in (k + 1)..Len(d) : Len(d[j]) = 3 => \E l \in (k + 1)..(j - 1) : d[l] = <<"]">>

LEMMA TagPieceIs ==
  ASSUME NEW p \in TagPieces
  PROVE  /\ p \in Seq(Sign) /\ Image(p) \in Seq(Char)
         /\ \/ \E n \in DOMAIN Mirc : /\ p = <<"[", n, "]">> /\ Len(p) = 3 /\ p[1] = "[" /\ p[2] = n
                                      /\ p[3] = "]" /\ Image(p) = Mirc[n]
            \/ \E c \in Ordinary : p = <<c>> /\ Len(p) = 1 /\ p[1] = c /\ Image(p) = <<c>>
<1>1. Char \subseteq Sign /\ DOMAIN Mirc \subseteq Sign /\ Ordinary \subseteq Char
  BY DEF Sign, Ordinary
<1>2. CASE \E n \in DOMAIN Mirc : p = <<"[", n, "]">>
  <2>1. PICK n \in DOMAIN Mirc : p = <<"[", n, "]">>
    BY <1>2
  <2>2. \A x, y, z : /\ Len(<<x, y, z>>) = 3 /\ <<x, y, z>>[1] = x /\ <<x, y, z>>[2] = y
                     /\ <<x, y, z>>[3] = z
    OBVIOUS
  <2>3. Len(p) = 3 /\ p[1] = "[" /\ p[2] = n /\ p[3] = "]"
    BY <2>1, <2>2, Zenon
  <2>4. Image(p) = Mirc[n] /\ Mirc[n] \in Seq(Char)
    BY <2>3, ImagesTyped, Zenon DEF Image
  <2>5. \A S : \A x, y, z \in S : <<x, y, z>> \in Seq(S)
    OBVIOUS
  <2>6. "[" \in Sign /\ n \in Sign /\ "]" \in Sign
    BY <1>1, PiecesAre
  <2>7. p \in Seq(Sign)
    BY <2>1, <2>5, <2>6, Zenon
  <2> QED
    BY <2>1, <2>3, <2>4, <2>7, Zenon
<1>3. CASE \E c \in Ordinary : p = <<c>>
  <2>1. PICK c \in Ordinary : p = <<c>>
    BY <1>3
  <2>2. Len(p) = 1 /\ p[1] = c
    BY <2>1
  <2>3. Image(p) = <<c>>
    <3>1. Len(p) # 3
      BY <2>2
    <3> QED
      BY <2>1, <3>1, Zenon DEF Image
  <2>4. c \in Char /\ c \in Sign
    BY <1>1
  <2>5. <<c>> \in Seq(Char) /\ <<c>> \in Seq(Sign)
    BY <2>4
  <2> QED
    BY <2>1, <2>2, <2>3, <2>5, Zenon
<1> QED
  BY <1>2, <1>3, PiecesAre

LEMMA ImagesAre ==
  ASSUME NEW d \in Seq(TagPieces)
  PROVE  /\ d \in Seq(Seq(Sign)) /\ Images(d) \in Seq(Seq(Char)) /\ Len(Images(d)) = Len(d)
         /\ \A i \in 1..Len(d) : Images(d)[i] = Image(d[i]) /\ d[i] \in TagPieces
<1>1. \A i \in 1..Len(d) : d[i] \in TagPieces
  BY ElementOfSeq
<1>2. TagPieces \subseteq Seq(Sign)
  BY TagPieceIs
<1>3. d \in Seq(Seq(Sign))
  BY <1>2
<1>4. Images(d) \in Seq(Seq(Char)) /\ Len(Images(d)) = Len(d)
  <2>1. \A i \in 1..Len(d) : Image(d[i]) \in Seq(Char)
    BY <1>1, TagPieceIs
  <2> QED
    BY <2>1 DEF Images
<1>5. \A i \in 1..Len(d) : Images(d)[i] = Image(d[i])
  BY DEF Images
<1> QED
  BY <1>1, <1>3, <1>4, <1>5, Zenon

LEMMA ImagesRest ==
  ASSUME NEW d \in Seq(TagPieces), NEW u \in Seq(Char), NEW f, Offsets(Images(d), u, f),
         NEW k \in 1..Len(d)
  PROVE  Splits(u, f[k - 1], Image(d[k]), f[k])
<1> DEFINE ws == Images(d)
<1>1. ws \in Seq(Seq(Char)) /\ k \in 1..Len(ws) /\ ws[k] = Image(d[k]) /\ Offsets(ws, u, f)
  BY ImagesAre
<1> HIDE DEF ws
<1>2. Splits(u, f[k - 1], ws[k], f[k])
  BY <1>1, OffsetsRest
<1> QED
  BY <1>1, <1>2, Zenon

(* What ToMirc makes of the text behind piece k is what is left of the      *)
(* pieces' images, also within a bracket if no tag comes before its end.    *)
Becomes(d, t, from, u, e, f, k) ==
  /\ from[e[k] + 1] = LeftOf(u, f[k])
  /\ Harmless(d, k) => InBrackets(t, from, e[k] + 1) = LeftOf(u, f[k])

LEMMA BecomesPlain ==
  ASSUME NEW d \in Seq(TagPieces), NEW t \in Seq(Sign), NEW u \in Seq(Char),
         NEW e, NEW f, NEW from, Rests(t, from), Offsets(d, t, e), Offsets(Images(d), u, f),
         NEW k \in 1..Len(d), Becomes(d, t, from, u, e, f, k),
         d[k] = <<"[">> => Harmless(d, k),
         NEW c \in Ordinary, d[k] = <<c>>, Len(d[k]) = 1, d[k][1] = c, Image(d[k]) = <<c>>
  PROVE  Becomes(d, t, from, u, e, f, k - 1)
<1> DEFINE cur == e[k - 1] + 1
           rest == LeftOf(u, f[k])
<1>1. /\ k - 1 \in 0..Len(d) /\ k \in 0..Len(d) /\ Len(d) \in Nat /\ Len(t) \in Nat
  OBVIOUS
<1>2. /\ e[k - 1] \in Nat /\ e[k] = e[k - 1] + Len(d[k]) /\ e[k] <= Len(t)
      /\ \A j \in 1..Len(d[k]) : t[e[k - 1] + j] = d[k][j]
  <2>1. e[k - 1] \in Nat
    BY <1>1 DEF Offsets
  <2> QED
    BY <2>1, Zenon DEF Offsets
<1>3. cur \in 1..Len(t) /\ e[k] = cur /\ t[cur] = c
  <2>1. 1 \in 1..Len(d[k])
    OBVIOUS
  <2> QED
    BY <1>1, <1>2, <2>1
<1>4. LeftOf(u, f[k - 1]) = <<c>> \o rest
  <2>1. Splits(u, f[k - 1], Image(d[k]), f[k])
    BY ImagesRest
  <2> QED
    BY <2>1, Zenon DEF Splits
<1>5. from[cur + 1] = rest /\ (Harmless(d, k) => InBrackets(t, from, cur + 1) = rest)
  BY <1>3, Zenon DEF Becomes
<1>6. \A n \in DOMAIN Mirc : Mirc[n] \in Seq(Sign)
  BY ImagesTyped
<1> HIDE DEF rest, cur
<1>7. from[cur] = <<c>> \o rest
  <2>1. CASE c # "["
    <3>1. from[cur] = <<t[cur]>> \o from[cur + 1]
      BY <1>3, <1>6, <2>1, RestCopies
    <3> QED
      BY <1>3, <1>5, <3>1, Zenon
  <2>2. CASE c = "["
    <3>1. Harmless(d, k)
      BY <2>2
    <3>2. ASSUME cur + 1 \in 1..Len(t) PROVE t[cur + 1] \notin DOMAIN Mirc
      <4>1. k # Len(d)
        <5>1. e[Len(d)] = Len(t)
          BY Zenon DEF Offsets
        <5>2. cur # Len(t)
          BY <1>1, <1>3, <3>2
        <5> QED
          BY <1>3, <5>1, <5>2
      <4> DEFINE next == k + 1
      <4>2. next \in 1..Len(d) /\ next - 1 = k
        BY <1>1, <4>1
      <4> HIDE DEF next
      <4> DEFINE q == d[next]
      <4>3. q \in TagPieces
        BY <4>2, ImagesAre
      <4>4. Len(q) \in {1, 3} /\ q[1] \in Ordinary \cup {"["}
        BY <4>3, TagPieceIs
      <4>5. \A j \in 1..Len(q) : t[e[next - 1] + j] = q[j]
        BY <4>2, Zenon DEF Offsets
      <4>6. 1 \in 1..Len(q)
        BY <4>4
      <4>7. t[cur + 1] = q[1]
        BY <1>3, <4>2, <4>5, <4>6, Zenon
      <4>8. Ordinary \cap DOMAIN Mirc = {} /\ "[" \notin DOMAIN Mirc
        BY PiecesAre DEF Ordinary
      <4> QED
        BY <4>4, <4>7, <4>8
    <3>3. from[cur] = <<t[cur]>> \o InBrackets(t, from, cur + 1)
      BY <1>3, <1>6, <2>2, <3>2, BracketCopies
    <3> QED
      BY <1>3, <1>5, <3>1, <3>3, Zenon
  <2> QED
    BY <2>1, <2>2
<1>8. ASSUME Harmless(d, k - 1) PROVE InBrackets(t, from, cur) = <<c>> \o rest
  <2>1. CASE c = "]"
    <3>1. InBrackets(t, from, cur) = <<t[cur]>> \o from[cur + 1]
      BY <1>3, <1>6, <2>1, WithinCopies
    <3> QED
      BY <1>3, <1>5, <3>1, Zenon
  <2>2. CASE c # "]"
    <3>1. Harmless(d, k)
      <4> SUFFICES ASSUME NEW j \in (k + 1)..Len(d), Len(d[j]) = 3
                   PROVE  \E l \in (k + 1)..(j - 1) : d[l] = <<"]">>
        BY DEF Harmless
      <4>1. j \in (k - 1 + 1)..Len(d)
        OBVIOUS
      <4>2. PICK l \in (k - 1 + 1)..(j - 1) : d[l] = <<"]">>
        BY <1>8, <4>1, Zenon DEF Harmless
      <4>3. d[k] # <<"]">>
        <5>1. <<"]">>[1] = "]"
          OBVIOUS
        <5> QED
          BY <2>2, <5>1, Zenon
      <4>4. l # k
        BY <4>2, <4>3, Zenon
      <4>5. l \in (k + 1)..(j - 1)
        BY <4>4
      <4> QED
        BY <4>2, <4>5, Zenon
    <3>2. InBrackets(t, from, cur) = <<t[cur]>> \o InBrackets(t, from, cur + 1)
      BY <1>3, <1>6, <2>2, WithinCopies
    <3> QED
      BY <1>3, <1>5, <3>1, <3>2, Zenon
  <2> QED
    BY <2>1, <2>2
<1> QED
  BY <1>4, <1>7, <1>8, Zenon DEF Becomes, cur

LEMMA BecomesTag ==
  ASSUME NEW d \in Seq(TagPieces), NEW t \in Seq(Sign), NEW u \in Seq(Char),
         NEW e, NEW f, NEW from, Rests(t, from), Offsets(d, t, e), Offsets(Images(d), u, f),
         NEW k \in 1..Len(d), Becomes(d, t, from, u, e, f, k),
         NEW n \in DOMAIN Mirc, Len(d[k]) = 3, d[k][1] = "[", d[k][2] = n, d[k][3] = "]",
         Image(d[k]) = Mirc[n]
  PROVE  Becomes(d, t, from, u, e, f, k - 1)
<1> DEFINE cur == e[k - 1] + 1
           rest == LeftOf(u, f[k])
<1>1. /\ k - 1 \in 0..Len(d) /\ k \in 0..Len(d) /\ Len(d) \in Nat /\ Len(t) \in Nat
  OBVIOUS
<1>2. /\ e[k - 1] \in Nat /\ e[k] = e[k - 1] + Len(d[k]) /\ e[k] <= Len(t)
      /\ \A j \in 1..Len(d[k]) : t[e[k - 1] + j] = d[k][j]
  <2>1. e[k - 1] \in Nat
    BY <1>1 DEF Offsets
  <2> QED
    BY <2>1, Zenon DEF Offsets
<1>3. /\ cur \in 1..Len(t) /\ cur + 2 <= Len(t) /\ e[k] + 1 = cur + 3
      /\ t[cur] = "[" /\ t[cur + 1] = n /\ t[cur + 2] = "]"
  <2>1. 1 \in 1..Len(d[k]) /\ 2 \in 1..Len(d[k]) /\ 3 \in 1..Len(d[k])
    OBVIOUS
  <2>2. t[e[k - 1] + 1] = "[" /\ t[e[k - 1] + 2] = n /\ t[e[k - 1] + 3] = "]"
    BY <1>2, <2>1
  <2>3. /\ cur \in 1..Len(t) /\ cur + 2 <= Len(t) /\ e[k] + 1 = cur + 3
        /\ cur = e[k - 1] + 1 /\ cur + 1 = e[k - 1] + 2 /\ cur + 2 = e[k - 1] + 3
    <3>1. \A x, y, z \in Nat : y = x + 3 /\ y <= z =>
            /\ x + 1 \in 1..z /\ x + 1 + 2 <= z /\ y + 1 = x + 1 + 3
            /\ x + 1 + 1 = x + 2 /\ x + 1 + 2 = x + 3
      OBVIOUS
    <3>2. e[k] \in Nat /\ e[k] = e[k - 1] + 3
      BY <1>2
    <3> QED
      BY <1>1, <1>2, <3>1, <3>2, Zenon
  <2> QED
    BY <2>2, <2>3
<1>4. LeftOf(u, f[k - 1]) = Mirc[n] \o rest
  <2>1. Splits(u, f[k - 1], Image(d[k]), f[k])
    BY ImagesRest
  <2> QED
    BY <2>1, Zenon DEF Splits
<1>5. from[cur + 3] = rest
  BY <1>3, Zenon DEF Becomes
<1>6. \A m \in DOMAIN Mirc : Mirc[m] \in Seq(Sign)
  BY ImagesTyped
<1>7. n # "]"
  BY PiecesAre
<1> HIDE DEF rest, cur
<1>8. from[cur] = Mirc[t[cur + 1]] \o from[cur + 3]
  BY <1>3, <1>6, <1>7, RestReplaces
<1>9. from[cur] = Mirc[n] \o rest
  BY <1>3, <1>5, <1>8, Zenon
<1>10. ~Harmless(d, k - 1)
  <2>1. k \in (k - 1 + 1)..Len(d) /\ ~\E l \in (k - 1 + 1)..(k - 1) : d[l] = <<"]">>
    BY <1>1
  <2> QED
    BY <2>1, Zenon DEF Harmless
<1> QED
  BY <1>4, <1>9, <1>10, Zenon DEF Becomes, cur

LEMMA ToMircImages ==
  ASSUME NEW d \in Seq(TagPieces), \A i \in 1..Len(d) : d[i] = <<"[">> => Harmless(d, i)
  PROVE  ToMirc(FlattenSeq(d)) = FlattenSeq(Images(d))
<1> DEFINE t == FlattenSeq(d)
           u == FlattenSeq(Images(d))
           n == Len(d)
<1>1. n \in Nat /\ t \in Seq(Sign) /\ u \in Seq(Char)
  <2>1. d \in Seq(Seq(Sign)) /\ Images(d) \in Seq(Seq(Char))
    BY ImagesAre
  <2> QED
    BY <2>1, FlattenTyped
<1>2. PICK e : Offsets(d, t, e)
  <2>1. d \in Seq(Seq(Sign))
    BY ImagesAre
  <2> QED
    BY <2>1, OffsetsAre
<1>3. PICK f : Offsets(Images(d), u, f)
  <2>1. Images(d) \in Seq(Seq(Char))
    BY ImagesAre
  <2> QED
    BY <2>1, OffsetsAre
<1> HIDE DEF t, u
<1>4. Len(t) \in Nat /\ Len(u) \in Nat
  BY <1>1
<1>5. PICK from : Rests(t, from) /\ ToMirc(t) = from[1]
  BY <1>4, ToMircIs DEF Rests
<1>6. /\ e[0] = 0 /\ f[0] = 0 /\ e[n] = Len(t) /\ f[n] = Len(u)
  <2>1. Len(Images(d)) = n
    BY ImagesAre
  <2> QED
    BY <1>2, <1>3, <2>1 DEF Offsets
<1> DEFINE T == {m \in 0..n : Becomes(d, t, from, u, e, f, n - m)}
<1>7. 0 \in T
  <2>1. from[Len(t) + 1] = <<>> /\ InBrackets(t, from, Len(t) + 1) = <<>>
    BY <1>1, <1>5, RestEnds
  <2>2. LeftOf(u, Len(u)) = <<>>
    <3> HIDE DEF Char
    <3> QED
      BY <1>1 DEF LeftOf
  <2>3. Becomes(d, t, from, u, e, f, n)
    BY <1>6, <2>1, <2>2, Zenon DEF Becomes
  <2>4. n - 0 = n /\ 0 \in 0..n
    BY <1>1
  <2> QED
    BY <2>3, <2>4
<1>8. ASSUME NEW m \in 1..n, m - 1 \in T PROVE m \in T
  <2> DEFINE k == n - (m - 1)
  <2>1. k \in 1..n /\ k - 1 = n - m /\ m \in 0..n
    BY <1>1
  <2>2. Becomes(d, t, from, u, e, f, k)
    BY <1>8
  <2> HIDE DEF k
  <2>3. d[k] \in TagPieces
    BY <2>1, ImagesAre
  <2>4. Becomes(d, t, from, u, e, f, k - 1)
    <3>1. CASE \E c \in Ordinary :
                 d[k] = <<c>> /\ Len(d[k]) = 1 /\ d[k][1] = c /\ Image(d[k]) = <<c>>
      BY <1>1, <1>2, <1>3, <1>5, <2>1, <2>2, <3>1, BecomesPlain
    <3>2. CASE \E x \in DOMAIN Mirc : /\ Len(d[k]) = 3 /\ d[k][1] = "[" /\ d[k][2] = x
                                      /\ d[k][3] = "]" /\ Image(d[k]) = Mirc[x]
      BY <1>1, <1>2, <1>3, <1>5, <2>1, <2>2, <3>2, BecomesTag
    <3> QED
      BY <2>3, <3>1, <3>2, TagPieceIs
  <2> QED
    BY <2>1, <2>4
<1>9. n \in T
  <2>1. n \in 0..n
    BY <1>1
  <2> HIDE DEF T, n
  <2> QED
    BY <1>1, <1>7, <1>8, <2>1, Upwards
<1>10. from[1] = LeftOf(u, 0)
  <2>1. n - n = 0 /\ 0 + 1 = 1
    BY <1>1
  <2>2. Becomes(d, t, from, u, e, f, n - n)
    BY <1>9
  <2> QED
    BY <1>6, <2>1, <2>2, Zenon DEF Becomes
<1>11. LeftOf(u, 0) = u
  BY <1>1, SubSeqFull DEF LeftOf
<1> QED
  BY <1>5, <1>10, <1>11 DEF t, u
-----------------------------------------------------------------------------
(* The tags of a text: one item for each piece. *)

LEMMA Singles ==
  ASSUME NEW S, NEW ss \in Seq(Seq(S)), \A i \in 1..Len(ss) : Len(ss[i]) = 1
  PROVE  /\ FlattenSeq(ss) \in Seq(S) /\ Len(FlattenSeq(ss)) = Len(ss)
         /\ \A i \in 1..Len(ss) : FlattenSeq(ss)[i] = ss[i][1]
<1> DEFINE flat == FlattenSeq(ss)
           n == Len(ss)
<1>1. n \in Nat /\ flat \in Seq(S)
  BY FlattenTyped
<1>2. PICK f : Offsets(ss, flat, f)
  BY OffsetsAre
<1> HIDE DEF flat
<1>3. f[0] = 0 /\ f[n] = Len(flat)
  BY <1>2, Zenon DEF Offsets
<1>4. ASSUME NEW i \in 1..n PROVE f[i] = f[i - 1] + 1 /\ flat[f[i - 1] + 1] = ss[i][1]
  <2>1. /\ f[i] = f[i - 1] + Len(ss[i])
        /\ \A j \in 1..Len(ss[i]) : flat[f[i - 1] + j] = ss[i][j]
    BY <1>2, Zenon DEF Offsets
  <2>2. Len(ss[i]) = 1
    OBVIOUS
  <2>3. 1 \in 1..1
    OBVIOUS
  <2> QED
    BY <2>1, <2>2, <2>3, Zenon
<1> DEFINE T == {i \in 0..n : f[i] = i}
<1>5. 0 \in T
  BY <1>1, <1>3
<1>6. ASSUME NEW i \in 1..n, i - 1 \in T PROVE i \in T
  BY <1>1, <1>4, <1>6
<1>7. 0..n \subseteq T
  <2> HIDE DEF T, n
  <2> QED
    BY <1>1, <1>5, <1>6, Upwards
<1>10. \A i \in 0..n : f[i] = i
  BY <1>7
<1>8. Len(flat) = n
  BY <1>1, <1>3, <1>10
<1>9. ASSUME NEW i \in 1..n PROVE flat[i] = ss[i][1]
  <2>1. f[i - 1] = i - 1 /\ i - 1 + 1 = i
    BY <1>1, <1>10
  <2> QED
    BY <1>4, <2>1
<1> QED
  BY <1>1, <1>8, <1>9 DEF flat

LEMMA ItemIs ==
  ASSUME NEW p \in TagPieces
  PROVE  /\ ItemOf(p) \in Item
         /\ \A n \in DOMAIN Mirc : Len(p) = 3 /\ p[2] = n => ItemOf(p) = Tag(n)
         /\ \A c \in Ordinary : p = <<c>> => ItemOf(p) = <<c>>
         /\ <<ItemOf(p)>> = IF Len(p) = 3 /\ p[2] \in DOMAIN Mirc THEN <<Tag(p[2])>>
                            ELSE [j \in DOMAIN p |-> <<p[j]>>]
<1>1. CASE \E n \in DOMAIN Mirc : Len(p) = 3 /\ p[2] = n
  <2>1. PICK n \in DOMAIN Mirc : Len(p) = 3 /\ p[2] = n
    BY <1>1
  <2>2. ItemOf(p) = Tag(n) /\ Tag(n) \in Item
    BY <2>1, ImagesTyped, Zenon DEF ItemOf
  <2>3. \A c \in Ordinary : p # <<c>>
    <3>1. \A c : Len(<<c>>) = 1
      OBVIOUS
    <3>2. 1 # 3
      OBVIOUS
    <3> QED
      BY <2>1, <3>1, <3>2, Zenon
  <2> QED
    BY <2>1, <2>2, <2>3, Zenon
<1>2. CASE \E c \in Ordinary : p = <<c>> /\ Len(p) = 1 /\ p[1] = c
  <2>1. PICK c \in Ordinary : p = <<c>> /\ Len(p) = 1 /\ p[1] = c
    BY <1>2
  <2>2. Len(p) # 3
    BY <2>1
  <2>3. ItemOf(p) = <<c>>
    BY <2>1, <2>2, Zenon DEF ItemOf
  <2>4. c \in Char
    BY DEF Ordinary
  <2>5. <<c>> \in Item
    BY <2>4, Items
  <2>6. <<ItemOf(p)>> = [j \in DOMAIN p |-> <<p[j]>>]
    <3> DEFINE x == <<c>>
    <3>1. <<x>> = [j \in 1..1 |-> <<<<c>>[j]>>]
      <4>1. <<c>>[1] = c
        OBVIOUS
      <4>2. \A j \in 1..1 : j = 1
        OBVIOUS
      <4>3. \A j \in 1..1 : <<<<c>>[j]>> = x
        BY <4>1, <4>2, Zenon
      <4> HIDE DEF x
      <4>4. <<x>> = [j \in 1..1 |-> x]
        OBVIOUS
      <4> QED
        BY <4>3, <4>4, Zenon
    <3>2. DOMAIN <<c>> = 1..1
      OBVIOUS
    <3> QED
      BY <2>1, <2>3, <3>1, <3>2, Zenon
  <2>7. \A e : p = <<e>> => ItemOf(p) = <<e>>
    BY <2>1, <2>3, Zenon
  <2> QED
    BY <2>2, <2>3, <2>5, <2>6, <2>7, Zenon
<1> QED
  BY <1>1, <1>2, TagPieceIs

LEMMA ItemsAre ==
  ASSUME NEW d \in Seq(TagPieces)
  PROVE  /\ Pieces(d) \in Seq(Item) /\ Len(Pieces(d)) = Len(d)
         /\ \A i \in 1..Len(d) : Pieces(d)[i] = ItemOf(d[i])
<1> DEFINE ss == [i \in 1..Len(d) |-> <<ItemOf(d[i])>>]
<1>1. DOMAIN d = 1..Len(d) /\ Len(d) \in Nat /\ \A i \in 1..Len(d) : d[i] \in TagPieces
  BY ElementOfSeq
<1>2. Pieces(d) = FlattenSeq(ss)
  <2> DEFINE One(p) == IF Len(p) = 3 /\ p[2] \in DOMAIN Mirc THEN <<Tag(p[2])>>
                       ELSE [j \in DOMAIN p |-> <<p[j]>>]
  <2>1. \A i \in 1..Len(d) : One(d[i]) = <<ItemOf(d[i])>>
    BY <1>1, ItemIs, Zenon
  <2>2. [i \in DOMAIN d |-> One(d[i])] = ss
    <3> HIDE DEF One
    <3> QED
      BY <1>1, <2>1, Zenon
  <2> QED
    BY <2>2, Zenon DEF Pieces
<1>3. /\ ss \in Seq(Seq(Item)) /\ Len(ss) = Len(d)
      /\ \A i \in 1..Len(d) : ss[i] = <<ItemOf(d[i])>>
  <2>1. \A i \in 1..Len(d) : <<ItemOf(d[i])>> \in Seq(Item)
    BY <1>1, ItemIs, OneItem
  <2> QED
    BY <1>1, <2>1
<1>4. \A i \in 1..Len(d) : Len(ss[i]) = 1 /\ ss[i][1] = ItemOf(d[i])
  BY <1>3
<1> HIDE DEF ss
<1>5. \A i \in 1..Len(ss) : Len(ss[i]) = 1
  BY <1>3, <1>4
<1>6. /\ FlattenSeq(ss) \in Seq(Item) /\ Len(FlattenSeq(ss)) = Len(ss)
      /\ \A i \in 1..Len(ss) : FlattenSeq(ss)[i] = ss[i][1]
  BY <1>3, <1>5, Singles
<1> QED
  BY <1>2, <1>3, <1>4, <1>6, Zenon

(* What is open after a tag. *)
Opens(x, g) == (x[1] = "open" /\ x[2] = g) \/ (x[1] = "COLOR" /\ g = "COLOR")

LEMMA OpenIs ==
  ASSUME NEW tags, NEW i, NEW g
  PROVE  g \in Open(tags, i) <=>
           \E j \in 1..(i - 1) :
             Opens(tags[j], g) /\ \A l \in (j + 1)..(i - 1) : tags[l] # <<"close", g>>
<1> DEFINE Stays(j, h) == \A l \in (j + 1)..(i - 1) : tags[l] # <<"close", h>>
           formats == {tags[j][2] : j \in {k \in 1..(i - 1) :
                         tags[k][1] = "open" /\ Stays(k, tags[k][2])}}
           color == {"COLOR" : j \in {k \in 1..(i - 1) : tags[k][1] = "COLOR" /\ Stays(k, "COLOR")}}
<1>1. Open(tags, i) = formats \cup color
  BY Zenon DEF Open
<1> HIDE DEF Stays
<1>2. g \in formats <=> \E j \in 1..(i - 1) : tags[j][1] = "open" /\ tags[j][2] = g /\ Stays(j, g)
  OBVIOUS
<1>3. g \in color <=> \E j \in 1..(i - 1) : tags[j][1] = "COLOR" /\ g = "COLOR" /\ Stays(j, g)
  OBVIOUS
<1> HIDE DEF formats, color
<1>4. g \in Open(tags, i) <=> \E j \in 1..(i - 1) : Opens(tags[j], g) /\ Stays(j, g)
  BY <1>1, <1>2, <1>3, Zenon DEF Opens
<1> QED
  BY <1>4, Zenon DEF Stays

LEMMA OpenNext ==
  ASSUME NEW tags, NEW i \in Nat \ {0}
  PROVE  /\ Open(tags, 1) = {}
         /\ \A g : g \in Open(tags, i + 1) <=>
              Opens(tags[i], g) \/ (g \in Open(tags, i) /\ tags[i] # <<"close", g>>)
<1>1. Open(tags, 1) = {}
  <2>1. 1..(1 - 1) = {}
    OBVIOUS
  <2>2. \A g : g \notin Open(tags, 1)
    BY <2>1, OpenIs, Zenon
  <2> QED
    BY <2>2
<1>2. ASSUME NEW g
      PROVE  g \in Open(tags, i + 1) <=>
               Opens(tags[i], g) \/ (g \in Open(tags, i) /\ tags[i] # <<"close", g>>)
  <2> DEFINE P(j) == Opens(tags[j], g)
             Q(j) == tags[j] # <<"close", g>>
  <2>1. g \in Open(tags, i) <=> \E j \in 1..(i - 1) : P(j) /\ \A l \in (j + 1)..(i - 1) : Q(l)
    BY OpenIs
  <2> DEFINE m == i + 1
  <2>7. m - 1 = i
    OBVIOUS
  <2> HIDE DEF m
  <2>2. g \in Open(tags, m) <=> \E j \in 1..(m - 1) : P(j) /\ \A l \in (j + 1)..(m - 1) : Q(l)
    BY OpenIs
  <2> HIDE DEF P, Q
  <2>3. i \in 1..i /\ \A l \in (i + 1)..i : FALSE
    OBVIOUS
  <2>4. ASSUME P(i) PROVE g \in Open(tags, m)
    BY <2>2, <2>3, <2>7, <2>4
  <2>5. ASSUME g \in Open(tags, i), Q(i) PROVE g \in Open(tags, m)
    <3>1. PICK j \in 1..(i - 1) : P(j) /\ \A l \in (j + 1)..(i - 1) : Q(l)
      BY <2>1, <2>5
    <3>2. j \in 1..i /\ \A l \in (j + 1)..i : l \in (j + 1)..(i - 1) \/ l = i
      OBVIOUS
    <3>3. \A l \in (j + 1)..i : Q(l)
      BY <2>5, <3>1, <3>2
    <3> QED
      BY <2>2, <2>3, <2>7, <3>1, <3>2, <3>3
  <2>6. ASSUME g \in Open(tags, m) PROVE P(i) \/ (g \in Open(tags, i) /\ Q(i))
    <3>1. PICK j \in 1..i : P(j) /\ \A l \in (j + 1)..i : Q(l)
      BY <2>2, <2>3, <2>7, <2>6
    <3>2. CASE j = i
      BY <3>1, <3>2
    <3>3. CASE j # i
      <4>1. j \in 1..(i - 1) /\ i \in (j + 1)..i /\ \A l \in (j + 1)..(i - 1) : l \in (j + 1)..i
        BY <3>3
      <4> QED
        BY <2>1, <3>1, <4>1
    <3> QED
      BY <3>2, <3>3
  <2> QED
    BY <2>4, <2>5, <2>6, Zenon DEF P, Q, m
<1> QED
  BY <1>1, <1>2
-----------------------------------------------------------------------------
(* What is read of the tags so far is what is shown of their images, what   *)
(* is open are its formats, and without a color it has the default ones.    *)
Agree(r, g, open) ==
  /\ r \in Screen /\ g \in Screen /\ g.skip = 0 /\ Same(r, g)
  /\ r.formats = open \ {"COLOR"}
  /\ "COLOR" \notin open => r.fg = -1 /\ r.bg = -1

LEMMA AgreePlain ==
  ASSUME NEW u \in Seq(Char), NEW r, NEW g, NEW open, Agree(r, g, open), NEW i \in 1..Len(u),
         NEW c \in Ordinary, u[i] = c
  PROVE  Agree(ShowTag(r, <<c>>), ShowMirc(u, g, i), open)
<1> DEFINE q == ShowTag(r, <<c>>)
           h == ShowMirc(u, g, i)
<1>1. c \in Char /\ c \notin Toggles \cup {Reset, Color}
  BY DEF Ordinary
<1>2. r \in Screen /\ g \in Screen /\ g.skip = 0 /\ Same(r, g)
  BY Zenon DEF Agree
<1>3. /\ h \in Screen /\ h.skip = 0 /\ h.formats = g.formats /\ h.fg = g.fg /\ h.bg = g.bg
      /\ h.text = Append(g.text, Look(u[i], g))
  <2>1. u[i] \notin Toggles \cup {Reset, Color}
    BY <1>1
  <2> QED
    BY <1>2, <2>1, ShowPlain
<1>4. q = [r EXCEPT !.text = Append(@, Look(c, r))]
  BY <1>1, ShowTagIs, Zenon
<1>5. q \in Screen
  BY <1>1, <1>2, Items, ShowTagTyped
<1> HIDE DEF q, h
<1>6. q.text = Append(r.text, Look(c, r)) /\ q.formats = r.formats /\ q.fg = r.fg /\ q.bg = r.bg
  BY <1>2, <1>4 DEF Screen
<1>7. Look(c, r) = Look(u[i], g)
  BY <1>2, Zenon DEF Look, Same
<1>8. Same(q, h)
  BY <1>2, <1>3, <1>6, <1>7, Zenon DEF Same
<1>9. Agree(q, h, open)
  BY <1>3, <1>5, <1>6, <1>8, Zenon DEF Agree
<1> QED
  BY <1>9, Zenon DEF q, h

LEMMA AgreeToggle ==
  ASSUME NEW u \in Seq(Char), NEW r, NEW g, NEW open, Agree(r, g, open), NEW i \in 1..Len(u),
         NEW x \in Toggles, u[i] = x, NEW next
  PROVE  /\ TagOf[x] \notin open /\ next = open \cup {TagOf[x]} =>
              Agree(ShowTag(r, <<"open", TagOf[x]>>), ShowMirc(u, g, i), next)
         /\ TagOf[x] \in open /\ next = open \ {TagOf[x]} =>
              Agree(ShowTag(r, <<"close", TagOf[x]>>), ShowMirc(u, g, i), next)
<1> DEFINE tag == TagOf[x]
           opened == ShowTag(r, <<"open", tag>>)
           closed == ShowTag(r, <<"close", tag>>)
           h == ShowMirc(u, g, i)
<1>1. tag \in {"B", "U", "I"} /\ tag \in Tags /\ tag # "COLOR"
  BY ControlCharacters DEF Tags
<1>2. /\ r \in Screen /\ g \in Screen /\ g.skip = 0 /\ Same(r, g) /\ r.formats = open \ {"COLOR"}
      /\ "COLOR" \notin open => r.fg = -1 /\ r.bg = -1
  BY Zenon DEF Agree
<1>3. /\ h \in Screen /\ h.skip = 0 /\ h.fg = g.fg /\ h.bg = g.bg /\ h.text = g.text
      /\ tag \in g.formats => h.formats = g.formats \ {tag}
      /\ tag \notin g.formats => h.formats = g.formats \cup {tag}
  <2>1. /\ h \in Screen /\ h.skip = 0 /\ h.fg = g.fg /\ h.bg = g.bg /\ h.text = g.text
        /\ TagOf[u[i]] \in g.formats => h.formats = g.formats \ {TagOf[u[i]]}
        /\ TagOf[u[i]] \notin g.formats => h.formats = g.formats \cup {TagOf[u[i]]}
    BY <1>2, ShowToggles
  <2> QED
    BY <2>1, Zenon
<1>4. opened = [r EXCEPT !.formats = @ \cup {tag}] /\ closed = [r EXCEPT !.formats = @ \ {tag}]
  BY <1>1, ShowTagIs, Zenon
<1>5. opened \in Screen /\ closed \in Screen
  BY <1>1, <1>2, Items, ShowTagTyped
<1> HIDE DEF opened, closed, h, tag
<1>6. /\ opened.formats = r.formats \cup {tag} /\ closed.formats = r.formats \ {tag}
      /\ opened.text = r.text /\ opened.fg = r.fg /\ opened.bg = r.bg
      /\ closed.text = r.text /\ closed.fg = r.fg /\ closed.bg = r.bg
  BY <1>2, <1>4 DEF Screen
<1>7. r.text = g.text /\ r.formats = g.formats /\ r.fg = g.fg /\ r.bg = g.bg
  BY <1>2, Zenon DEF Same
<1>8. ASSUME tag \notin open, next = open \cup {tag} PROVE Agree(opened, h, next)
  <2>1. tag \notin g.formats /\ next \ {"COLOR"} = r.formats \cup {tag}
        /\ ("COLOR" \notin next => "COLOR" \notin open)
    BY <1>1, <1>2, <1>7, <1>8
  <2>2. Same(opened, h)
    BY <1>3, <1>6, <1>7, <2>1, Zenon DEF Same
  <2> QED
    BY <1>2, <1>3, <1>5, <1>6, <2>1, <2>2, Zenon DEF Agree
<1>9. ASSUME tag \in open, next = open \ {tag} PROVE Agree(closed, h, next)
  <2>1. tag \in g.formats /\ next \ {"COLOR"} = r.formats \ {tag}
        /\ ("COLOR" \notin next => "COLOR" \notin open)
    BY <1>1, <1>2, <1>7, <1>9
  <2>2. Same(closed, h)
    BY <1>3, <1>6, <1>7, <2>1, Zenon DEF Same
  <2> QED
    BY <1>2, <1>3, <1>5, <1>6, <2>1, <2>2, Zenon DEF Agree
<1> QED
  BY <1>8, <1>9, Zenon DEF opened, closed, h, tag

LEMMA AgreeReset ==
  ASSUME NEW u \in Seq(Char), NEW r, NEW g, Agree(r, g, {"COLOR"}), NEW i \in 1..Len(u),
         u[i] = Reset
  PROVE  Agree(ShowTag(r, <<"close", "COLOR">>), ShowMirc(u, g, i), {})
<1> DEFINE q == ShowTag(r, <<"close", "COLOR">>)
           h == ShowMirc(u, g, i)
<1>1. /\ r \in Screen /\ g \in Screen /\ g.skip = 0 /\ Same(r, g)
      /\ r.formats = {"COLOR"} \ {"COLOR"}
  BY Zenon DEF Agree
<1>2. /\ h \in Screen /\ h.skip = 0 /\ h.formats = {} /\ h.fg = -1 /\ h.bg = -1
      /\ h.text = g.text
  BY <1>1, ShowReset
<1>3. q = Colored(r, -1, -1)
  BY ShowTagIs, Zenon
<1>4. -1 \in Int
  OBVIOUS
<1>5. q \in Screen /\ q.fg = -1 /\ q.bg = -1 /\ q.text = r.text /\ q.formats = r.formats
  BY <1>1, <1>3, <1>4, ColoredIs
<1> HIDE DEF q, h
<1>6. {"COLOR"} \ {"COLOR"} = {} /\ {} = {} \ {"COLOR"}
  OBVIOUS
<1>7. Same(q, h)
  BY <1>1, <1>2, <1>5, <1>6, Zenon DEF Same
<1>8. Agree(q, h, {})
  BY <1>1, <1>2, <1>5, <1>6, <1>7, Zenon DEF Agree
<1> QED
  BY <1>8, Zenon DEF q, h

(* The characters of a color are skipped. *)
LEMMA Skipped ==
  ASSUME NEW u \in Seq(Char), NEW i \in 0..Len(u), NEW m \in Nat, i + m <= Len(u),
         Showing(u)[i].skip = m
  PROVE  /\ Showing(u)[i + m] \in Screen /\ Showing(u)[i + m].skip = 0
         /\ Same(Showing(u)[i], Showing(u)[i + m])
<1> DEFINE g == Showing(u)
           T == {j \in 0..m : g[i + j].skip = m - j /\ Same(g[i], g[i + j])}
<1>1. \A j \in 1..Len(u) : g[j] = ShowMirc(u, g[j - 1], j)
  BY ShowingStep
<1>2. \A j \in 0..Len(u) : g[j] \in Screen
  BY ShowingTyped
<1> HIDE DEF g
<1>3. Len(u) \in Nat
  OBVIOUS
<1>4. 0 \in T
  <2>1. i + 0 = i /\ m - 0 = m /\ 0 \in 0..m
    OBVIOUS
  <2>2. g[i].skip = m /\ Same(g[i], g[i])
    BY Zenon DEF g, Same
  <2> QED
    BY <2>1, <2>2
<1>5. ASSUME NEW j \in 1..m, j - 1 \in T PROVE j \in T
  <2>1. /\ j \in 0..m /\ i + j \in 1..Len(u) /\ i + (j - 1) = i + j - 1 /\ i + (j - 1) \in 0..Len(u)
        /\ m - (j - 1) > 0 /\ m - (j - 1) - 1 = m - j
    BY <1>3
  <2> DEFINE p == i + (j - 1)
             s == g[p]
  <2>2. s.skip = m - (j - 1) /\ Same(g[i], s)
    BY <1>5
  <2>3. s \in Screen
    BY <1>2, <2>1
  <2>4. g[i + j] = ShowMirc(u, s, i + j)
    BY <1>1, <2>1
  <2>5. /\ g[i + j].skip = s.skip - 1 /\ g[i + j].formats = s.formats
        /\ g[i + j].fg = s.fg /\ g[i + j].bg = s.bg /\ g[i + j].text = s.text
    <3>1. s.skip > 0
      BY <2>1, <2>2
    <3> HIDE DEF s
    <3> QED
      BY <2>1, <2>3, <2>4, <3>1, ShowSkips
  <2> HIDE DEF s, p
  <2>6. g[i + j].skip = m - j
    BY <2>1, <2>2, <2>5
  <2>7. Same(g[i], g[i + j])
    BY <2>2, <2>5, Zenon DEF Same
  <2> QED
    BY <2>1, <2>6, <2>7
<1>6. 0..m \subseteq T
  <2> HIDE DEF T
  <2> QED
    BY <1>4, <1>5, Upwards
<1>7. g[i + m].skip = m - m /\ Same(g[i], g[i + m])
  BY <1>6
<1>8. i + m \in 0..Len(u) /\ m - m = 0
  BY <1>3
<1> QED
  BY <1>2, <1>7, <1>8 DEF g

LEMMA AgreeColor ==
  ASSUME NEW u \in Seq(Char), NEW i \in 1..Len(u), NEW r, NEW open,
         Agree(r, Showing(u)[i - 1], open), u[i] = Color, "COLOR" \notin open,
         NEW next, next = open \cup {"COLOR"}
  PROVE  LET c == ColorAt(u, i)
         IN Agree(ShowTag(r, <<"COLOR", c.color, c.bg>>), Showing(u)[i + c.taken], next)
<1> DEFINE c == ColorAt(u, i)
           q == ShowTag(r, <<"COLOR", c.color, c.bg>>)
           g == Showing(u)[i - 1]
           s == Showing(u)[i]
           h == Showing(u)[i + c.taken]
<1>1. /\ r \in Screen /\ g \in Screen /\ g.skip = 0 /\ Same(r, g)
      /\ r.formats = open \ {"COLOR"} /\ r.fg = -1 /\ r.bg = -1
  BY Zenon DEF Agree
<1>2. c.color \in Int /\ c.bg \in Int /\ c.taken \in 0..(Len(u) - i) /\ Len(u) \in Nat
  BY ColorAtIs
<1>3. s = ShowMirc(u, g, i)
  BY ShowingStep
<1>4. /\ s \in Screen /\ s.skip = c.taken /\ s.formats = g.formats /\ s.fg = c.color
      /\ s.bg = Painted(g, c) /\ s.text = g.text
  <2> HIDE DEF g, s
  <2> QED
    BY <1>1, <1>3, ShowColor
<1>5. h \in Screen /\ h.skip = 0 /\ Same(s, h)
  <2>1. i \in 0..Len(u) /\ c.taken \in Nat /\ i + c.taken <= Len(u)
    BY <1>2
  <2> HIDE DEF c
  <2> QED
    BY <1>4, <2>1, Skipped
<1>6. q = Colored(r, c.color, c.bg)
  BY ShowColorTag
<1> HIDE DEF c, q, s, h, g
<1>7. q \in Screen /\ q.fg = c.color /\ q.bg = c.bg /\ q.text = r.text /\ q.formats = r.formats
  BY <1>1, <1>2, <1>6, ColoredIs
<1>8. Painted(g, c) = c.bg
  <2>1. g.bg = -1
    BY <1>1, Zenon DEF Same
  <2> QED
    BY <2>1, Zenon DEF Painted
<1>9. Same(q, h)
  BY <1>1, <1>4, <1>5, <1>7, <1>8, Zenon DEF Same
<1>10. next \ {"COLOR"} = open \ {"COLOR"} /\ "COLOR" \in next
  OBVIOUS
<1>11. Agree(q, h, next)
  BY <1>1, <1>5, <1>7, <1>9, <1>10, Zenon DEF Agree
<1> QED
  BY <1>11, Zenon DEF q, h, c

(* The colors that tags become. *)
CommaAt(u, i) == i \in DOMAIN u /\ u[i] = ","

LEMMA ColorIsTwo ==
  ASSUME NEW u \in Seq(Char), NEW i \in 1..Len(u), i + 2 <= Len(u),
         IsDigit(u, i + 1), IsDigit(u, i + 2),
         ~CommaAt(u, i + 3)
  PROVE  LET c == ColorAt(u, i)
         IN c.color = Value(u[i + 1], u[i + 2]) /\ c.bg = -1 /\ c.taken = 2
<1> DEFINE n == Digits(u, i + 1)
           comma == i + n + 1
           m == IF n > 0 /\ CommaAt(u, comma) THEN Digits(u, comma + 1) ELSE 0
           c == ColorAt(u, i)
<1>1. Len(u) \in Nat /\ DOMAIN u = 1..Len(u) /\ i + 1 + 1 = i + 2
  OBVIOUS
<1>2. IsDigit(u, i + 1) /\ IsDigit(u, i + 1 + 1)
  BY <1>1
<1>3. n = 2
  BY <1>2 DEF Digits
<1>4. Number(u, i + 1) = Value(u[i + 1], u[i + 2])
  BY <1>1, <1>3 DEF Number, Value
<1>5. /\ c.color = Number(u, i + 1) /\ c.bg = IF m = 0 THEN -1 ELSE Number(u, comma + 1)
      /\ c.taken = n + IF m = 0 THEN 0 ELSE m + 1
  BY Zenon DEF ColorAt, CommaAt
<1>6. comma = i + 3
  BY <1>3
<1> HIDE DEF n, comma, c
<1>7. m = 0
  BY <1>1, <1>6
<1> HIDE DEF m
<1>8. c.color = Value(u[i + 1], u[i + 2]) /\ c.bg = -1 /\ c.taken = 2
  BY <1>3, <1>4, <1>5, <1>7
<1> QED
  BY <1>8 DEF c

LEMMA ColorIsFive ==
  ASSUME NEW u \in Seq(Char), NEW i \in 1..Len(u), i + 5 <= Len(u),
         IsDigit(u, i + 1), IsDigit(u, i + 2), CommaAt(u, i + 3),
         IsDigit(u, i + 4), IsDigit(u, i + 5)
  PROVE  LET c == ColorAt(u, i)
         IN /\ c.color = Value(u[i + 1], u[i + 2]) /\ c.bg = Value(u[i + 4], u[i + 5])
            /\ c.taken = 5
<1> DEFINE n == Digits(u, i + 1)
           comma == i + n + 1
           m == IF n > 0 /\ CommaAt(u, comma) THEN Digits(u, comma + 1) ELSE 0
           c == ColorAt(u, i)
<1>1. /\ Len(u) \in Nat /\ DOMAIN u = 1..Len(u) /\ i + 1 + 1 = i + 2 /\ i + 4 + 1 = i + 5
      /\ i + 3 \in 1..Len(u)
  OBVIOUS
<1>2. IsDigit(u, i + 1) /\ IsDigit(u, i + 1 + 1) /\ IsDigit(u, i + 4) /\ IsDigit(u, i + 4 + 1)
  BY <1>1
<1>3. n = 2 /\ Digits(u, i + 4) = 2
  BY <1>2 DEF Digits
<1>4. Number(u, i + 1) = Value(u[i + 1], u[i + 2]) /\ Number(u, i + 4) = Value(u[i + 4], u[i + 5])
  BY <1>1, <1>3 DEF Number, Value
<1>5. /\ c.color = Number(u, i + 1) /\ c.bg = IF m = 0 THEN -1 ELSE Number(u, comma + 1)
      /\ c.taken = n + IF m = 0 THEN 0 ELSE m + 1
  BY Zenon DEF ColorAt, CommaAt
<1>6. comma = i + 3 /\ comma + 1 = i + 4
  BY <1>3
<1> HIDE DEF n, comma, c
<1>7. m = 2
  BY <1>1, <1>3, <1>6
<1> HIDE DEF m
<1>8. c.color = Value(u[i + 1], u[i + 2]) /\ c.bg = Value(u[i + 4], u[i + 5]) /\ c.taken = 5
  BY <1>3, <1>4, <1>5, <1>6, <1>7
<1> QED
  BY <1>8 DEF c
-----------------------------------------------------------------------------
(* Piece by piece, the tags are read as their images are shown. *)

Follows(x, open, next) ==
  \A g : g \in next <=> Opens(x, g) \/ (g \in open /\ x # <<"close", g>>)

Opening(x, tag) == x = <<"open", tag>>
Closes(x, tag) == x = <<"close", tag>>
Paints(x, v, w) == x = <<"COLOR", v, w>>

LEMMA NextOpen ==
  ASSUME NEW x, NEW open, NEW next, Follows(x, open, next)
  PROVE  /\ \A c \in Char : x = <<c>> => next = open
         /\ \A tag : Opening(x, tag) => next = open \cup {tag}
         /\ \A tag : Closes(x, tag) => next = open \ {tag}
         /\ \A v, w : Paints(x, v, w) => next = open \cup {"COLOR"}
<1>1. "open" # "close" /\ "open" # "COLOR" /\ "close" # "COLOR"
  OBVIOUS
<1>2. /\ \A g : <<"close", g>>[1] = "close" /\ <<"close", g>>[2] = g
      /\ \A g : <<"open", g>>[1] = "open" /\ <<"open", g>>[2] = g
      /\ \A v, w : <<"COLOR", v, w>>[1] = "COLOR"
      /\ \A c : <<c>>[1] = c
  OBVIOUS
<1>7. \A g : g \in next <=> Opens(x, g) \/ (g \in open /\ x # <<"close", g>>)
  BY Zenon DEF Follows
<1>3. ASSUME NEW c \in Char, x = <<c>> PROVE next = open
  <2>1. c # "open" /\ c # "close" /\ c # "COLOR"
    BY DEF Char
  <2>2. \A g : ~Opens(x, g) /\ x # <<"close", g>>
    BY <1>2, <1>3, <2>1, Zenon DEF Opens
  <2> QED
    BY <1>7, <2>2
<1>4. ASSUME NEW tag, x = <<"open", tag>> PROVE next = open \cup {tag}
  <2>1. \A g : (Opens(x, g) <=> g = tag) /\ x # <<"close", g>>
    BY <1>1, <1>2, <1>4, Zenon DEF Opens
  <2> QED
    BY <1>7, <2>1
<1>5. ASSUME NEW tag, x = <<"close", tag>> PROVE next = open \ {tag}
  <2>1. \A g : ~Opens(x, g) /\ (x = <<"close", g>> <=> g = tag)
    BY <1>1, <1>2, <1>5, Zenon DEF Opens
  <2> QED
    BY <1>7, <2>1
<1>6. ASSUME NEW v, NEW w, x = <<"COLOR", v, w>> PROVE next = open \cup {"COLOR"}
  <2>1. \A g : (Opens(x, g) <=> g = "COLOR") /\ x # <<"close", g>>
    BY <1>1, <1>2, <1>6, Zenon DEF Opens
  <2> QED
    BY <1>7, <2>1
<1> QED
  BY <1>3, <1>4, <1>5, <1>6, Zenon DEF Opening, Closes, Paints

(* No comma follows a color whose next piece is none. *)
LEMMA FirstOf ==
  ASSUME NEW a, NEW b, NEW c, NEW d, NEW e, NEW f
  PROVE  /\ 1 \in 1..Len(<<a>>) /\ <<a>>[1] = a
         /\ 1 \in 1..Len(<<a, b, c>>) /\ <<a, b, c>>[1] = a
         /\ 1 \in 1..Len(<<a, b, c, d, e, f>>) /\ <<a, b, c, d, e, f>>[1] = a
<1>1. Len(<<a>>) = 1 /\ <<a>>[1] = a
  OBVIOUS
<1>2. Len(<<a, b, c>>) = 3 /\ <<a, b, c>>[1] = a
  OBVIOUS
<1>3. Len(<<a, b, c, d, e, f>>) = 6 /\ <<a, b, c, d, e, f>>[1] = a
  OBVIOUS
<1>4. 1 \in 1..1 /\ 1 \in 1..3 /\ 1 \in 1..6
  OBVIOUS
<1> QED
  BY <1>1, <1>2, <1>3, <1>4, Zenon

IsComma(x) == x = <<",">>

LEMMA NoComma ==
  ASSUME NEW d \in Seq(TagPieces), NEW u \in Seq(Char), NEW f, Offsets(Images(d), u, f),
         NEW k \in 1..Len(d), k < Len(d) => ~IsComma(Pieces(d)[k + 1])
  PROVE  ~CommaAt(u, f[k] + 1)
<1> SUFFICES ASSUME CommaAt(u, f[k] + 1) PROVE FALSE
  OBVIOUS
<1> DEFINE next == k + 1
           ws == Images(d)
<1>1. Len(d) \in Nat /\ Len(u) \in Nat /\ DOMAIN u = 1..Len(u)
  OBVIOUS
<1>2. /\ Len(ws) = Len(d)
      /\ \A i \in 1..Len(d) : ws[i] = Image(d[i]) /\ d[i] \in TagPieces
  BY ImagesAre
<1>3. k # Len(d)
  <2>1. f[Len(d)] = Len(u)
    BY <1>2, Zenon DEF Offsets
  <2>2. f[k] + 1 \in 1..Len(u)
    BY <1>1, Zenon DEF CommaAt
  <2>3. Len(u) + 1 \notin 1..Len(u)
    BY <1>1
  <2> QED
    BY <2>1, <2>2, <2>3, Zenon
<1>4. next \in 1..Len(d) /\ next - 1 = k /\ k < Len(d)
  BY <1>1, <1>3
<1> DEFINE q == d[next]
<1>5. Pieces(d)[next] = ItemOf(q) /\ ~IsComma(ItemOf(q))
  BY <1>4, ItemsAre, Zenon
<1> HIDE DEF next
<1>6. q \in TagPieces /\ ws[next] = Image(q)
  BY <1>2, <1>4
<1>7. \A j \in 1..Len(ws[next]) : u[f[next - 1] + j] = ws[next][j]
  BY <1>2, <1>4, Zenon DEF Offsets
<1>8. 1 \in 1..Len(Image(q)) => Image(q)[1] = ","
  BY <1>4, <1>6, <1>7, Zenon DEF CommaAt
<1> HIDE DEF q, ws
<1>9. CASE \E c \in Ordinary : q = <<c>> /\ Image(q) = <<c>>
  <2>1. PICK c \in Ordinary : q = <<c>> /\ Image(q) = <<c>>
    BY <1>9
  <2>2. 1 \in 1..Len(<<c>>) /\ <<c>>[1] = c
    BY FirstOf, Zenon
  <2>3. c = ","
    BY <1>8, <2>1, <2>2, Zenon
  <2>4. ItemOf(q) = <<c>>
    BY <1>6, <2>1, ItemIs, Zenon
  <2> QED
    BY <1>5, <2>3, <2>4, Zenon DEF IsComma
<1>10. CASE \E n \in DOMAIN Mirc : Image(q) = Mirc[n]
  <2>1. PICK n \in DOMAIN Mirc : Image(q) = Mirc[n]
    BY <1>10
  <2>2. "," \notin Toggles \cup {Reset, Color}
    BY DEF Toggles, Bold, Underline, Invert, Reset, Color
  <2>4. 1 \in 1..Len(Mirc[n]) /\ Mirc[n][1] \in Toggles \cup {Reset, Color}
    <3>1. CASE Toggling(n)
      BY <3>1, FirstOf, Zenon DEF Toggling
    <3>2. CASE Resetting(n)
      BY <3>2, FirstOf, Zenon DEF Resetting
    <3>3. CASE Coloring(n)
      <4>1. PICK x, y \in DOMAIN Digit : Mirc[n] = <<Color, x, y>>
        BY <3>3, Zenon DEF Coloring
      <4>2. Len(<<Color, x, y>>) = 3 /\ <<Color, x, y>>[1] = Color /\ 1 \in 1..3
        OBVIOUS
      <4> QED
        BY <4>1, <4>2, Zenon
    <3>4. CASE Grounding(n)
      <4>1. PICK x, y, v, w \in DOMAIN Digit : Mirc[n] = <<Color, x, y, ",", v, w>>
        BY <3>4, Zenon DEF Grounding
      <4> DEFINE word == <<Color, x, y, ",", v, w>>
      <4>2. Len(word) = 6 /\ word[1] = Color /\ 1 \in 1..6
        OBVIOUS
      <4>3. Mirc[n] = word
        BY <4>1, Zenon
      <4> HIDE DEF word
      <4> QED
        BY <4>2, <4>3, Zenon
    <3> QED
      BY <3>1, <3>2, <3>3, <3>4, TagIs
  <2> QED
    BY <1>8, <2>1, <2>2, <2>4, Zenon
<1> QED
  BY <1>6, <1>9, <1>10, TagPieceIs, Zenon

(* The conditions under which tags look the same, for tag i. *)
Usable(tags, i) ==
  /\ tags[i][1] = "open" => tags[i][2] \notin Open(tags, i)
  /\ tags[i][1] = "close" =>
       /\ tags[i][2] \in Open(tags, i)
       /\ tags[i][2] = "COLOR" => Open(tags, i) = {"COLOR"}
  /\ tags[i][1] = "COLOR" => /\ "COLOR" \notin Open(tags, i)
                             /\ tags[i][3] = -1 /\ i < Len(tags) => tags[i + 1] # <<",">>
  /\ tags[i] = <<"[">> =>
       \A j \in (i + 1)..Len(tags) : Len(tags[j]) > 1 =>
         \E k \in (i + 1)..(j - 1) : tags[k] = <<"]">>

(* What follows from them for one item x, when next is what is open next.   *)
Fits(x, open, next) ==
  /\ x[1] = "open" => x[2] \notin open
  /\ x[1] = "close" => x[2] \in open /\ (x[2] = "COLOR" => open = {"COLOR"})
  /\ x[1] = "COLOR" => "COLOR" \notin open
  /\ Follows(x, open, next)

LEMMA ShowsPlain ==
  ASSUME NEW u \in Seq(Char), NEW i \in 1..Len(u), NEW r, NEW open, NEW next,
         Agree(r, Showing(u)[i - 1], open), NEW c \in Ordinary, Fits(<<c>>, open, next),
         u[i] = c
  PROVE  Agree(ShowTag(r, <<c>>), Showing(u)[i], next)
<1>1. next = open
  <2> DEFINE x == <<c>>
  <2>1. c \in Char
    BY DEF Ordinary
  <2>2. Follows(x, open, next)
    BY Zenon DEF Fits
  <2>3. x = <<c>>
    OBVIOUS
  <2> HIDE DEF x
  <2> QED
    BY <2>1, <2>2, <2>3, NextOpen, Zenon
<1> DEFINE g == Showing(u)[i - 1]
<1>2. Showing(u)[i] = ShowMirc(u, g, i)
  BY ShowingStep
<1> HIDE DEF g
<1>3. Agree(ShowTag(r, <<c>>), ShowMirc(u, g, i), open)
  <2>1. Agree(r, g, open)
    BY DEF g
  <2> QED
    BY <2>1, AgreePlain
<1> QED
  BY <1>1, <1>2, <1>3, Zenon

LEMMA ShowsToggle ==
  ASSUME NEW u \in Seq(Char), NEW i \in 1..Len(u), NEW r, NEW open, NEW next,
         Agree(r, Showing(u)[i - 1], open), NEW x \in Toggles,
         NEW e \in {"open", "close"} \X {TagOf[x]}, Fits(e, open, next),
         u[i] = x
  PROVE  Agree(ShowTag(r, e), Showing(u)[i], next)
<1> DEFINE g == Showing(u)[i - 1]
           tag == TagOf[x]
<1>1. Showing(u)[i] = ShowMirc(u, g, i) /\ Agree(r, g, open)
  BY ShowingStep
<1> HIDE DEF g
<1>2. Follows(e, open, next)
  BY Zenon DEF Fits
<1>3. e = <<"open", tag>> \/ e = <<"close", tag>>
  OBVIOUS
<1>4. CASE e = <<"open", tag>>
  <2>1. e[1] = "open" /\ e[2] = tag
    BY <1>4
  <2>2. tag \notin open
    BY <2>1, Zenon DEF Fits
  <2>3. next = open \cup {tag}
    <3>1. Opening(e, tag)
      BY <1>4, Zenon DEF Opening
    <3> HIDE DEF tag
    <3> QED
      BY <1>2, <3>1, NextOpen, Zenon
  <2>4. Agree(ShowTag(r, <<"open", TagOf[x]>>), ShowMirc(u, g, i), next)
    BY <1>1, <2>2, <2>3, AgreeToggle, Zenon
  <2> QED
    BY <1>1, <1>4, <2>4, Zenon
<1>5. CASE e = <<"close", tag>>
  <2>1. e[1] = "close" /\ e[2] = tag
    BY <1>5
  <2>2. tag \in open
    BY <2>1, Zenon DEF Fits
  <2>3. next = open \ {tag}
    <3>1. Closes(e, tag)
      BY <1>5, Zenon DEF Closes
    <3> HIDE DEF tag
    <3> QED
      BY <1>2, <3>1, NextOpen, Zenon
  <2>4. Agree(ShowTag(r, <<"close", TagOf[x]>>), ShowMirc(u, g, i), next)
    BY <1>1, <2>2, <2>3, AgreeToggle, Zenon
  <2> QED
    BY <1>1, <1>5, <2>4, Zenon
<1> QED
  BY <1>3, <1>4, <1>5

LEMMA ShowsReset ==
  ASSUME NEW u \in Seq(Char), NEW i \in 1..Len(u), NEW r, NEW open, NEW next,
         Agree(r, Showing(u)[i - 1], open), NEW e, e = <<"close", "COLOR">>,
         Fits(e, open, next), u[i] = Reset
  PROVE  Agree(ShowTag(r, e), Showing(u)[i], next)
<1> DEFINE g == Showing(u)[i - 1]
<1>1. Showing(u)[i] = ShowMirc(u, g, i) /\ Agree(r, g, open)
  BY ShowingStep
<1> HIDE DEF g
<1>2. e[1] = "close" /\ e[2] = "COLOR"
  OBVIOUS
<1>3. open = {"COLOR"}
  BY <1>2, Zenon DEF Fits
<1>4. Follows(e, open, next)
  BY Zenon DEF Fits
<1>5. next = open \ {"COLOR"}
  <2>1. Closes(e, "COLOR")
    BY Zenon DEF Closes
  <2> QED
    BY <1>4, <2>1, NextOpen, Zenon
<1>6. next = {}
  BY <1>3, <1>5
<1>7. Agree(ShowTag(r, <<"close", "COLOR">>), ShowMirc(u, g, i), {})
  BY <1>1, <1>3, AgreeReset
<1> QED
  BY <1>1, <1>6, <1>7, Zenon

LEMMA ShowsColor ==
  ASSUME NEW u \in Seq(Char), NEW i \in 1..Len(u), NEW r, NEW open, NEW next,
         Agree(r, Showing(u)[i - 1], open), NEW v, NEW w, NEW e, Paints(e, v, w),
         Fits(e, open, next), u[i] = Color, ColorAt(u, i).color = v, ColorAt(u, i).bg = w
  PROVE  Agree(ShowTag(r, e), Showing(u)[i + ColorAt(u, i).taken], next)
<1>1. e[1] = "COLOR"
  BY DEF Paints
<1>2. "COLOR" \notin open
  BY <1>1, Zenon DEF Fits
<1>3. Follows(e, open, next)
  BY Zenon DEF Fits
<1>4. next = open \cup {"COLOR"}
  <2>1. \A p, q : Paints(e, p, q) => next = open \cup {"COLOR"}
    BY <1>3, NextOpen, Zenon
  <2> QED
    BY <2>1
<1>5. Agree(ShowTag(r, <<"COLOR", ColorAt(u, i).color, ColorAt(u, i).bg>>),
            Showing(u)[i + ColorAt(u, i).taken], next)
  BY <1>2, <1>4, AgreeColor
<1> QED
  BY <1>5, Zenon DEF Paints

-----------------------------------------------------------------------------
(* The characters w stand behind the first a characters of a text. *)
Stands(u, a, w) == a + Len(w) <= Len(u) /\ \A j \in 1..Len(w) : u[a + j] = w[j]

LEMMA StandsOne ==
  ASSUME NEW u \in Seq(Char), NEW a \in Nat, NEW x, Stands(u, a, <<x>>)
  PROVE  a + 1 \in 1..Len(u) /\ u[a + 1] = x
<1> DEFINE w == <<x>>
<1>1. Len(w) = 1 /\ w[1] = x /\ Len(u) \in Nat
  OBVIOUS
<1>2. a + Len(w) <= Len(u) /\ \A j \in 1..Len(w) : u[a + j] = w[j]
  BY Zenon DEF Stands
<1> HIDE DEF w
<1> QED
  BY <1>1, <1>2

LEMMA StandsThree ==
  ASSUME NEW u \in Seq(Char), NEW a \in Nat, NEW x, NEW y, NEW z, Stands(u, a, <<x, y, z>>)
  PROVE  a + 3 <= Len(u) /\ u[a + 1] = x /\ u[a + 2] = y /\ u[a + 3] = z
<1> DEFINE w == <<x, y, z>>
<1>1. Len(w) = 3 /\ w[1] = x /\ w[2] = y /\ w[3] = z
  OBVIOUS
<1>2. a + Len(w) <= Len(u) /\ \A j \in 1..Len(w) : u[a + j] = w[j]
  BY Zenon DEF Stands
<1> HIDE DEF w
<1> QED
  BY <1>1, <1>2

LEMMA StandsSix ==
  ASSUME NEW u \in Seq(Char), NEW a \in Nat, NEW x, NEW y, NEW z, NEW o, NEW v, NEW w,
         Stands(u, a, <<x, y, z, o, v, w>>)
  PROVE  /\ a + 6 <= Len(u) /\ u[a + 1] = x /\ u[a + 2] = y /\ u[a + 3] = z
         /\ u[a + 4] = o /\ u[a + 5] = v /\ u[a + 6] = w
<1> DEFINE s == <<x, y, z, o, v, w>>
<1>1. Len(s) = 6 /\ s[1] = x /\ s[2] = y /\ s[3] = z /\ s[4] = o /\ s[5] = v /\ s[6] = w
  OBVIOUS
<1>2. a + Len(s) <= Len(u) /\ \A j \in 1..Len(s) : u[a + j] = s[j]
  BY Zenon DEF Stands
<1> HIDE DEF s
<1> QED
  BY <1>1, <1>2

LEMMA ShowsColoring ==
  ASSUME NEW u \in Seq(Char), NEW a \in Nat, NEW r, NEW open, NEW next,
         Agree(r, Showing(u)[a], open), NEW n \in DOMAIN Mirc, Coloring(n),
         Stands(u, a, Mirc[n]), Fits(Tag(n), open, next),
         Tag(n)[3] = -1 => ~CommaAt(u, a + Len(Mirc[n]) + 1)
  PROVE  Agree(ShowTag(r, Tag(n)), Showing(u)[a + Len(Mirc[n])], next)
<1>1. PICK x, y \in DOMAIN Digit :
        Mirc[n] = <<Color, x, y>> /\ Tag(n) = <<"COLOR", Value(x, y), -1>>
  BY Zenon DEF Coloring
<1> DEFINE i == a + 1
           v == Value(x, y)
           m == Len(Mirc[n])
           e == Tag(n)
<1>2. m = 3
  <2>1. Len(<<Color, x, y>>) = 3
    OBVIOUS
  <2> QED
    BY <1>1, <2>1, Zenon
<1>3. e = <<"COLOR", v, -1>> /\ e[3] = -1
  <2>1. <<"COLOR", v, -1>>[3] = -1
    OBVIOUS
  <2> QED
    BY <1>1, <2>1, Zenon
<1>4. ~CommaAt(u, a + m + 1)
  BY <1>3
<1>5. a + 3 <= Len(u) /\ u[a + 1] = Color /\ u[a + 2] = x /\ u[a + 3] = y
  <2>1. Stands(u, a, <<Color, x, y>>)
    BY <1>1, Zenon
  <2> QED
    BY <2>1, StandsThree
<1> HIDE DEF m, v, e
<1>6. /\ i \in 1..Len(u) /\ i - 1 = a /\ i + 1 = a + 2 /\ i + 2 = a + 3 /\ i + 3 = a + m + 1
      /\ i + 2 = a + m /\ i + 2 <= Len(u) /\ DOMAIN u = 1..Len(u)
      /\ i + 1 \in 1..Len(u) /\ i + 2 \in 1..Len(u)
  BY <1>2, <1>5
<1> HIDE DEF i
<1>7. u[i] = Color /\ u[i + 1] = x /\ u[i + 2] = y
  BY <1>5, <1>6 DEF i
<1>8. IsDigit(u, i + 1) /\ IsDigit(u, i + 2) /\ ~CommaAt(u, i + 3)
  BY <1>4, <1>6, <1>7 DEF IsDigit
<1> DEFINE c == ColorAt(u, i)
<1>9. c.color = v /\ c.bg = -1 /\ c.taken = 2
  BY <1>6, <1>7, <1>8, ColorIsTwo DEF v
<1>10. Agree(r, Showing(u)[i - 1], open) /\ Fits(e, open, next) /\ Paints(e, v, -1)
  BY <1>3, <1>6, Zenon DEF e, Paints
<1>11. Agree(ShowTag(r, e), Showing(u)[i + c.taken], next)
  BY <1>6, <1>7, <1>9, <1>10, ShowsColor
<1>12. i + c.taken = a + m
  BY <1>6, <1>9
<1> QED
  BY <1>11, <1>12, Zenon DEF e, m

LEMMA ShowsGrounding ==
  ASSUME NEW u \in Seq(Char), NEW a \in Nat, NEW r, NEW open, NEW next,
         Agree(r, Showing(u)[a], open), NEW n \in DOMAIN Mirc, Grounding(n),
         Stands(u, a, Mirc[n]), Fits(Tag(n), open, next)
  PROVE  Agree(ShowTag(r, Tag(n)), Showing(u)[a + Len(Mirc[n])], next)
<1> DEFINE comma == ","
<1>1. PICK x, y, z, o \in DOMAIN Digit :
        /\ Mirc[n] = <<Color, x, y, comma, z, o>>
        /\ Tag(n) = <<"COLOR", Value(x, y), Value(z, o)>>
  BY Zenon DEF Grounding
<1> DEFINE i == a + 1
           v == Value(x, y)
           w == Value(z, o)
           m == Len(Mirc[n])
           e == Tag(n)
<1> HIDE DEF comma
<1>2. m = 6
  <2>1. Len(<<Color, x, y, comma, z, o>>) = 6
    OBVIOUS
  <2> QED
    BY <1>1, <2>1, Zenon
<1>5. /\ a + 6 <= Len(u) /\ u[a + 1] = Color /\ u[a + 2] = x /\ u[a + 3] = y
      /\ u[a + 4] = comma /\ u[a + 5] = z /\ u[a + 6] = o
  <2>1. Stands(u, a, <<Color, x, y, comma, z, o>>)
    BY <1>1, Zenon
  <2> QED
    BY <2>1, StandsSix
<1>10. Paints(e, v, w)
  BY <1>1, Zenon DEF Paints
<1> HIDE DEF m, v, w, e
<1>6. /\ i \in 1..Len(u) /\ i - 1 = a /\ i + 1 = a + 2 /\ i + 2 = a + 3 /\ i + 3 = a + 4
      /\ i + 4 = a + 5 /\ i + 5 = a + 6 /\ i + 5 = a + m /\ i + 5 <= Len(u) /\ DOMAIN u = 1..Len(u)
      /\ i + 1 \in 1..Len(u) /\ i + 2 \in 1..Len(u) /\ i + 3 \in 1..Len(u)
      /\ i + 4 \in 1..Len(u) /\ i + 5 \in 1..Len(u)
  BY <1>2, <1>5
<1> HIDE DEF i
<1>7. /\ u[i] = Color /\ u[i + 1] = x /\ u[i + 2] = y /\ u[i + 3] = comma
      /\ u[i + 4] = z /\ u[i + 5] = o
  BY <1>5, <1>6 DEF i
<1>8. /\ IsDigit(u, i + 1) /\ IsDigit(u, i + 2) /\ CommaAt(u, i + 3)
      /\ IsDigit(u, i + 4) /\ IsDigit(u, i + 5)
  BY <1>6, <1>7 DEF IsDigit, CommaAt, comma
<1> DEFINE c == ColorAt(u, i)
<1>9. c.color = v /\ c.bg = w /\ c.taken = 5
  BY <1>6, <1>7, <1>8, ColorIsFive DEF v, w
<1>11. Agree(r, Showing(u)[i - 1], open) /\ Fits(e, open, next)
  BY <1>6, Zenon DEF e
<1>12. Agree(ShowTag(r, e), Showing(u)[i + c.taken], next)
  BY <1>6, <1>7, <1>9, <1>10, <1>11, ShowsColor
<1>13. i + c.taken = a + m
  BY <1>6, <1>9
<1> QED
  BY <1>12, <1>13, Zenon DEF e, m

LEMMA ShowsPiece ==
  ASSUME NEW u \in Seq(Char), NEW a \in Nat, NEW r, NEW open, NEW next,
         Agree(r, Showing(u)[a], open), NEW p \in TagPieces,
         Stands(u, a, Image(p)), Fits(ItemOf(p), open, next),
         ItemOf(p)[1] = "COLOR" /\ ItemOf(p)[3] = -1 => ~CommaAt(u, a + Len(Image(p)) + 1)
  PROVE  Agree(ShowTag(r, ItemOf(p)), Showing(u)[a + Len(Image(p))], next)
<1> DEFINE i == a + 1
<1>1. i - 1 = a /\ i = a + 1
  OBVIOUS
<1>2. \A x : Len(<<x>>) = 1
  OBVIOUS
<1> HIDE DEF i
<1>3. CASE \E c \in Ordinary : p = <<c>> /\ Image(p) = <<c>>
  <2>1. PICK c \in Ordinary : p = <<c>> /\ Image(p) = <<c>>
    BY <1>3
  <2>2. ItemOf(p) = <<c>>
    BY <2>1, ItemIs, Zenon
  <2>3. Stands(u, a, <<c>>)
    BY <2>1, Zenon
  <2>4. i \in 1..Len(u) /\ u[i] = c
    BY <1>1, <2>3, StandsOne
  <2>5. Agree(r, Showing(u)[i - 1], open) /\ Fits(<<c>>, open, next)
    BY <1>1, <2>2, Zenon
  <2>6. Agree(ShowTag(r, <<c>>), Showing(u)[i], next)
    BY <2>4, <2>5, ShowsPlain
  <2>7. a + Len(Image(p)) = i
    BY <1>1, <1>2, <2>1, Zenon
  <2> QED
    BY <2>2, <2>6, <2>7, Zenon
<1>4. CASE \E n \in DOMAIN Mirc : Len(p) = 3 /\ p[2] = n /\ Image(p) = Mirc[n]
  <2>1. PICK n \in DOMAIN Mirc : Len(p) = 3 /\ p[2] = n /\ Image(p) = Mirc[n]
    BY <1>4
  <2>2. ItemOf(p) = Tag(n)
    BY <2>1, ItemIs, Zenon
  <2>3. Stands(u, a, Mirc[n]) /\ Fits(Tag(n), open, next)
    BY <2>1, <2>2, Zenon
  <2> DEFINE e == Tag(n)
  <2>4. Agree(r, Showing(u)[i - 1], open) /\ Fits(e, open, next)
    BY <1>1, <2>3, Zenon
  <2>9. Agree(ShowTag(r, Tag(n)), Showing(u)[a + Len(Mirc[n])], next)
    <3>1. CASE Toggling(n)
      <4>1. PICK x \in Toggles : Mirc[n] = <<x>> /\ e \in {"open", "close"} \X {TagOf[x]}
        BY <3>1, Zenon DEF Toggling
      <4>2. Stands(u, a, <<x>>)
        BY <2>3, <4>1, Zenon
      <4>3. i \in 1..Len(u) /\ u[i] = x
        BY <1>1, <4>2, StandsOne
      <4>4. Agree(ShowTag(r, e), Showing(u)[i], next)
        <5> HIDE DEF e
        <5> QED
          BY <2>4, <4>1, <4>3, ShowsToggle
      <4>5. a + Len(Mirc[n]) = i
        BY <1>1, <1>2, <4>1, Zenon
      <4> QED
        BY <4>4, <4>5, Zenon
    <3>2. CASE Resetting(n)
      <4>1. Mirc[n] = <<Reset>> /\ e = <<"close", "COLOR">>
        BY <3>2, Zenon DEF Resetting
      <4>2. Stands(u, a, <<Reset>>)
        BY <2>3, <4>1, Zenon
      <4>3. i \in 1..Len(u) /\ u[i] = Reset
        BY <1>1, <4>2, StandsOne
      <4>4. Agree(ShowTag(r, e), Showing(u)[i], next)
        <5> HIDE DEF e
        <5> QED
          BY <2>4, <4>1, <4>3, ShowsReset
      <4>5. a + Len(Mirc[n]) = i
        BY <1>1, <1>2, <4>1, Zenon
      <4> QED
        BY <4>4, <4>5, Zenon
    <3>3. CASE Coloring(n)
      <4>1. Tag(n)[1] = "COLOR"
        <5>1. \A x, y : <<"COLOR", x, y>>[1] = "COLOR"
          OBVIOUS
        <5> QED
          BY <3>3, <5>1, Zenon DEF Coloring
      <4>2. Tag(n)[3] = -1 => ~CommaAt(u, a + Len(Mirc[n]) + 1)
        BY <2>1, <2>2, <4>1, Zenon
      <4> QED
        BY <2>3, <3>3, <4>2, ShowsColoring
    <3>4. CASE Grounding(n)
      BY <2>3, <3>4, ShowsGrounding
    <3> QED
      BY <3>1, <3>2, <3>3, <3>4, TagIs
  <2> QED
    BY <2>1, <2>2, <2>9, Zenon
<1> QED
  BY <1>3, <1>4, TagPieceIs, Zenon

-----------------------------------------------------------------------------
LEMMA ShowsNext ==
  ASSUME NEW d \in Seq(TagPieces), NEW u \in Seq(Char), NEW f, Offsets(Images(d), u, f),
         NEW k \in 1..Len(d), Usable(Pieces(d), k),
         Agree(Reading(Pieces(d))[k - 1], Showing(u)[f[k - 1]], Open(Pieces(d), k))
  PROVE  Agree(Reading(Pieces(d))[k], Showing(u)[f[k]], Open(Pieces(d), k + 1))
<1> DEFINE tags == Pieces(d)
           a == f[k - 1]
           p == d[k]
           x == tags[k]
           open == Open(tags, k)
           next == Open(tags, k + 1)
           r == Reading(tags)[k - 1]
<1>1. /\ tags \in Seq(Item) /\ Len(tags) = Len(d) /\ x = ItemOf(p)
  BY ItemsAre
<1>2. /\ Len(Images(d)) = Len(d) /\ Images(d)[k] = Image(p) /\ p \in TagPieces
  BY ImagesAre
<1>3. k - 1 \in 0..Len(d) /\ k \in Nat \ {0}
  OBVIOUS
<1>4. /\ a \in Nat /\ f[k] = a + Len(Image(p)) /\ f[k] <= Len(u)
      /\ \A j \in 1..Len(Image(p)) : u[a + j] = Image(p)[j]
  <2>1. f \in [0..Len(d) -> Nat]
    BY <1>2, Zenon DEF Offsets
  <2>2. a \in Nat
    <3> HIDE DEF tags, p, x, open, next, r
    <3> QED
      BY <1>3, <2>1
  <2>3. /\ f[k] = f[k - 1] + Len(Images(d)[k]) /\ f[k] <= Len(u)
        /\ \A j \in 1..Len(Images(d)[k]) : u[f[k - 1] + j] = Images(d)[k][j]
    BY <1>2, Zenon DEF Offsets
  <2> QED
    BY <1>2, <2>2, <2>3, Zenon
<1>5. Stands(u, a, Image(p))
  BY <1>4, Zenon DEF Stands
<1>6. Reading(tags)[k] = ShowTag(r, x)
  BY <1>1, ReadStep
<1>7. Follows(x, open, next)
  BY <1>3, OpenNext, Zenon DEF Follows
<1>8. Usable(tags, k) /\ Agree(r, Showing(u)[a], open)
  OBVIOUS
<1>9. x[1] = "COLOR" /\ x[3] = -1 => ~CommaAt(u, f[k] + 1)
  <2> SUFFICES ASSUME x[1] = "COLOR", x[3] = -1 PROVE ~CommaAt(u, f[k] + 1)
    OBVIOUS
  <2>1. k < Len(tags) => ~IsComma(tags[k + 1])
    BY <1>8, Zenon DEF Usable, IsComma
  <2>2. k < Len(d) => ~IsComma(Pieces(d)[k + 1])
    BY <1>1, <2>1, Zenon
  <2> QED
    BY <2>2, NoComma
<1>10. Fits(x, open, next)
  <2>1. /\ x[1] = "open" => x[2] \notin open
        /\ x[1] = "close" => x[2] \in open /\ (x[2] = "COLOR" => open = {"COLOR"})
        /\ x[1] = "COLOR" => "COLOR" \notin open
    BY <1>8, Zenon DEF Usable
  <2> QED
    BY <1>7, <2>1, Zenon DEF Fits
<1>11. Fits(ItemOf(p), open, next)
  BY <1>1, <1>10, Zenon
<1>12. ItemOf(p)[1] = "COLOR" /\ ItemOf(p)[3] = -1 => ~CommaAt(u, a + Len(Image(p)) + 1)
  BY <1>1, <1>4, <1>9, Zenon
<1> HIDE DEF open, next, r, x, p, a, tags
<1>13. Agree(ShowTag(r, ItemOf(p)), Showing(u)[a + Len(Image(p))], next)
  BY <1>2, <1>4, <1>5, <1>8, <1>11, <1>12, ShowsPiece
<1>14. Agree(Reading(tags)[k], Showing(u)[f[k]], next)
  BY <1>1, <1>4, <1>6, <1>13, Zenon
<1> QED
  BY <1>14, Zenon DEF next, tags

LEMMA ShowsImages ==
  ASSUME NEW d \in Seq(TagPieces), \A i \in 1..Len(d) : Usable(Pieces(d), i)
  PROVE  Shown(FlattenSeq(Images(d))) = Read(Pieces(d))
<1> DEFINE u == FlattenSeq(Images(d))
           tags == Pieces(d)
           n == Len(d)
<1>1. n \in Nat /\ Len(Images(d)) = n /\ Images(d) \in Seq(Seq(Char))
  BY ImagesAre
<1>2. u \in Seq(Char)
  BY <1>1, FlattenTyped
<1>3. PICK f : Offsets(Images(d), u, f)
  BY <1>1, OffsetsAre
<1>4. f[0] = 0 /\ f[n] = Len(u)
  BY <1>1, <1>3, Zenon DEF Offsets
<1>5. tags \in Seq(Item) /\ Len(tags) = n
  BY ItemsAre
<1> DEFINE At(k, m) == Agree(Reading(tags)[k], Showing(u)[f[k]], Open(tags, m))
           T == {k \in 0..n : At(k, k + 1)}
<1>6. At(0, 1)
  <2>1. Reading(tags)[0] = Blank
    BY <1>5, ReadStep
  <2>2. Showing(u)[0] = Blank
    BY <1>2, ShowingStep
  <2>3. Open(tags, 1) = {}
    <3>1. 1 \in Nat \ {0}
      OBVIOUS
    <3> QED
      BY <3>1, OpenNext
  <2>4. Agree(Blank, Blank, {})
    BY BlankIs DEF Agree, Same
  <2> QED
    BY <1>4, <2>1, <2>2, <2>3, <2>4, Zenon
<1>7. ASSUME NEW k \in 1..n, At(k - 1, k) PROVE At(k, k + 1)
  <2>1. Usable(Pieces(d), k)
    OBVIOUS
  <2>2. Agree(Reading(Pieces(d))[k - 1], Showing(u)[f[k - 1]], Open(Pieces(d), k))
    BY <1>7
  <2> HIDE DEF u
  <2> QED
    BY <1>2, <1>3, <2>1, <2>2, ShowsNext
<1> HIDE DEF At
<1>8. 0 \in T
  BY <1>1, <1>6
<1>9. ASSUME NEW k \in 1..n, k - 1 \in T PROVE k \in T
  <2>1. (k - 1) + 1 = k /\ k \in 0..n
    BY <1>1
  <2>2. At(k - 1, k)
    BY <1>9, <2>1
  <2> QED
    BY <1>7, <2>1, <2>2
<1>10. n \in T
  <2>1. 0..n \subseteq T
    <3> HIDE DEF T, n
    <3> QED
      BY <1>1, <1>8, <1>9, Upwards
  <2> QED
    BY <1>1, <2>1
<1>11. Agree(Reading(tags)[n], Showing(u)[f[n]], Open(tags, n + 1))
  BY <1>10 DEF At
<1>12. Reading(tags)[Len(tags)].text = Showing(u)[Len(u)].text
  BY <1>4, <1>5, <1>11, Zenon DEF Agree, Same
<1> QED
  BY <1>12, Zenon DEF Shown, Read

(* An opening bracket that the tags allow encloses none of them. *)
LEMMA SmallItems ==
  ASSUME NEW p \in TagPieces
  PROVE  /\ Len(p) = 1 => ItemOf(p) = p
         /\ Len(p) = 3 => Len(ItemOf(p)) > 1
         /\ Len(ItemOf(p)) = 1 => ItemOf(p) = p
<1>1. CASE \E c \in Ordinary : p = <<c>> /\ Len(p) = 1
  <2>1. PICK c \in Ordinary : p = <<c>> /\ Len(p) = 1
    BY <1>1
  <2>2. ItemOf(p) = p
    BY <2>1, ItemIs, Zenon
  <2> QED
    BY <2>1, <2>2
<1>2. CASE \E n \in DOMAIN Mirc : Len(p) = 3 /\ p[2] = n
  <2>1. PICK n \in DOMAIN Mirc : Len(p) = 3 /\ p[2] = n
    BY <1>2
  <2>2. ItemOf(p) = Tag(n)
    BY <2>1, ItemIs, Zenon
  <2>3. Len(Tag(n)) \in {2, 3}
    <3>1. \A x, y, z : Len(<<x, y>>) = 2 /\ Len(<<x, y, z>>) = 3
      OBVIOUS
    <3>2. CASE Toggling(n)
      <4>1. PICK x \in Toggles : Tag(n) \in {"open", "close"} \X {TagOf[x]}
        BY <3>2, Zenon DEF Toggling
      <4> QED
        BY <4>1
    <3>3. CASE Resetting(n)
      BY <3>1, <3>3 DEF Resetting
    <3>4. CASE Coloring(n)
      <4>1. PICK x, y : Tag(n) = <<"COLOR", x, y>>
        BY <3>4, Zenon DEF Coloring
      <4> QED
        BY <3>1, <4>1
    <3>5. CASE Grounding(n)
      <4>1. PICK x, y : Tag(n) = <<"COLOR", x, y>>
        BY <3>5, Zenon DEF Grounding
      <4> QED
        BY <3>1, <4>1
    <3> QED
      BY <3>2, <3>3, <3>4, <3>5, TagIs
  <2> QED
    BY <2>1, <2>2, <2>3
<1> QED
  BY <1>1, <1>2, TagPieceIs, Zenon

LEMMA UsableIsHarmless ==
  ASSUME NEW d \in Seq(TagPieces), NEW i \in 1..Len(d), Usable(Pieces(d), i), d[i] = <<"[">>
  PROVE  Harmless(d, i)
<1> DEFINE tags == Pieces(d)
           bracket == <<"[">>
           closing == <<"]">>
<1>1. Len(bracket) = 1 /\ Len(closing) = 1 /\ Len(d) \in Nat /\ d[i] = bracket
  OBVIOUS
<1>2. tags[i] = bracket =>
        \A j \in (i + 1)..Len(tags) : Len(tags[j]) > 1 =>
          \E k \in (i + 1)..(j - 1) : tags[k] = closing
  BY Zenon DEF Usable
<1>3. SUFFICES ASSUME NEW j \in (i + 1)..Len(d), Len(d[j]) = 3
               PROVE  \E l \in (i + 1)..(j - 1) : d[l] = closing
  BY Zenon DEF Harmless
<1>4. Len(tags) = Len(d) /\ \A l \in 1..Len(d) : tags[l] = ItemOf(d[l])
  BY ItemsAre
<1>5. \A l \in 1..Len(d) : d[l] \in TagPieces
  BY ElementOfSeq
<1> HIDE DEF tags, bracket, closing
<1>6. tags[i] = bracket
  BY <1>1, <1>4, <1>5, SmallItems
<1>7. j \in 1..Len(d) /\ \A l \in (i + 1)..(j - 1) : l \in 1..Len(d)
  BY <1>1
<1>8. Len(tags[j]) > 1
  BY <1>3, <1>4, <1>5, <1>7, SmallItems
<1>9. PICK l \in (i + 1)..(j - 1) : tags[l] = closing
  BY <1>2, <1>4, <1>6, <1>8
<1>10. d[l] = closing
  BY <1>1, <1>4, <1>5, <1>7, <1>9, SmallItems
<1> QED
  BY <1>10

(* Tags look the same when they have become control characters, for texts   *)
(* of any length and any table of colors (irc_color_convert_to_mirc,        *)
(* colors.c 251-378).                                                       *)
THEOREM TagsLookTheSame == Spec => []TagsKept
<1>1. Drafted => TagsKept
  <2> DEFINE tags == Pieces(draft)
  <2> SUFFICES ASSUME Drafted, kind = "tags", \A i \in DOMAIN tags : Usable(tags, i)
               PROVE  Shown(ToMirc(Typed)) = Read(tags)
    BY Zenon DEF TagsKept, Usable
  <2>1. draft \in Seq(TagPieces)
    BY DEF Drafted
  <2>2. DOMAIN tags = 1..Len(draft)
    <3>1. tags \in Seq(Item) /\ Len(tags) = Len(draft)
      BY <2>1, ItemsAre
    <3> HIDE DEF tags
    <3> QED
      BY <3>1
  <2>3. \A i \in 1..Len(draft) : Usable(Pieces(draft), i)
    BY <2>2, Zenon
  <2>4. \A i \in 1..Len(draft) : draft[i] = <<"[">> => Harmless(draft, i)
    BY <2>1, <2>3, UsableIsHarmless
  <2>5. ToMirc(Typed) = FlattenSeq(Images(draft))
    BY <2>1, <2>4, ToMircImages DEF Typed
  <2>6. Shown(FlattenSeq(Images(draft))) = Read(Pieces(draft))
    BY <2>1, <2>3, ShowsImages
  <2> QED
    BY <2>5, <2>6, Zenon
<1> QED
  BY <1>1, AlwaysDrafted, PTL

=============================================================================
