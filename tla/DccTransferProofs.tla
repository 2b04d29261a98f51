--------------------------- MODULE DccTransferProofs ---------------------------
(***************************************************************************)
(* Proofs about DccTransfer for files and buffers of every size.  What is  *)
(* under way of acknowledgements is one sequence (Flow), wherever its      *)
(* halves are: the sender takes it away only when the acknowledgement at   *)
(* its front is for all that was sent, and then nothing can be behind it.  *)
(***************************************************************************)
EXTENDS DccTransfer, SequenceTheorems, TLAPS

Flow == (sIn \o acks) \o rOut

(* Nothing that is under way is for more than was received, and what comes  *)
(* behind the first acknowledgement is for more than that one.              *)
Rising == \A i \in 1..Len(Flow) : Flow[i] <= rConfirm /\ (i > 2 => Flow[i] > Flow[1])

(* Where the sender is with its file, and that it is told once. *)
SenderView ==
  /\ sState \in {"LISTENING", "CONNECTED", "CONFIRM_SIZE", "REMOVED"}
  /\ sState # "REMOVED" => read = sConfirm + chunk /\ sTold = "none" /\ ~readFailed
  /\ sState = "CONFIRM_SIZE" => chunk = 0
  /\ sState \in {"LISTENING", "CONNECTED"} => Flow = <<>> /\ rConfirm = sConfirm
  /\ rConfirm <= sConfirm

ReceiverView ==
  /\ rState # "REMOVED" => rTold = "none"
  /\ rState \notin {"CONFIRM_SIZE", "REMOVED"} => rOut = <<>>

IInv == TypeOK /\ SenderView /\ ReceiverView /\ Rising /\ NoAbort

USE SizeAssumption, BufferAssumption

-----------------------------------------------------------------------------
(* A sequence is what is taken from its front with what is left. *)
LEMMA Cut ==
  ASSUME NEW S, NEW s \in Seq(S), NEW n \in 1..Len(s)
  PROVE  /\ Front(s, n) \in Seq(S) /\ Rest(s, n) \in Seq(S)
         /\ Len(Front(s, n)) = n
         /\ Front(s, n) \o Rest(s, n) = s
<1>1. Len(s) \in Nat /\ n \in Nat
  BY LenProperties
<1>2. Front(s, n) \in Seq(S) /\ Len(Front(s, n)) = n
  <2>1. \A i \in 1..n : s[i] \in S
    BY <1>1, ElementOfSeq
  <2> QED
    BY <1>1, <2>1, SubSeqProperties DEF Front
<1>3. Rest(s, n) \in Seq(S)
  <2>1. \A i \in (n + 1)..Len(s) : s[i] \in S
    BY <1>1, ElementOfSeq
  <2> QED
    BY <1>1, <2>1, SubSeqProperties DEF Rest
<1>4. SubSeq(s, 1, n) \o SubSeq(s, n + 1, Len(s)) = SubSeq(s, 1, Len(s))
  <2>1. 1 \in 1..(Len(s) + 1) /\ n \in (1 - 1)..Len(s) /\ Len(s) \in n..Len(s)
    BY <1>1
  <2> QED
    BY <2>1, ConcatAdjacentSubSeq
<1>5. SubSeq(s, 1, Len(s)) = s
  BY SubSeqFull
<1> QED
  BY <1>2, <1>3, <1>4, <1>5 DEF Front, Rest

(* Concatenation is associative. *)
LEMMA Regroup ==
  ASSUME NEW S, NEW a \in Seq(S), NEW b \in Seq(S), NEW c \in Seq(S)
  PROVE  (a \o b) \o c = a \o (b \o c)
<1> DEFINE x == a \o b
           y == b \o c
<1>1. x \in Seq(S) /\ Len(x) = Len(a) + Len(b)
      /\ \A i \in 1..(Len(a) + Len(b)) : x[i] = IF i <= Len(a) THEN a[i] ELSE b[i - Len(a)]
  BY ConcatProperties
<1>2. y \in Seq(S) /\ Len(y) = Len(b) + Len(c)
      /\ \A i \in 1..(Len(b) + Len(c)) : y[i] = IF i <= Len(b) THEN b[i] ELSE c[i - Len(b)]
  BY ConcatProperties
<1> HIDE DEF x, y
<1> DEFINE v == x \o c
           w == a \o y
<1>3. v \in Seq(S) /\ Len(v) = Len(x) + Len(c)
      /\ \A i \in 1..(Len(x) + Len(c)) : v[i] = IF i <= Len(x) THEN x[i] ELSE c[i - Len(x)]
  BY <1>1, ConcatProperties
<1>4. w \in Seq(S) /\ Len(w) = Len(a) + Len(y)
      /\ \A i \in 1..(Len(a) + Len(y)) : w[i] = IF i <= Len(a) THEN a[i] ELSE y[i - Len(a)]
  BY <1>2, ConcatProperties
<1>5. Len(a) \in Nat /\ Len(b) \in Nat /\ Len(c) \in Nat
  BY LenProperties
<1> HIDE DEF v, w
<1>6. Len(v) = Len(w) /\ \A i \in 1..Len(v) : v[i] = w[i]
  <2>1. /\ Len(v) = Len(a) + Len(b) + Len(c) /\ Len(w) = Len(a) + Len(b) + Len(c)
        /\ Len(x) + Len(c) = Len(v) /\ Len(a) + Len(y) = Len(w)
    BY <1>1, <1>2, <1>3, <1>4, <1>5
  <2>2. SUFFICES ASSUME NEW i \in 1..Len(v) PROVE v[i] = w[i]
    BY <2>1
  <2>3. CASE i <= Len(a)
    BY <1>1, <1>3, <1>4, <1>5, <2>1, <2>3
  <2>4. CASE i > Len(a) /\ i <= Len(a) + Len(b)
    <3>1. i - Len(a) \in 1..(Len(b) + Len(c)) /\ i - Len(a) <= Len(b) /\ ~(i <= Len(a))
      BY <1>5, <2>4
    <3>2. w[i] = y[i - Len(a)] /\ y[i - Len(a)] = b[i - Len(a)]
      BY <1>2, <1>4, <2>1, <3>1
    <3>3. v[i] = x[i] /\ x[i] = b[i - Len(a)]
      BY <1>1, <1>3, <1>5, <2>1, <2>4, <3>1
    <3> QED
      BY <3>2, <3>3
  <2>5. CASE i > Len(a) + Len(b)
    <3>1. /\ i - Len(a) \in 1..(Len(b) + Len(c)) /\ ~(i - Len(a) <= Len(b))
          /\ ~(i <= Len(a)) /\ ~(i <= Len(x))
          /\ i - Len(a) - Len(b) = i - Len(x)
      BY <1>1, <1>5, <2>1, <2>5
    <3>2. w[i] = y[i - Len(a)] /\ y[i - Len(a)] = c[i - Len(a) - Len(b)]
      BY <1>2, <1>4, <2>1, <3>1
    <3>3. v[i] = c[i - Len(x)]
      BY <1>3, <2>1, <3>1
    <3> QED
      BY <3>1, <3>2, <3>3
  <2> QED
    BY <1>5, <2>3, <2>4, <2>5
<1>7. v = w
  BY <1>3, <1>4, <1>6, SeqEqual
<1> QED
  BY <1>7 DEF v, w, x, y

(* The same of acknowledgements, with its set fixed. *)
LEMMA RegroupAcks ==
  \A a, b, c \in Seq(0..Size) : (a \o b) \o c = a \o (b \o c)
BY Regroup

(* The front of the middle part may go to the part before it. *)
LEMMA MoveLeft ==
  ASSUME NEW a \in Seq(0..Size), NEW b \in Seq(0..Size), NEW n \in 1..Len(b)
  PROVE  (a \o Front(b, n)) \o Rest(b, n) = a \o b
<1> DEFINE f == Front(b, n)
           r == Rest(b, n)
<1>1. f \in Seq(0..Size) /\ r \in Seq(0..Size) /\ f \o r = b
  BY Cut
<1> HIDE DEF f, r
<1>2. (a \o f) \o r = a \o (f \o r)
  BY <1>1, RegroupAcks
<1> QED
  BY <1>1, <1>2 DEF f, r

LEMMA FlowType == ASSUME TypeOK PROVE Flow \in Seq(0..Size)
BY ConcatProperties DEF TypeOK, Flow

LEMMA InitIInv == Init => IInv
<1> SUFFICES ASSUME Init PROVE IInv
  OBVIOUS
<1>1. <<>> \in Seq(0..Size) /\ Len(<<>>) = 0
  BY EmptySeq
<1>2. TypeOK
  <2>1. acks = <<>> /\ sIn = <<>> /\ rOut = <<>>
    BY DEF Init
  <2>2. acks \in Seq(0..Size) /\ sIn \in Seq(0..Size) /\ rOut \in Seq(0..Size)
    BY <1>1, <2>1, Zenon
  <2>3. sConfirm = 0 /\ rConfirm = 0 /\ read = 0 /\ chunk = 0 /\ 0 \in 0..Size /\ 0 \in 0..Buffer
    BY DEF Init
  <2>4. /\ sState \in States /\ rState \in States
        /\ sTold \in {"none", "ok", "error"} /\ rTold \in {"none", "ok", "error"}
        /\ linked \in BOOLEAN /\ broken \in BOOLEAN /\ readFailed \in BOOLEAN /\ aborted \in BOOLEAN
    BY DEF Init, States
  <2> QED
    BY <2>2, <2>3, <2>4, Zenon DEF TypeOK
<1>3. Flow = <<>>
  BY <1>1, ConcatEmptySeq DEF Init, Flow
<1> QED
  BY <1>1, <1>2, <1>3 DEF IInv, Init, SenderView, ReceiverView, Rising, NoAbort

-----------------------------------------------------------------------------
(* Steps that leave the acknowledgements and what was received alone. *)

LEMMA SEndsStep ==
  ASSUME IInv, NEW word \in {"none", "ok", "error"}, SEnds(word)
  PROVE  IInv'
<1>1. Flow' = Flow
  BY DEF SEnds, Flow, rVars
<1> QED
  BY <1>1 DEF SEnds, rVars, IInv, TypeOK, States, SenderView, ReceiverView, Rising, NoAbort

LEMMA SenderStep ==
  ASSUME IInv, SAccept \/ SAcceptFails \/ STimeout \/ SRead \/ SReadEnd \/ SReadFails
               \/ SSend \/ SSendFails \/ SRecvFails \/ SDestroy
  PROVE  IInv'
<1>1. CASE SAcceptFails \/ STimeout \/ SReadEnd \/ SSendFails \/ SRecvFails \/ SDestroy
  <2>1. sTold \in {"none", "ok", "error"}
    BY DEF IInv, TypeOK
  <2> QED
    BY <1>1, <2>1, SEndsStep DEF SAcceptFails, STimeout, SReadEnd, SSendFails, SRecvFails, SDestroy
<1>2. CASE SAccept
  <2>1. Flow' = Flow
    BY <1>2 DEF SAccept, Flow, rVars
  <2> QED
    BY <1>2, <2>1 DEF SAccept, rVars, IInv, TypeOK, States, SenderView, ReceiverView, Rising, NoAbort
<1>5. CASE SReadFails
  <2>1. Flow' = Flow
    BY <1>5 DEF SReadFails, Flow, rVars
  <2> QED
    BY <1>5, <2>1 DEF SReadFails, rVars, IInv, TypeOK, States, SenderView, ReceiverView, Rising, NoAbort
<1>3. CASE SRead
  <2>1. Flow' = Flow
    BY <1>3 DEF SRead, Flow, rVars
  <2>2. chunk' \in 0..Buffer /\ read' \in 0..Size /\ read' = sConfirm + chunk'
    BY <1>3 DEF SRead, Smaller, IInv, TypeOK, SenderView
  <2> QED
    BY <1>3, <2>1, <2>2 DEF SRead, rVars, IInv, TypeOK, States, SenderView, ReceiverView, Rising, NoAbort
<1>4. CASE SSend
  <2>1. Flow' = Flow
    BY <1>4 DEF SSend, Flow, rVars
  <2> QED
    BY <1>4, <2>1 DEF SSend, rVars, IInv, TypeOK, States, SenderView, ReceiverView, Rising, NoAbort
<1> QED
  BY <1>1, <1>2, <1>3, <1>4, <1>5

(* An acknowledgement comes only to a sender that waits for one, and when   *)
(* it is for all that was sent, it is the last.                             *)
LEMMA SRecvStep ==
  ASSUME IInv, NEW n \in 1..Len(acks), SRecv(n)
  PROVE  IInv'
<1> DEFINE in == sIn \o Front(acks, n)
<1>1. sIn \in Seq(0..Size) /\ acks \in Seq(0..Size) /\ rOut \in Seq(0..Size)
  BY DEF IInv, TypeOK
<1>2. /\ in \in Seq(0..Size) /\ acks' = Rest(acks, n) /\ acks' \in Seq(0..Size)
      /\ in \o acks' = sIn \o acks
  <2>1. /\ Front(acks, n) \in Seq(0..Size) /\ Rest(acks, n) \in Seq(0..Size)
    BY <1>1, Cut
  <2>2. in \in Seq(0..Size)
    BY <1>1, <2>1, ConcatProperties
  <2>3. acks' = Rest(acks, n)
    BY DEF SRecv
  <2>4. in \o Rest(acks, n) = sIn \o acks
    BY <1>1, MoveLeft
  <2> QED
    BY <2>1, <2>2, <2>3, <2>4
<1>3. sState = "CONFIRM_SIZE"
  <2>1. sState \in {"LISTENING", "CONNECTED"} => acks = <<>>
    BY <1>1, ConcatEqualIffEmpty, ConcatProperties DEF IInv, SenderView, Flow
  <2>2. acks # <<>>
    BY EmptySeq
  <2> QED
    BY <2>1, <2>2 DEF IInv, SenderView, SRecv, SWatched
<1>4. CASE Len(in) = 2 /\ in[1] = sConfirm
  <2>1. sIn' = <<>> /\ sState' = "CONNECTED" /\ sTold' = sTold
    BY <1>3, <1>4 DEF SRecv
  <2>2. Flow = in \o (acks' \o rOut)
    <3> DEFINE rest == acks'
    <3>0. in \in Seq(0..Size) /\ rest \in Seq(0..Size) /\ rOut \in Seq(0..Size)
      BY <1>1, <1>2
    <3> HIDE DEF in, rest
    <3>1. (in \o rest) \o rOut = in \o (rest \o rOut)
      BY <3>0, RegroupAcks
    <3> QED
      BY <1>2, <3>1 DEF rest, Flow
  <2>3. acks' \o rOut = <<>> /\ Len(Flow) = 2 /\ Flow[1] = sConfirm
    <3> DEFINE rest == acks' \o rOut
    <3>1. rest \in Seq(0..Size) /\ Len(rest) \in Nat
      <4>1. rest \in Seq(0..Size)
        BY <1>1, <1>2, ConcatProperties
      <4> QED
        BY <4>1, LenProperties
    <3> HIDE DEF rest, in
    <3>2. /\ Len(Flow) = 2 + Len(rest)
          /\ \A i \in 1..(2 + Len(rest)) : Flow[i] = IF i <= 2 THEN in[i] ELSE rest[i - 2]
      <4>1. Flow = in \o rest
        BY <2>2 DEF rest
      <4>2. /\ Len(in \o rest) = Len(in) + Len(rest)
            /\ \A i \in 1..(Len(in) + Len(rest)) :
                 (in \o rest)[i] = IF i <= Len(in) THEN in[i] ELSE rest[i - Len(in)]
        BY <1>2, <3>1, ConcatProperties
      <4> QED
        BY <1>4, <4>1, <4>2
    <3>3. Flow[1] = sConfirm
      BY <1>4, <3>1, <3>2
    <3>4. Len(rest) = 0
      <4>1. SUFFICES ASSUME Len(rest) > 0 PROVE FALSE
        BY <3>1
      <4>2. 3 \in 1..Len(Flow)
        BY <3>1, <3>2, <4>1
      <4>3. Flow[3] <= rConfirm /\ Flow[3] > Flow[1]
        BY <4>2 DEF IInv, Rising
      <4>4. Flow[3] \in Nat /\ rConfirm <= sConfirm /\ rConfirm \in Nat /\ sConfirm \in Nat
        BY <4>2, FlowType, ElementOfSeq DEF IInv, TypeOK, SenderView
      <4> QED
        BY <3>3, <4>3, <4>4
    <3>5. rest = <<>>
      BY <3>1, <3>4, EmptySeq
    <3> QED
      BY <3>2, <3>3, <3>4, <3>5 DEF rest
  <2>4. rConfirm = sConfirm
    <3>1. Flow[1] <= rConfirm
      BY <2>3 DEF IInv, Rising
    <3> QED
      BY <2>3, <3>1 DEF IInv, TypeOK, SenderView
  <2>5. acks' = <<>> /\ rOut = <<>>
    BY <1>1, <1>2, <2>3, ConcatEqualIffEmpty
  <2>6. <<>> \in Seq(0..Size) /\ Len(<<>>) = 0
    BY EmptySeq
  <2>7. Flow' = <<>>
    <3>1. rOut' = <<>>
      BY <2>5 DEF SRecv, rVars
    <3> QED
      BY <2>1, <2>5, <2>6, <3>1, ConcatEmptySeq DEF Flow
  <2>8. UNCHANGED <<read, chunk, sConfirm, readFailed, rVars, linked, broken, aborted>>
    BY <1>3 DEF SRecv, IInv, TypeOK
  <2>9. sIn' \in Seq(0..Size) /\ acks' \in Seq(0..Size) /\ Len(Flow') = 0
    BY <1>2, <2>1, <2>6, <2>7
  <2>10. TypeOK'
    BY <2>1, <2>8, <2>9 DEF rVars, IInv, TypeOK, States
  <2> QED
    BY <1>3, <2>1, <2>4, <2>7, <2>8, <2>9, <2>10
       DEF rVars, IInv, SenderView, ReceiverView, Rising, NoAbort
<1>5. CASE ~(Len(in) = 2 /\ in[1] = sConfirm)
  <2>1. sIn' = in /\ sState' \in {"CONFIRM_SIZE", "REMOVED"} /\ sTold' \in {sTold, "error"}
        /\ (sState' # "REMOVED" => sTold' = sTold)
    BY <1>3, <1>5 DEF SRecv
  <2>2. Flow' = Flow
    BY <1>2, <2>1 DEF Flow, SRecv, rVars
  <2> QED
    BY <1>2, <1>3, <2>1, <2>2
       DEF SRecv, rVars, IInv, TypeOK, States, SenderView, ReceiverView, Rising, NoAbort
<1> QED
  BY <1>4, <1>5

-----------------------------------------------------------------------------
LEMMA ReceiverStep ==
  ASSUME IInv, RAccept \/ RAcceptFails \/ RTimeout \/ RConnected \/ RConnectFails
               \/ RRecvFails \/ RSendFails \/ RDestroy
  PROVE  IInv'
<1>1. \/ RState("CONNECTING") /\ rState = "INIT"
      \/ RState("CONNECTED") /\ rState = "CONNECTING"
      \/ \E word \in {"none", "ok", "error"} : REnds(word)
  BY DEF RAccept, RAcceptFails, RTimeout, RConnected, RConnectFails, RRecvFails, RSendFails,
         RDestroy, IInv, TypeOK
<1>2. Flow' = Flow
  BY <1>1 DEF RState, REnds, sVars, Flow
<1>3. CASE \E word \in {"none", "ok", "error"} : REnds(word)
  BY <1>2, <1>3 DEF REnds, sVars, IInv, TypeOK, States, SenderView, ReceiverView, Rising, NoAbort
<1>4. CASE \E to \in {"CONNECTING", "CONNECTED"} : RState(to) /\ rState \in {"INIT", "CONNECTING"}
  BY <1>2, <1>4 DEF RState, sVars, IInv, TypeOK, States, SenderView, ReceiverView, Rising, NoAbort
<1> QED
  BY <1>1, <1>3, <1>4

LEMMA RRecvStep ==
  ASSUME IInv, NEW n \in 1..Buffer, RRecv(n)
  PROVE  IInv'
<1> DEFINE r == rConfirm + n
           ack == <<r, r>>
           under == sIn \o acks
<1>0. sIn \in Seq(0..Size) /\ acks \in Seq(0..Size)
  BY DEF IInv, TypeOK
<1>1. n \in Nat \ {0} /\ r \in 0..Size /\ r <= sConfirm /\ rConfirm \in Nat
  BY DEF RRecv, Smaller, IInv, TypeOK, SenderView
<1>2. sState \notin {"LISTENING", "CONNECTED"}
  BY <1>1 DEF IInv, TypeOK, SenderView
<1>3. ack \in Seq(0..Size) /\ Len(ack) = 2 /\ ack[1] = r /\ ack[2] = r
  BY <1>1
<1>4. under \in Seq(0..Size) /\ Len(under) \in Nat
  <2>1. under \in Seq(0..Size)
    BY <1>0, ConcatProperties
  <2> QED
    BY <2>1, LenProperties
<1>5. Flow = under
  BY <1>4, ConcatEmptySeq DEF Flow, RRecv, IInv, ReceiverView
<1>6. /\ Len(Flow') = Len(under) + 2
      /\ \A i \in 1..(Len(under) + 2) :
           Flow'[i] = IF i <= Len(under) THEN under[i] ELSE ack[i - Len(under)]
  <2>1. Flow' = under \o ack
    BY DEF RRecv, sVars, Flow
  <2> QED
    BY <1>3, <1>4, <2>1, ConcatProperties
<1>7. Rising'
  <2>1. SUFFICES ASSUME NEW i \in 1..(Len(under) + 2)
                 PROVE  Flow'[i] <= r /\ (i > 2 => Flow'[i] > Flow'[1])
    BY <1>6 DEF Rising, RRecv
  <2>2. \A j \in 1..Len(under) : under[j] \in Nat /\ under[j] <= rConfirm /\ (j > 2 => under[j] > under[1])
    <3>1. \A j \in 1..Len(under) : under[j] \in 0..Size
      BY <1>4, ElementOfSeq
    <3>2. \A j \in 1..Len(under) : under[j] <= rConfirm /\ (j > 2 => under[j] > under[1])
      BY <1>5, Zenon DEF IInv, Rising
    <3> QED
      BY <3>1, <3>2
  <2>3. CASE i <= Len(under)
    <3>1. i \in 1..Len(under) /\ 1 \in 1..Len(under) /\ 1 \in 1..(Len(under) + 2)
      BY <1>4, <2>3
    <3>2. Flow'[i] = under[i] /\ Flow'[1] = under[1]
      BY <1>4, <1>6, <2>3, <3>1
    <3> QED
      BY <1>1, <2>2, <3>1, <3>2
  <2>4. CASE i > Len(under)
    <3>1. Flow'[i] = r
      <4> DEFINE len == Len(under)
      <4>1. len \in Nat /\ i \in 1..(len + 2) /\ i > len
        BY <1>4, <2>4
      <4> HIDE DEF len
      <4>2. i - len = 1 \/ i - len = 2
        BY <4>1
      <4>3. Flow'[i] = ack[i - len] /\ ~(i <= len)
        BY <1>6, <4>1 DEF len
      <4> QED
        BY <1>3, <4>2, <4>3
    <3>2. i > 2 => Len(under) >= 1
      BY <1>4
    <3>3. Len(under) >= 1 => Flow'[1] <= rConfirm /\ Flow'[1] \in Nat
      <4>1. Len(under) >= 1 => 1 \in 1..Len(under) /\ 1 \in 1..(Len(under) + 2)
        BY <1>4
      <4> QED
        BY <1>4, <1>6, <2>2, <4>1
    <3> QED
      BY <1>1, <3>1, <3>2, <3>3
  <2> QED
    BY <1>4, <2>3, <2>4
<1> QED
  BY <1>1, <1>2, <1>3, <1>7 DEF RRecv, sVars, IInv, TypeOK, States, SenderView, ReceiverView, NoAbort

LEMMA RSendStep ==
  ASSUME IInv, NEW n \in 1..Len(rOut), RSend(n)
  PROVE  IInv'
<1>1. sIn \in Seq(0..Size) /\ acks \in Seq(0..Size) /\ rOut \in Seq(0..Size)
  BY DEF IInv, TypeOK
<1>2. /\ Front(rOut, n) \in Seq(0..Size) /\ Rest(rOut, n) \in Seq(0..Size)
      /\ acks \o Front(rOut, n) \in Seq(0..Size)
  <2>1. Front(rOut, n) \in Seq(0..Size) /\ Rest(rOut, n) \in Seq(0..Size)
    BY <1>1, Cut
  <2> QED
    BY <1>1, <2>1, ConcatProperties
<1>3. acks' = acks \o Front(rOut, n) /\ rOut' = Rest(rOut, n) /\ sIn' = sIn
  BY DEF RSend, sVars
<1>4. Flow' = Flow
  <2>1. sIn \o (acks \o Front(rOut, n)) = (sIn \o acks) \o Front(rOut, n)
    <3> DEFINE f == Front(rOut, n)
    <3>1. f \in Seq(0..Size)
      BY <1>2
    <3> HIDE DEF f
    <3>2. (sIn \o acks) \o f = sIn \o (acks \o f)
      BY <1>1, <3>1, RegroupAcks
    <3> QED
      BY <3>2 DEF f
  <2>2. sIn \o acks \in Seq(0..Size)
    BY <1>1, ConcatProperties
  <2>3. ((sIn \o acks) \o Front(rOut, n)) \o Rest(rOut, n) = (sIn \o acks) \o rOut
    BY <1>1, <2>2, MoveLeft
  <2> QED
    BY <1>3, <2>1, <2>3 DEF Flow
<1>5. rOut' \in Seq(0..Size) /\ acks' \in Seq(0..Size)
  BY <1>2, <1>3
<1> QED
  BY <1>4, <1>5 DEF RSend, sVars, IInv, TypeOK, States, SenderView, ReceiverView, Rising, NoAbort

LEMMA NetworkStep == ASSUME IInv, KernelConnects \/ Break PROVE IInv'
<1>1. Flow' = Flow
  BY DEF KernelConnects, Break, sVars, rVars, Flow
<1> QED
  <2>1. UNCHANGED <<sVars, rVars, acks, aborted>> /\ linked' \in BOOLEAN /\ broken' \in BOOLEAN
    BY DEF KernelConnects, Break, IInv, TypeOK
  <2>2. TypeOK'
    BY <2>1 DEF sVars, rVars, IInv, TypeOK
  <2> QED
    BY <1>1, <2>1, <2>2 DEF sVars, rVars, IInv, SenderView, ReceiverView, Rising, NoAbort

LEMMA NextIInv == IInv /\ [Next]_vars => IInv'
<1> SUFFICES ASSUME IInv, [Next]_vars PROVE IInv'
  OBVIOUS
<1>1. CASE UNCHANGED vars
  <2>1. Flow' = Flow
    BY <1>1 DEF vars, sVars, rVars, Flow
  <2> QED
    BY <1>1, <2>1 DEF vars, sVars, rVars, IInv, TypeOK, SenderView, ReceiverView, Rising, NoAbort
<1>2. CASE Sender
  BY <1>2, SenderStep, SRecvStep DEF Sender
<1>3. CASE Receiver
  BY <1>3, ReceiverStep, RRecvStep, RSendStep DEF Receiver
<1>4. CASE KernelConnects \/ Break
  BY <1>4, NetworkStep
<1> QED
  BY <1>1, <1>2, <1>3, <1>4 DEF Next

LEMMA Invariance == Spec => []IInv
<1>1. Init => IInv
  BY InitIInv
<1>2. IInv /\ [Next]_vars => IInv'
  BY NextIInv
<1> QED
  BY <1>1, <1>2, PTL DEF Spec

-----------------------------------------------------------------------------
(* Every variable of both ends of a transfer keeps its type.                *)
THEOREM Typing == Spec => []TypeOK
<1>1. IInv => TypeOK
  BY DEF IInv
<1> QED
  BY <1>1, Invariance, PTL

(* The abort of libirc_dcc_process_descriptors (dcc.c:357) is not reached   *)
(* between two of these libraries: no acknowledgement comes to a sender     *)
(* that does not wait for one, however TCP cuts and joins them.             *)
THEOREM AbortUnreachable == Spec => []NoAbort
<1>1. IInv => NoAbort
  BY DEF IInv
<1> QED
  BY <1>1, Invariance, PTL

LEMMA StepsMap ==
  ASSUME IInv, [Next]_vars
  PROVE  [Copy!Next]_<<rConfirm, IF readFailed THEN "error" ELSE sTold, rTold>>
<1> DEFINE s == IF readFailed THEN "error" ELSE sTold
           cvars == <<rConfirm, s, rTold>>
<1> USE DEF Copy!Next
<1>1. CASE UNCHANGED vars \/ KernelConnects \/ Break
  BY <1>1 DEF vars, KernelConnects, Break, sVars, rVars
<1>2. CASE SAccept \/ SAcceptFails \/ SRead \/ SSend \/ SDestroy
  BY <1>2 DEF SAccept, SAcceptFails, SRead, SSend, SDestroy, SEnds, rVars, IInv, SenderView
<1>3. CASE STimeout \/ SSendFails \/ SRecvFails
  BY <1>3 DEF STimeout, SSendFails, SRecvFails, SWatched, SEnds, rVars, IInv, SenderView, Copy!SenderFails
<1>4. CASE SReadEnd
  <2>1. rConfirm = Size
    BY <1>4 DEF SReadEnd, IInv, TypeOK, SenderView
  <2> QED
    BY <1>4, <2>1 DEF SReadEnd, SEnds, rVars, IInv, SenderView, Copy!SenderSucceeds
<1>5. CASE SReadFails
  BY <1>5 DEF SReadFails, rVars, IInv, SenderView, Copy!SenderFails
<1>6. ASSUME NEW n \in 1..Len(acks), SRecv(n) PROVE [Copy!Next]_cvars
  <2>1. sState # "REMOVED" /\ UNCHANGED <<rConfirm, rTold, readFailed>> /\ sTold' \in {sTold, "error"}
    BY <1>6 DEF SRecv, SWatched, rVars
  <2> QED
    BY <2>1 DEF IInv, SenderView, Copy!SenderFails
<1>7. CASE RAccept \/ RAcceptFails \/ RTimeout \/ RConnected \/ RConnectFails \/ RRecvFails
           \/ RSendFails \/ RDestroy
  BY <1>7 DEF RAccept, RAcceptFails, RTimeout, RConnected, RConnectFails, RRecvFails, RSendFails,
              RDestroy, RState, REnds, sVars, IInv, ReceiverView, Copy!ReceiverFails
<1>8. ASSUME NEW n \in 1..Buffer, RRecv(n) PROVE [Copy!Next]_cvars
  <2>1. rConfirm' \in (rConfirm + 1)..Size /\ rTold = "none" /\ rTold' = rTold /\ UNCHANGED s
    BY <1>8 DEF RRecv, Smaller, sVars, IInv, TypeOK, SenderView, ReceiverView
  <2> QED
    BY <2>1 DEF Copy!Deliver
<1>9. ASSUME NEW n \in 1..Len(rOut), RSend(n) PROVE [Copy!Next]_cvars
  BY <1>9 DEF RSend, sVars, IInv, ReceiverView, Copy!ReceiverSucceeds
<1> QED
  BY <1>1, <1>2, <1>3, <1>4, <1>5, <1>6, <1>7, <1>8, <1>9 DEF Next, Sender, Receiver

(* A transfer is a copy of the file, as FileCopy promises it to the two     *)
(* applications: neither is told of a success (dcc.c:139-150, 467-472)      *)
(* before all of the file has arrived, for files and buffers of every size. *)
THEOREM Refinement == Spec => ImplementsCopy
<1>1. Init => Copy!Init
  BY DEF Init, Copy!Init
<1>2. IInv /\ [Next]_vars => [Copy!Next]_<<rConfirm, IF readFailed THEN "error" ELSE sTold, rTold>>
  BY StepsMap
<1> QED
  BY <1>1, <1>2, Invariance, PTL DEF Spec, ImplementsCopy, Copy!Spec

=============================================================================
