----------------------------- MODULE BufferProofs -----------------------------
(***************************************************************************)
(* Proofs about OutgoingBuffer and IncomingBuffer, for every buffer size   *)
(* and every set of lines.                                                 *)
(*                                                                         *)
(* OutgoingBuffer, for any threads: types, no overflow, and that the       *)
(* buffer implements the channel of whole lines.  The inductive invariant  *)
(* is the lock discipline (mutex_session is held exactly in the steps that *)
(* touch the buffer) with what each holder knows of the buffer while it    *)
(* holds it.                                                               *)
(*                                                                         *)
(* IncomingBuffer, however the network cuts the lines: types, room for     *)
(* what is read, the end of the connection told from a full buffer, and    *)
(* the lines in their order.  The invariant is where each line said ends   *)
(* in the stream, and that what was taken from it ends with a line.        *)
(***************************************************************************)
EXTENDS OutgoingBuffer, IncomingBuffer, Integers, WellFoundedInduction, SequenceTheorems, TLAPS

-----------------------------------------------------------------------------
(* OutgoingBuffer. *)


Discipline ==
  /\ \A s \in Sender : pc[s] \in {"locked", "text"} <=> lock = s
  /\ flush \in {"send", "shift"} <=> lock = Worker

(* The holder's view: a half-copied line is the end of the buffer, what was *)
(* sent is its front.                                                       *)
HolderView ==
  /\ \A s \in Sender : pc[s] = "text" =>
       /\ line[s] \in Line
       /\ Len(line[s]) <= Len(buf)
       /\ buf = SubSeq(buf, 1, Len(buf) - Len(line[s])) \o line[s]
       /\ Len(buf) + 2 < Capacity
  /\ \A s \in Sender : pc[s] \in {"formatted", "locked"} => line[s] \in Line
  /\ flush = "shift" =>
       /\ length \in 1..Len(buf)
       /\ Len(wire) >= length
       /\ SubSeq(wire, Len(wire) - length + 1, Len(wire)) = SubSeq(buf, 1, length)

IInv == TypeOK /\ Discipline /\ HolderView /\ Len(buf) < Capacity

-----------------------------------------------------------------------------
(* Facts about sequences the steps need. *)

LEMMA Suffix ==
  ASSUME NEW S, NEW b \in Seq(S), NEW n \in 0..Len(b)
  PROVE  /\ SubSeq(b, n + 1, Len(b)) \in Seq(S)
         /\ Len(SubSeq(b, n + 1, Len(b))) = Len(b) - n
  OBVIOUS

LEMMA Prefix ==
  ASSUME NEW S, NEW b \in Seq(S), NEW n \in 0..Len(b)
  PROVE  SubSeq(b, 1, n) \in Seq(S) /\ Len(SubSeq(b, 1, n)) = n
  OBVIOUS

LEMMA Appended ==
  ASSUME NEW S, NEW b \in Seq(S), NEW l \in Seq(S)
  PROVE  /\ b \o l \in Seq(S) /\ Len(b \o l) = Len(b) + Len(l)
         /\ SubSeq(b \o l, 1, Len(b)) = b
         /\ SubSeq(b \o l, Len(b) + 1, Len(b) + Len(l)) = l
  OBVIOUS

-----------------------------------------------------------------------------
LEMMA InitIInv == Init => IInv
  <1> SUFFICES ASSUME Init PROVE IInv
    OBVIOUS
  <1>1. TypeOK
    BY DEF Init, TypeOK
  <1>2. Discipline /\ HolderView /\ Len(buf) < Capacity
    BY LockAssumption, CapacityAssumption DEF Init, Discipline, HolderView
  <1>3. QED
    BY <1>1, <1>2 DEF IInv

LEMMA SendRawStep ==
  ASSUME IInv, NEW s \in Sender, SendRaw(s)
  PROVE  IInv'
  <1> USE CapacityAssumption, LineAssumption, LockAssumption
          DEF IInv, TypeOK, Discipline
  <1>1. ASSUME NEW l \in Line, Format(s, l) PROVE IInv'
    <2>1. /\ pc[s] = "idle" /\ pc'[s] = "formatted" /\ line'[s] = l
          /\ \A r \in Sender \ {s} : pc'[r] = pc[r] /\ line'[r] = line[r]
          /\ UNCHANGED <<buf, lock, flush, length, wire>>
      BY <1>1 DEF Format
    <2>2. TypeOK' /\ Discipline'
      BY <1>1, <2>1 DEF Format
    <2>3. HolderView'
      BY <2>1 DEF HolderView
    <2>4. QED
      BY <2>1, <2>2, <2>3
  <1>2. CASE Lock(s)
    BY <1>2 DEF Lock, HolderView
  <1>3. CASE Refuse(s)
    BY <1>3 DEF Refuse, HolderView
  <1>4. CASE CopyText(s)
    <2>1. line[s] \in Line /\ line[s] \in Seq(Byte) /\ buf \in Seq(Byte)
      BY <1>4 DEF CopyText, HolderView
    <2>2. /\ buf' = buf \o line[s] /\ buf' \in Seq(Byte)
          /\ Len(buf') = Len(buf) + Len(line[s]) /\ SubSeq(buf', 1, Len(buf)) = buf
          /\ Len(buf) \in Nat /\ Len(line[s]) \in Nat
      BY <1>4, <2>1, Appended DEF CopyText
    <2>3. Len(buf') + 2 < Capacity
      BY <1>4, <2>2 DEF CopyText, NoRoom
    <2>4. /\ lock = s /\ pc' = [pc EXCEPT ![s] = "text"]
          /\ UNCHANGED <<connected, lock, line, flush, length, wire, calls>>
      BY <1>4 DEF CopyText
    <2>5. TypeOK' /\ Discipline'
      BY <1>4, <2>2, <2>4 DEF CopyText
    <2>6. HolderView'
      <3>1. ASSUME NEW r \in Sender, pc'[r] = "text"
            PROVE  /\ line'[r] \in Line
                   /\ Len(line'[r]) <= Len(buf')
                   /\ buf' = SubSeq(buf', 1, Len(buf') - Len(line'[r])) \o line'[r]
                   /\ Len(buf') + 2 < Capacity
        <4>1. r = s
          BY <1>4, <2>4, <3>1
        <4>2. Len(buf') - Len(line'[r]) = Len(buf)
          BY <2>2, <2>4, <4>1
        <4>3. QED
          BY <2>1, <2>2, <2>3, <2>4, <4>1, <4>2, SMTT(20)
      <3>2. flush' # "shift"
        BY <2>4
      <3>3. QED
        BY <2>4, <3>1, <3>2, <2>1 DEF HolderView
    <2>7. QED
      BY <2>2, <2>3, <2>5, <2>6
  <1>5. CASE EndLine(s)
    <2>1. buf \in Seq(Byte) /\ <<CR, LF>> \in Seq(Byte) /\ Len(<<CR, LF>>) = 2
      OBVIOUS
    <2>2. /\ buf' = buf \o <<CR, LF>> /\ buf' \in Seq(Byte)
          /\ Len(buf') = Len(buf) + 2 /\ Len(buf) \in Nat
      BY <1>5, <2>1, Appended DEF EndLine
    <2>3. Len(buf') < Capacity /\ lock = s
      BY <1>5, <2>2 DEF EndLine, HolderView
    <2>4. TypeOK' /\ Discipline'
      BY <1>5, <2>2, <2>3 DEF EndLine
    <2>5. HolderView'
      BY <1>5, <2>3 DEF EndLine, HolderView
    <2>6. QED
      BY <2>3, <2>4, <2>5
  <1>6. QED
    BY <1>1, <1>2, <1>3, <1>4, <1>5 DEF SendRaw

LEMMA RunStep ==
  ASSUME IInv, Run
  PROVE  IInv'
  <1> USE CapacityAssumption, LockAssumption DEF IInv, TypeOK, Discipline
  <1>1. CASE Select \/ LockToSend \/ SendFails \/ Return
    BY <1>1 DEF Select, LockToSend, SendFails, Return, HolderView
  <1>2. ASSUME NEW n \in 1..Len(buf), Send(n) PROVE IInv'
    <2>1. n \in 0..Len(buf) /\ n \in Nat
      OBVIOUS
    <2>2. SubSeq(buf, 1, n) \in Seq(Byte) /\ Len(SubSeq(buf, 1, n)) = n
      BY <2>1, Prefix
    <2>3. /\ wire' \in Seq(Byte) /\ Len(wire') = Len(wire) + n /\ Len(wire) \in Nat
          /\ SubSeq(wire', Len(wire) + 1, Len(wire) + n) = SubSeq(buf, 1, n)
      BY <1>2, <2>2, Appended DEF Send
    <2>4. /\ flush = "send" /\ flush' = "shift" /\ length' = n /\ lock = Worker
          /\ UNCHANGED <<connected, buf, lock, pc, line, calls>>
      BY <1>2 DEF Send
    <2>5. TypeOK' /\ Discipline'
      BY <2>1, <2>3, <2>4
    <2>6. Len(wire') - length' + 1 = Len(wire) + 1 /\ Len(wire') >= length'
      BY <2>1, <2>3, <2>4
    <2>7. HolderView'
      BY <2>3, <2>4, <2>6 DEF HolderView
    <2>8. QED
      BY <2>4, <2>5, <2>7
  <1>3. CASE Shift
    <2>1. length \in 0..Len(buf) /\ flush = "shift" /\ lock = Worker
      BY <1>3 DEF Shift, HolderView
    <2>2. buf' \in Seq(Byte) /\ Len(buf') = Len(buf) - length
      BY <1>3, <2>1, Suffix DEF Shift
    <2>3. Len(buf') < Capacity
      BY <2>1, <2>2
    <2>4. TypeOK' /\ Discipline'
      BY <1>3, <2>1, <2>2 DEF Shift
    <2>5. HolderView'
      BY <1>3, <2>1 DEF Shift, HolderView
    <2>6. QED
      BY <2>3, <2>4, <2>5
  <1>4. QED
    BY <1>1, <1>2, <1>3 DEF Run

LEMMA NextIInv == IInv /\ [Next]_vars => IInv'
  <1> SUFFICES ASSUME IInv, [Next]_vars PROVE IInv'
    OBVIOUS
  <1>1. CASE UNCHANGED vars
    BY <1>1 DEF vars, IInv, TypeOK, Discipline, HolderView
  <1>2. CASE Disconnect
    BY <1>2 DEF Disconnect, IInv, TypeOK, Discipline, HolderView
  <1>3. QED
    BY <1>1, <1>2, SendRawStep, RunStep DEF Next

LEMMA Invariance == Spec => []IInv
  BY InitIInv, NextIInv, PTL DEF Spec

-----------------------------------------------------------------------------
(* Every variable keeps its type, in particular the buffer and the wire     *)
(* hold bytes of lines and line ends only.                                  *)
THEOREM Typing == Spec => []TypeOK
  BY Invariance, PTL DEF IInv

(* irc_send_raw never writes past outgoing_buf (libircclient.c 844-854),    *)
(* for any number of threads, any lines and any buffer size.                *)
THEOREM BufferBound == Spec => []NoOverflow
  <1>1. IInv => NoOverflow
    BY DEF IInv, HolderView, NoOverflow
  <1>2. QED
    BY <1>1, Invariance, PTL

(* irc_process_select_descriptors removes from the buffer the very bytes it *)
(* sent (libircclient.c 799-820).                                           *)
THEOREM SendIsFront == Spec => []SentIsFront
  <1>1. IInv => SentIsFront
    BY DEF IInv, TypeOK, HolderView, SentIsFront
  <1>2. QED
    BY <1>1, Invariance, PTL

-----------------------------------------------------------------------------
(* Each step of the buffer is a step of the channel or leaves it alone. *)

LEMMA SendRawRefines ==
  ASSUME IInv, IInv', NEW s \in Sender, SendRaw(s)
  PROVE  [Channel!Next]_<<wire, Unsent>>
  <1> USE LockAssumption, LineAssumption DEF IInv, TypeOK, Discipline
  <1>1. CASE (\E l \in Line : Format(s, l)) \/ Lock(s) \/ Refuse(s)
    <2>1. UNCHANGED <<buf, wire, flush, length>>
      BY <1>1 DEF Format, Lock, Refuse
    <2>2. \/ ~Halfway' /\ ~Halfway
          \/ Halfway' /\ Halfway /\ lock' = lock /\ line'[lock] = line[lock]
      <3>1. CASE \E l \in Line : Format(s, l)
        BY <3>1 DEF Format, Halfway
      <3>2. CASE Lock(s)
        BY <3>2 DEF Lock, Halfway
      <3>3. CASE Refuse(s)
        BY <3>3 DEF Refuse, Halfway
      <3>4. QED
        BY <1>1, <3>1, <3>2, <3>3
    <2>3. QED
      BY <2>1, <2>2 DEF Unsent
  <1>2. CASE CopyText(s)
    <2>1. /\ lock = s /\ ~Halfway /\ Halfway' /\ lock' = s /\ line'[s] = line[s]
          /\ flush # "shift" /\ UNCHANGED <<wire, flush>> /\ buf' = buf \o line[s]
      BY <1>2 DEF CopyText, Halfway
    <2>2. line[s] \in Seq(Byte) /\ buf \in Seq(Byte)
      BY <1>2 DEF CopyText, HolderView
    <2>3. Len(buf') - Len(line[s]) = Len(buf) /\ SubSeq(buf', 1, Len(buf)) = SubSeq(buf, 1, Len(buf))
      BY <2>1, <2>2, Appended, SubSeqFull
    <2>4. Unsent' = Unsent
      BY <2>1, <2>3 DEF Unsent
    <2>5. QED
      BY <2>1, <2>4
  <1>3. CASE EndLine(s)
    <2>1. /\ lock = s /\ Halfway /\ ~Halfway' /\ line[s] \in Line
          /\ flush # "shift" /\ UNCHANGED <<wire, flush>> /\ buf' = buf \o <<CR, LF>>
          /\ buf = SubSeq(buf, 1, Len(buf) - Len(line[s])) \o line[s]
          /\ buf' \in Seq(Byte)
      BY <1>3 DEF EndLine, Halfway, HolderView
    <2>2. Unsent = SubSeq(buf, 1, Len(buf) - Len(line[s]))
      BY <2>1 DEF Unsent
    <2>3. Unsent' = buf'
      BY <2>1, SubSeqFull DEF Unsent
    <2>4. Unsent' = Unsent \o line[s] \o <<CR, LF>>
      BY <2>1, <2>2, <2>3
    <2>5. Channel!Accept(line[s])
      BY <2>1, <2>4 DEF Channel!Accept
    <2>6. QED
      BY <2>1, <2>5 DEF Channel!Next
  <1>4. QED
    BY <1>1, <1>2, <1>3 DEF SendRaw

LEMMA RunRefines ==
  ASSUME IInv, IInv', Run
  PROVE  [Channel!Next]_<<wire, Unsent>>
  <1> USE LockAssumption DEF IInv, TypeOK, Discipline
  <1>1. CASE Select \/ LockToSend \/ SendFails \/ Return
    <2>1. /\ (Halfway' <=> Halfway) /\ (Halfway => lock' = lock)
          /\ UNCHANGED <<buf, wire, length, line>> /\ flush # "shift" /\ flush' # "shift"
      BY <1>1 DEF Select, LockToSend, SendFails, Return, Halfway
    <2>2. QED
      BY <2>1 DEF Unsent
  <1>2. ASSUME NEW n \in 1..Len(buf), Send(n)
        PROVE  [Channel!Next]_<<wire, Unsent>>
    <2>1. /\ ~Halfway /\ ~Halfway' /\ flush # "shift" /\ flush' = "shift" /\ length' = n
          /\ buf' = buf /\ wire' = wire \o SubSeq(buf, 1, n)
      BY <1>2 DEF Send, Halfway
    <2>2. Unsent = buf
      BY <2>1, SubSeqFull DEF Unsent
    <2>3. Unsent' = SubSeq(buf, n + 1, Len(buf))
      BY <2>1 DEF Unsent
    <2>4. Channel!Transmit(n)
      BY <2>1, <2>2, <2>3 DEF Channel!Transmit
    <2>5. QED
      BY <2>2, <2>4 DEF Channel!Next
  <1>3. CASE Shift
    <2>1. /\ ~Halfway /\ ~Halfway' /\ flush = "shift" /\ flush' # "shift" /\ wire' = wire
          /\ buf' = SubSeq(buf, length + 1, Len(buf)) /\ buf' \in Seq(Byte)
      BY <1>3 DEF Shift, Halfway
    <2>2. Unsent' = buf' /\ Unsent = SubSeq(buf, length + 1, Len(buf))
      BY <2>1, SubSeqFull DEF Unsent
    <2>3. QED
      BY <2>1, <2>2
  <1>4. QED
    BY <1>1, <1>2, <1>3 DEF Run

(* The server receives the accepted lines whole and in order: the buffer    *)
(* with its lock, partial sends and all, implements the channel of lines.   *)
THEOREM Refinement == Spec => ImplementsChannel
  <1>1. Init => Channel!Init
    <2> SUFFICES ASSUME Init PROVE Channel!Init
      OBVIOUS
    <2>1. buf = <<>> /\ wire = <<>> /\ ~Halfway /\ flush = "select"
      BY LockAssumption DEF Init, Halfway
    <2>2. Unsent = <<>>
      BY <2>1, SubSeqEmpty DEF Unsent
    <2>3. QED
      BY <2>1, <2>2 DEF Channel!Init
  <1>2. IInv /\ IInv' /\ [Next]_vars => [Channel!Next]_<<wire, Unsent>>
    <2> SUFFICES ASSUME IInv, IInv', [Next]_vars PROVE [Channel!Next]_<<wire, Unsent>>
      OBVIOUS
    <2>1. CASE UNCHANGED vars \/ Disconnect
      BY <2>1 DEF vars, Disconnect, Unsent, Halfway
    <2>2. QED
      BY <2>1, SendRawRefines, RunRefines DEF Next
  <1>3. QED
    BY <1>1, <1>2, Invariance, PTL DEF Spec, ImplementsChannel, Channel!Spec

-----------------------------------------------------------------------------
(* IncomingBuffer. *)

(* A set of naturals that is not empty has a least member. *)
LEMMA LeastMember ==
  ASSUME NEW T, T \subseteq Nat, T # {}
  PROVE  \E m \in T : \A i \in T : m <= i
<1> DEFINE Less == OpToRel(<, Nat)
<1>1. IsWellFoundedOn(Less, Nat)
  BY NatLessThanWellFounded
<1>2. \A x, y \in Nat : x < y => <<x, y>> \in Less
  BY DEF OpToRel
<1> HIDE DEF Less
<1>3. PICK m \in T : \A i \in T : ~(<<i, m>> \in Less)
  BY <1>1, WFMin
<1>4. ASSUME NEW i \in T PROVE m <= i
  <2>1. m \in Nat /\ i \in Nat /\ (i < m => <<i, m>> \in Less)
    BY <1>2
  <2>2. ~(<<i, m>> \in Less)
    BY <1>3
  <2> QED
    BY <2>1, <2>2
<1> QED
  BY <1>4

(* libirc_findcrlf returns 0 or the place behind a CR LF: at least 2 and at *)
(* most the number of bytes it was given.                                   *)
LEMMA FindCrLfBounds ==
  ASSUME NEW b \in Seq(Byte)
  PROVE  /\ FindCrLf(b) \in Nat
         /\ FindCrLf(b) <= Len(b)
         /\ FindCrLf(b) > 0 =>
              /\ FindCrLf(b) >= 2
              /\ EndsAt(b, FindCrLf(b) - 1)
              /\ \A j \in 1..(FindCrLf(b) - 2) : ~EndsAt(b, j)
<1>1. CASE ~ \E i \in 1..Len(b) : EndsAt(b, i)
  BY <1>1 DEF FindCrLf
<1>2. CASE \E i \in 1..Len(b) : EndsAt(b, i)
  <2> DEFINE F == {i \in 1..Len(b) : EndsAt(b, i)}
             IsFirst(m) == EndsAt(b, m) /\ \A j \in 1..(m - 1) : ~EndsAt(b, j)
  <2>1. F \subseteq Nat /\ F # {}
    BY <1>2
  <2>2. PICK m \in F : \A i \in F : m <= i
    BY <2>1, LeastMember
  <2>3. m \in 1..Len(b) /\ IsFirst(m)
    BY <2>2
  <2>4. FindCrLf(b) = 1 + CHOOSE i \in 1..Len(b) : IsFirst(i)
    BY <1>2 DEF FindCrLf
  <2> DEFINE c == CHOOSE i \in 1..Len(b) : IsFirst(i)
  <2>5. c \in 1..Len(b) /\ IsFirst(c)
    BY <2>3
  <2>6. c + 1 <= Len(b)
    BY <2>5 DEF EndsAt
  <2> QED
    BY <2>4, <2>5, <2>6
<1> QED
  BY <1>1, <1>2

(* A buffer cut in two is its parts put together. *)
LEMMA CutIsConcat ==
  ASSUME NEW s \in Seq(Byte), NEW n \in 0..Len(s)
  PROVE  /\ SubSeq(s, 1, n) \in Seq(Byte) /\ SubSeq(s, n + 1, Len(s)) \in Seq(Byte)
         /\ Len(SubSeq(s, 1, n)) = n
         /\ Len(SubSeq(s, n + 1, Len(s))) = Len(s) - n
         /\ SubSeq(s, 1, n) \o SubSeq(s, n + 1, Len(s)) = s
<1>1. SubSeq(s, 1, n) \o SubSeq(s, n + 1, Len(s)) = SubSeq(s, 1, Len(s))
  <2>1. 1 \in 1..(Len(s) + 1) /\ n \in (1 - 1)..Len(s) /\ Len(s) \in n..Len(s)
    OBVIOUS
  <2> QED
    BY <2>1, ConcatAdjacentSubSeq
<1>2. SubSeq(s, 1, Len(s)) = s
  BY SubSeqFull
<1>3. /\ SubSeq(s, 1, n) \in Seq(Byte) /\ SubSeq(s, n + 1, Len(s)) \in Seq(Byte)
      /\ Len(SubSeq(s, 1, n)) = n
      /\ Len(SubSeq(s, n + 1, Len(s))) = Len(s) - n
  OBVIOUS
<1> QED
  BY <1>1, <1>2, <1>3

LEMMA ThreeParts ==
  ASSUME NEW a \in Seq(Byte), NEW b \in Seq(Byte), NEW c \in Seq(Byte)
  PROVE  (a \o b) \o c = a \o (b \o c)
<1>1. \A s, t, u \in Seq(Byte) : (s \o t) \o u = s \o (t \o u)
  BY ONLY ConcatAssociative, SMTT(60)
<1> QED
  BY <1>1

(* What Process does, with its offset named. *)
Takes(o) ==
  /\ EndsAt(incoming, o - 1)
  /\ \A j \in 1..(o - 2) : ~EndsAt(incoming, j)
  /\ dispatched' = Append(dispatched, SubSeq(incoming, 1, o - 2))
  /\ parsed' = parsed \o SubSeq(incoming, 1, o)
  /\ incoming' = SubSeq(incoming, o + 1, Len(incoming))
  /\ UNCHANGED <<connected, run, net, said, peer>>

LEMMA ProcessTakes ==
  ASSUME incoming \in Seq(Byte), Process
  PROVE  \E o \in 2..Len(incoming) : Takes(o)
<1>1. FindCrLf(incoming) \in 2..Len(incoming)
  BY FindCrLfBounds DEF Process
<1> QED
  BY <1>1, FindCrLfBounds DEF Process, Takes

-----------------------------------------------------------------------------
(* Types, and what the code relies on without testing it. *)

(* Every state of the worker's loop is well formed. *)
THEOREM ReadTyping == ReadSpec => []ReadTypeOK
<1>1. ReadInit => ReadTypeOK
  BY DEF ReadInit, ReadTypeOK
<1>2. ReadTypeOK /\ [ReadNext]_readVars => ReadTypeOK'
  <2> SUFFICES ASSUME ReadTypeOK, [ReadNext]_readVars PROVE ReadTypeOK'
    OBVIOUS
  <2> USE DEF ReadTypeOK
  <2>1. CASE \E l \in Line : Say(l)
    <3> PICK l \in Line : Say(l)
      BY <2>1
    <3>1. l \in Seq(Byte) /\ <<CR, LF>> \in Seq(Byte)
      BY LineAssumption
    <3> QED
      BY <3>1 DEF Say
  <2>2. CASE \E how \in {"closed", "reset"} : HangUp(how)
    BY <2>2 DEF HangUp
  <2>3. CASE SelectRead
    BY <2>3 DEF SelectRead
  <2>4. CASE \E n \in 1..Len(net) : Recv(n)
    <3> PICK n \in 1..Len(net) : Recv(n)
      BY <2>4
    <3> QED
      BY CutIsConcat DEF Recv
  <2>5. CASE RecvNothing
    BY <2>5 DEF RecvNothing
  <2>6. CASE RecvFails
    BY <2>6 DEF RecvFails
  <2>7. CASE Process
    <3> PICK o \in 2..Len(incoming) : Takes(o)
      BY <2>7, ProcessTakes
    <3>1. /\ SubSeq(incoming, 1, o - 2) \in Seq(Byte)
          /\ SubSeq(incoming, 1, o) \in Seq(Byte)
          /\ SubSeq(incoming, o + 1, Len(incoming)) \in Seq(Byte)
      BY CutIsConcat
    <3> QED
      BY <3>1 DEF Takes
  <2>8. CASE Parsed
    BY <2>8 DEF Parsed
  <2>9. CASE UNCHANGED readVars
    BY <2>9 DEF readVars
  <2> QED
    BY <2>1, <2>2, <2>3, <2>4, <2>5, <2>6, <2>7, <2>8, <2>9 DEF ReadNext
<1> QED
  BY <1>1, <1>2, PTL DEF ReadSpec

(* What makes recv's answers mean what irc_run takes them for: it is called *)
(* only with room left in the buffer.                                       *)
Roomy ==
  /\ Len(incoming) <= Capacity - 1
  /\ run = "recv" => Len(incoming) < Capacity - 1

LEMMA RoomyStep == ReadTypeOK /\ Roomy /\ [ReadNext]_readVars => Roomy'
<1> SUFFICES ASSUME ReadTypeOK, Roomy, [ReadNext]_readVars PROVE Roomy'
  OBVIOUS
<1> USE CapacityAssumption DEF ReadTypeOK, Roomy
<1>1. CASE \E l \in Line : Say(l)
  BY <1>1 DEF Say
<1>2. CASE \E how \in {"closed", "reset"} : HangUp(how)
  BY <1>2 DEF HangUp
<1>3. CASE SelectRead
  BY <1>3 DEF SelectRead, Room
<1>4. CASE \E n \in 1..Len(net) : Recv(n)
  <2> PICK n \in 1..Len(net) : Recv(n)
    BY <1>4
  <2>1. Len(incoming') = Len(incoming) + n
    BY CutIsConcat DEF Recv
  <2> QED
    BY <2>1 DEF Recv
<1>5. CASE RecvNothing
  BY <1>5 DEF RecvNothing
<1>6. CASE RecvFails
  BY <1>6 DEF RecvFails
<1>7. CASE Process
  <2> PICK o \in 2..Len(incoming) : Takes(o)
    BY <1>7, ProcessTakes
  <2>1. Len(incoming') = Len(incoming) - o /\ run' = run
    BY CutIsConcat DEF Takes
  <2>2. run' = "parse"
    BY <1>7 DEF Process
  <2>3. Len(incoming') <= Capacity - 1
    BY <2>1
  <2> QED
    BY <2>2, <2>3
<1>8. CASE Parsed
  BY <1>8 DEF Parsed
<1>9. CASE UNCHANGED readVars
  BY <1>9 DEF readVars
<1> QED
  BY <1>1, <1>2, <1>3, <1>4, <1>5, <1>6, <1>7, <1>8, <1>9 DEF ReadNext

(* The abort in libirc_process_incoming_data is never reached, whatever the *)
(* server sends.                                                            *)
THEOREM AbortUnreachable == ReadSpec => []ProcessLengthFits
<1>1. ReadInit => Roomy
  BY CapacityAssumption DEF ReadInit, Roomy
<1>2. ReadTypeOK /\ Roomy => ProcessLengthFits
  BY CapacityAssumption, FindCrLfBounds DEF ReadTypeOK, Roomy, ProcessLengthFits
<1> QED
  BY <1>1, <1>2, RoomyStep, ReadTyping, PTL DEF ReadSpec

(* The end of irc_run's loop is the end of the connection, never a full     *)
(* buffer mistaken for it.                                                  *)
THEOREM EndIsTheEnd == ReadSpec => []ClosedByServer
<1>1. ReadInit => Roomy /\ ClosedByServer
  BY CapacityAssumption DEF ReadInit, Roomy, ClosedByServer
<1>2. ReadTypeOK /\ Roomy /\ ClosedByServer /\ [ReadNext]_readVars => ClosedByServer'
  <2> SUFFICES ASSUME ReadTypeOK, Roomy, ClosedByServer, [ReadNext]_readVars
               PROVE  ClosedByServer'
    OBVIOUS
  <2> USE DEF ReadTypeOK, ClosedByServer
  <2>1. CASE \E l \in Line : Say(l)
    BY <2>1 DEF Say
  <2>2. CASE \E how \in {"closed", "reset"} : HangUp(how)
    BY <2>2 DEF HangUp
  <2>3. CASE SelectRead
    BY <2>3 DEF SelectRead
  <2>4. CASE \E n \in 1..Len(net) : Recv(n)
    BY <2>4 DEF Recv
  <2>5. CASE RecvNothing
    BY <2>5, CapacityAssumption DEF RecvNothing, Roomy
  <2>6. CASE RecvFails
    BY <2>6 DEF RecvFails
  <2>7. CASE Process
    BY <2>7 DEF Process
  <2>8. CASE Parsed
    BY <2>8 DEF Parsed
  <2>9. CASE UNCHANGED readVars
    BY <2>9 DEF readVars
  <2> QED
    BY <2>1, <2>2, <2>3, <2>4, <2>5, <2>6, <2>7, <2>8, <2>9 DEF ReadNext
<1> QED
  BY <1>1, <1>2, RoomyStep, ReadTyping, PTL DEF ReadSpec

-----------------------------------------------------------------------------
(* The lines processed are the lines said. *)

(* s is the lines, each with its end, one behind the other: e[i] is the     *)
(* place of the LF of line i.                                               *)
Layout(e, s, lines) ==
  /\ e \in [0..Len(lines) -> Nat]
  /\ e[0] = 0 /\ e[Len(lines)] = Len(s)
  /\ \A i \in 1..Len(lines) :
       /\ e[i] = e[i - 1] + Len(lines[i]) + 2 /\ e[i] <= Len(s)
       /\ \A j \in 1..Len(lines[i]) : s[e[i - 1] + j] = lines[i][j]
       /\ s[e[i] - 1] = CR /\ s[e[i]] = LF

(* Everything the server has said. *)
Stream == parsed \o incoming \o net

(* The buffer starts where a line starts, the first not yet processed. *)
LinesInv ==
  /\ InOrder
  /\ \E e : Layout(e, Stream, said) /\ e[Len(dispatched)] = Len(parsed)

(* Reading the stream through its three parts. *)
LEMMA StreamIndex ==
  ASSUME ReadTypeOK
  PROVE  /\ Stream \in Seq(Byte)
         /\ Len(Stream) = Len(parsed) + Len(incoming) + Len(net)
         /\ \A i \in 1..Len(incoming) : Stream[Len(parsed) + i] = incoming[i]
BY DEF ReadTypeOK, Stream

(* One more line behind the others. *)
GrownLayout(e, s, lines, l) ==
  \E f : /\ Layout(f, s \o (l \o <<CR, LF>>), Append(lines, l))
        /\ \A i \in 0..Len(lines) : f[i] = e[i]

LEMMA LayoutGrows ==
  ASSUME NEW s \in Seq(Byte), NEW lines \in Seq(Line), NEW l \in Line,
         NEW e, Layout(e, s, lines)
  PROVE  GrownLayout(e, s, lines, l)
<1> DEFINE n == Len(lines)
           m == Len(s)
           t == s \o (l \o <<CR, LF>>)
           more == Append(lines, l)
           f == [i \in 0..(n + 1) |-> IF i = n + 1 THEN m + Len(l) + 2 ELSE e[i]]
<1>1. l \in Seq(Byte) /\ <<CR, LF>> \in Seq(Byte) /\ Len(l) \in Nat
  BY LineAssumption
<1>2. n \in Nat /\ m \in Nat
  OBVIOUS
<1>3. /\ Len(t) = m + Len(l) + 2
      /\ \A i \in 1..m : t[i] = s[i]
      /\ \A j \in 1..Len(l) : t[m + j] = l[j]
      /\ t[m + Len(l) + 1] = CR /\ t[m + Len(l) + 2] = LF
  BY <1>1
<1>4. /\ Len(more) = n + 1 /\ more[n + 1] = l
      /\ \A i \in 1..n : more[i] = lines[i]
  OBVIOUS
<1>5. /\ e \in [0..n -> Nat] /\ e[0] = 0 /\ e[n] = m
      /\ \A i \in 1..n :
           /\ e[i] = e[i - 1] + Len(lines[i]) + 2 /\ e[i] <= m
           /\ \A j \in 1..Len(lines[i]) : s[e[i - 1] + j] = lines[i][j]
           /\ s[e[i] - 1] = CR /\ s[e[i]] = LF
  BY DEF Layout
<1>6. /\ f \in [0..(n + 1) -> Nat] /\ f[n + 1] = m + Len(l) + 2
      /\ \A i \in 0..n : f[i] = e[i]
  BY <1>1, <1>2, <1>5
<1>7. \A i \in 1..n : lines[i] \in Seq(Byte) /\ Len(lines[i]) \in Nat
  BY LineAssumption
<1> HIDE DEF n, m, t, more, f
<1>8. ASSUME NEW i \in 1..(n + 1)
      PROVE  /\ f[i] = f[i - 1] + Len(more[i]) + 2 /\ f[i] <= Len(t)
             /\ \A j \in 1..Len(more[i]) : t[f[i - 1] + j] = more[i][j]
             /\ t[f[i] - 1] = CR /\ t[f[i]] = LF
  <2>1. CASE i = n + 1
    <3>1. f[i - 1] = m /\ f[i] = m + Len(l) + 2 /\ more[i] = l
      BY <2>1, <1>2, <1>4, <1>5, <1>6
    <3>2. f[i] - 1 = m + Len(l) + 1
      BY <3>1, <1>1, <1>2
    <3> QED
      BY <3>1, <3>2, <1>1, <1>2, <1>3
  <2>2. CASE i # n + 1
    <3>1. i \in 1..n /\ i \in 0..n /\ i - 1 \in 0..n
      BY <2>2, <1>2
    <3>2. f[i - 1] = e[i - 1] /\ f[i] = e[i] /\ more[i] = lines[i]
      BY <3>1, <1>4, <1>6
    <3>3. e[i - 1] \in Nat /\ e[i] \in Nat /\ Len(lines[i]) \in Nat
      BY <3>1, <1>5, <1>7
    <3>4. /\ e[i] = e[i - 1] + Len(lines[i]) + 2 /\ e[i] <= m
          /\ \A j \in 1..Len(lines[i]) : s[e[i - 1] + j] = lines[i][j]
          /\ s[e[i] - 1] = CR /\ s[e[i]] = LF
      BY <3>1, <1>5
    <3>5. e[i] - 1 \in 1..m /\ e[i] \in 1..m
      <4>1. e[i] >= 2 /\ e[i] <= m
        BY <3>3, <3>4
      <4> QED
        BY <4>1, <3>3, <1>2
    <3>6. ASSUME NEW j \in 1..Len(lines[i])
          PROVE  t[e[i - 1] + j] = lines[i][j]
      <4>1. e[i - 1] + j \in 1..m
        BY <3>3, <3>4, <1>2, SMTT(20)
      <4> QED
        BY <4>1, <3>4, <1>3
    <3>7. t[e[i] - 1] = CR /\ t[e[i]] = LF /\ e[i] <= Len(t)
      BY <3>3, <3>4, <3>5, <1>1, <1>2, <1>3
    <3> QED
      BY <3>2, <3>4, <3>6, <3>7
  <2> QED
    BY <2>1, <2>2
<1>9. f[0] = 0 /\ f[Len(more)] = Len(t)
  BY <1>2, <1>3, <1>4, <1>5, <1>6
<1>10. Layout(f, t, more)
  BY <1>4, <1>6, <1>8, <1>9 DEF Layout
<1> QED
  BY <1>6, <1>10 DEF t, more, n, GrownLayout

LEMMA SayKeepsLines ==
  ASSUME ReadTypeOK, LinesInv, NEW l \in Line, Say(l)
  PROVE  LinesInv'
<1> USE DEF ReadTypeOK
<1>1. PICK e : Layout(e, Stream, said) /\ e[Len(dispatched)] = Len(parsed)
  BY DEF LinesInv
<1> DEFINE more == l \o <<CR, LF>>
<1>2. more \in Seq(Byte)
  BY LineAssumption
<1>3. /\ said' = Append(said, l) /\ UNCHANGED <<dispatched, parsed, incoming>>
      /\ net' = (net \o l) \o <<CR, LF>>
  BY DEF Say
<1>4. Stream' = Stream \o more
  <2>1. net' = net \o more
    <3>1. l \in Seq(Byte) /\ <<CR, LF>> \in Seq(Byte) /\ net \in Seq(Byte)
      BY LineAssumption
    <3> QED
      BY <1>3, <3>1, ThreeParts, Zenon
  <2> HIDE DEF more
  <2>2. parsed \o incoming \in Seq(Byte) /\ net \in Seq(Byte)
    OBVIOUS
  <2>3. (parsed \o incoming) \o (net \o more) = ((parsed \o incoming) \o net) \o more
    BY <1>2, <2>2, ThreeParts, ZenonT(30)
  <2> QED
    BY <1>3, <2>1, <2>3 DEF Stream
<1>5. PICK f : /\ Layout(f, Stream \o more, Append(said, l))
               /\ \A i \in 0..Len(said) : f[i] = e[i]
  <2>1. said \in Seq(Line) /\ Stream \in Seq(Byte)
    BY StreamIndex
  <2>2. GrownLayout(e, Stream, said, l)
    BY <1>1, <2>1, LayoutGrows
  <2> QED
    BY <2>2 DEF GrownLayout, more
<1>6. InOrder' /\ f[Len(dispatched')] = Len(parsed')
  <2>1. Len(dispatched) \in 0..Len(said)
    BY DEF LinesInv, InOrder
  <2>2. f[Len(dispatched)] = e[Len(dispatched)]
    BY <2>1, <1>5
  <2>3. /\ Len(said') = Len(said) + 1
        /\ \A i \in 1..Len(said) : said'[i] = said[i]
    BY <1>3
  <2>4. InOrder'
    BY <1>3, <2>1, <2>3 DEF LinesInv, InOrder
  <2> QED
    BY <1>1, <1>3, <2>2, <2>4
<1> QED
  BY <1>3, <1>4, <1>5, <1>6 DEF LinesInv

(* The first CR LF of the buffer is the end of the first line in it: the    *)
(* line holds no CR LF, and its own end would be found before a later one.  *)
LEMMA OffsetIsLine ==
  ASSUME ReadTypeOK, LinesInv, NEW o \in 2..Len(incoming), Takes(o),
         NEW e, Layout(e, Stream, said), e[Len(dispatched)] = Len(parsed)
  PROVE  /\ Len(dispatched) < Len(said)
         /\ o = Len(said[Len(dispatched) + 1]) + 2
         /\ SubSeq(incoming, 1, o - 2) = said[Len(dispatched) + 1]
<1> USE DEF ReadTypeOK
<1> DEFINE k == Len(dispatched)
           l == said[k + 1]
<1>1. k \in Nat /\ k < Len(said)
  BY StreamIndex DEF LinesInv, InOrder, Layout
<1>2. l \in Line /\ l \in Seq(Byte) /\ Len(l) \in Nat
  BY <1>1, LineAssumption
<1>3. ~ \E i \in 1..(Len(l) - 1) : l[i] = CR /\ l[i + 1] = LF
  BY <1>2, EndAssumption
<1>4. /\ \A j \in 1..Len(l) : Stream[Len(parsed) + j] = l[j]
      /\ Stream[Len(parsed) + Len(l) + 1] = CR
      /\ Stream[Len(parsed) + Len(l) + 2] = LF
  <2>1. k + 1 \in 1..Len(said) /\ (k + 1) - 1 = k
    BY <1>1
  <2>2. e[k] = Len(parsed) /\ e[k + 1] = e[k] + Len(l) + 2
    BY <2>1 DEF Layout
  <2>3. /\ \A j \in 1..Len(l) : Stream[e[k] + j] = l[j]
        /\ Stream[e[k + 1] - 1] = CR /\ Stream[e[k + 1]] = LF
    BY <2>1 DEF Layout
  <2>4. e[k + 1] = Len(parsed) + Len(l) + 2 /\ e[k + 1] - 1 = Len(parsed) + Len(l) + 1
    BY <2>2, <1>2
  <2> QED
    BY <2>2, <2>3, <2>4
<1> HIDE DEF l
<1>5. /\ \A j \in 1..Len(l) : j <= Len(incoming) => incoming[j] = l[j]
      /\ Len(l) + 1 <= Len(incoming) => incoming[Len(l) + 1] = CR
      /\ Len(l) + 2 <= Len(incoming) => incoming[Len(l) + 2] = LF
  BY <1>2, <1>4, StreamIndex, SMTT(20)
<1>6. /\ o - 1 \in 1..Len(incoming) /\ o \in 1..Len(incoming)
      /\ incoming[o - 1] = CR /\ incoming[o] = LF
  BY DEF Takes, EndsAt
<1>7. ~(o <= Len(l))
  <2> SUFFICES ASSUME o <= Len(l) PROVE FALSE
    OBVIOUS
  <2>1. o - 1 \in 1..(Len(l) - 1) /\ o - 1 \in 1..Len(l) /\ o \in 1..Len(l)
    BY <1>2, <1>6
  <2>2. \A j \in 1..Len(l) : j <= Len(incoming) => incoming[j] = l[j]
    BY <1>5
  <2>3. (o - 1) + 1 = o /\ o - 1 <= Len(incoming) /\ o <= Len(incoming)
    BY <1>6
  <2>4. incoming[o - 1] = l[o - 1]
    BY <2>1, <2>2, <2>3
  <2>5. incoming[o] = l[o]
    BY <2>1, <2>2, <2>3
  <2>6. l[o - 1] = CR /\ l[(o - 1) + 1] = LF
    BY <1>6, <2>3, <2>4, <2>5
  <2> QED
    BY <2>1, <2>6, <1>3
<1>8. ~(o = Len(l) + 1)
  BY <1>2, <1>5, <1>6, EndAssumption
<1>9. ~(o > Len(l) + 2)
  <2> SUFFICES ASSUME o > Len(l) + 2 PROVE FALSE
    OBVIOUS
  <2>1. EndsAt(incoming, Len(l) + 1)
    BY <1>2, <1>5, <1>6 DEF EndsAt
  <2> QED
    BY <2>1, <1>2 DEF Takes
<1>10. o = Len(l) + 2
  BY <1>2, <1>7, <1>8, <1>9
<1>11. SubSeq(incoming, 1, o - 2) = l
  BY <1>2, <1>5, <1>10
<1> QED
  BY <1>1, <1>10, <1>11 DEF l

LEMMA ProcessKeepsLines ==
  ASSUME ReadTypeOK, LinesInv, Process
  PROVE  LinesInv'
<1> USE DEF ReadTypeOK
<1>1. PICK e : Layout(e, Stream, said) /\ e[Len(dispatched)] = Len(parsed)
  BY DEF LinesInv
<1>2. PICK o \in 2..Len(incoming) : Takes(o)
  BY ProcessTakes
<1> DEFINE k == Len(dispatched)
<1>3. /\ k < Len(said) /\ o = Len(said[k + 1]) + 2
      /\ SubSeq(incoming, 1, o - 2) = said[k + 1]
  BY <1>1, <1>2, OffsetIsLine
<1>4. /\ dispatched' = Append(dispatched, said[k + 1])
      /\ parsed' = parsed \o SubSeq(incoming, 1, o)
      /\ incoming' = SubSeq(incoming, o + 1, Len(incoming))
      /\ UNCHANGED <<said, net>>
  BY <1>2, <1>3 DEF Takes
<1>5. Stream' = Stream
  <2> DEFINE p == SubSeq(incoming, 1, o)
             q == SubSeq(incoming, o + 1, Len(incoming))
  <2>1. p \in Seq(Byte) /\ q \in Seq(Byte) /\ p \o q = incoming
    <3>1. o \in 0..Len(incoming)
      OBVIOUS
    <3> QED
      BY <3>1, CutIsConcat
  <2> HIDE DEF p, q
  <2>2. (parsed \o p) \o q = parsed \o (p \o q)
    BY <2>1, ThreeParts, ZenonT(30)
  <2> QED
    BY <1>4, <2>1, <2>2 DEF Stream, p, q
<1>6. Layout(e, Stream', said')
  BY <1>1, <1>4, <1>5
<1>7. InOrder'
  BY <1>3, <1>4 DEF LinesInv, InOrder
<1>8. e[Len(dispatched')] = Len(parsed')
  <2>1. e[k + 1] = e[k] + Len(said[k + 1]) + 2
    <3>1. k + 1 \in 1..Len(said) /\ (k + 1) - 1 = k
      BY <1>3
    <3> QED
      BY <1>1, <3>1 DEF Layout
  <2>2. Len(parsed') = Len(parsed) + o
    BY <1>4, CutIsConcat
  <2> QED
    BY <1>1, <1>3, <1>4, <2>1, <2>2
<1> QED
  BY <1>6, <1>7, <1>8 DEF LinesInv

(* The lines irc_run processes are the first lines the server said, in      *)
(* order and whole, however the network cuts the stream.                    *)
THEOREM LinesInOrder == ReadSpec => []InOrder
<1>1. ReadInit => LinesInv
  <2> SUFFICES ASSUME ReadInit PROVE LinesInv
    OBVIOUS
  <2> DEFINE e == [i \in 0..0 |-> 0]
  <2>1. Stream = <<>> /\ Len(said) = 0 /\ Len(dispatched) = 0 /\ Len(parsed) = 0
    BY DEF ReadInit, Stream
  <2>2. Layout(e, Stream, said)
    BY <2>1 DEF Layout
  <2> QED
    BY <2>1, <2>2 DEF LinesInv, InOrder
<1>2. ReadTypeOK /\ LinesInv /\ [ReadNext]_readVars => LinesInv'
  <2> SUFFICES ASSUME ReadTypeOK, LinesInv, [ReadNext]_readVars PROVE LinesInv'
    OBVIOUS
  <2>1. CASE \E l \in Line : Say(l)
    BY <2>1, SayKeepsLines
  <2>2. CASE Process
    BY <2>2, ProcessKeepsLines
  <2>3. ASSUME UNCHANGED <<said, dispatched, parsed>>, Stream' = Stream PROVE LinesInv'
    <3> PICK e : Layout(e, Stream, said) /\ e[Len(dispatched)] = Len(parsed)
      BY DEF LinesInv
    <3>1. Layout(e, Stream', said') /\ InOrder'
      BY <2>3 DEF LinesInv, InOrder
    <3> QED
      BY <2>3, <3>1 DEF LinesInv
  <2>4. CASE \E n \in 1..Len(net) : Recv(n)
    <3> USE DEF ReadTypeOK
    <3> PICK n \in 1..Len(net) : Recv(n)
      BY <2>4
    <3> DEFINE p == SubSeq(net, 1, n)
               q == SubSeq(net, n + 1, Len(net))
    <3>1. p \in Seq(Byte) /\ q \in Seq(Byte) /\ p \o q = net
      BY CutIsConcat
    <3>2. /\ incoming' = incoming \o p /\ net' = q
          /\ UNCHANGED <<said, dispatched, parsed>>
      BY DEF Recv
    <3> HIDE DEF p, q
    <3>3. (parsed \o (incoming \o p)) \o q = (parsed \o incoming) \o (p \o q)
      <4>1. parsed \o (incoming \o p) = (parsed \o incoming) \o p
        BY <3>1, ThreeParts, ZenonT(30)
      <4>2. parsed \o incoming \in Seq(Byte)
        OBVIOUS
      <4>3. ((parsed \o incoming) \o p) \o q = (parsed \o incoming) \o (p \o q)
        BY <3>1, <4>2, ThreeParts, Zenon
      <4> QED
        BY <4>1, <4>3
    <3> QED
      BY <2>3, <3>1, <3>2, <3>3 DEF Stream
  <2>5. CASE \E how \in {"closed", "reset"} : HangUp(how)
    BY <2>3, <2>5 DEF HangUp, Stream
  <2>6. CASE SelectRead
    BY <2>3, <2>6 DEF SelectRead, Stream
  <2>7. CASE RecvNothing
    BY <2>3, <2>7 DEF RecvNothing, Stream
  <2>8. CASE RecvFails
    BY <2>3, <2>8 DEF RecvFails, Stream
  <2>9. CASE Parsed
    BY <2>3, <2>9 DEF Parsed, Stream
  <2>10. CASE UNCHANGED readVars
    BY <2>3, <2>10 DEF readVars, Stream
  <2> QED
    BY <2>1, <2>2, <2>4, <2>5, <2>6, <2>7, <2>8, <2>9, <2>10 DEF ReadNext
<1>3. LinesInv => InOrder
  BY DEF LinesInv
<1> QED
  BY <1>1, <1>2, <1>3, ReadTyping, PTL DEF ReadSpec

=============================================================================
