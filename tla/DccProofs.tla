------------------------------- MODULE DccProofs -------------------------------
(***************************************************************************)
(* Proofs about Dcc, for any number of sessions.                           *)
(*                                                                         *)
(* Of the list only two things matter: who is in it, and that new sessions *)
(* go to its head with a number above all the others, so that a successor  *)
(* is always older than the session it follows.                            *)
(***************************************************************************)
EXTENDS Dcc, TLAPS, SequenceTheorems

-----------------------------------------------------------------------------
(* The list. *)

Listed == Members(list)

Sorted(l) == \A i, j \in 1..Len(l) : i < j => l[j] < l[i]

LEMMA FirstListed ==
  ASSUME list \in Seq(Id)
  PROVE  First(list) \in Listed \cup {Nobody}
<1>1. CASE list = <<>>
  BY <1>1 DEF First
<1>2. CASE list # <<>>
  <2>1. 1 \in 1..Len(list)
    BY <1>2, EmptySeq, LenProperties
  <2> QED
    BY <1>2, <2>1 DEF First, Listed, Members
<1> QED
  BY <1>1, <1>2

LEMMA ListedAreIds == ASSUME list \in Seq(Id) PROVE Listed \subseteq Id
BY ElementOfSeq DEF Listed, Members

(* A successor is in the list, and older. *)
LEMMA FollowingIs ==
  ASSUME list \in Seq(Id), NEW s
  PROVE  /\ Following(s) \in Listed \cup {Nobody}
         /\ s \in Id /\ Sorted(list) => Following(s) < s
<1>1. CASE \E i \in 1..(Len(list) - 1) : list[i] = s
  <2> DEFINE at == CHOOSE i \in 1..(Len(list) - 1) : list[i] = s
  <2>1. at \in 1..(Len(list) - 1) /\ list[at] = s
    BY <1>1
  <2>2. Len(list) \in Nat
    BY LenProperties
  <2>3. at \in 1..Len(list) /\ 1 + at \in 1..Len(list) /\ at < 1 + at
    BY <2>1, <2>2
  <2>4. Following(s) = list[1 + at]
    BY <1>1 DEF Following
  <2> HIDE DEF at
  <2>5. list[1 + at] \in Listed
    BY <2>3 DEF Listed, Members
  <2>6. Sorted(list) => list[1 + at] < list[at]
    BY <2>3 DEF Sorted
  <2> QED
    BY <2>1, <2>4, <2>5, <2>6
<1>2. CASE ~ \E i \in 1..(Len(list) - 1) : list[i] = s
  BY <1>2 DEF Following, Nobody, Id
<1> QED
  BY <1>1, <1>2

(* Unlinking takes one session out, and keeps the order. *)
LEMMA WithoutIs ==
  ASSUME list \in Seq(Id), NEW s
  PROVE  /\ Without(s) \in Seq(Id)
         /\ Sorted(list) => Sorted(Without(s)) /\ Members(Without(s)) = Listed \ {s}
<1>1. CASE s \in Members(list)
  <2> DEFINE at == CHOOSE i \in 1..Len(list) : list[i] = s
             n == Len(list)
             front == SubSeq(list, 1, at - 1)
             back == SubSeq(list, at + 1, n)
  <2>1. n \in Nat /\ \A i \in 1..n : list[i] \in Id
    BY LenProperties, ElementOfSeq
  <2>2. at \in 1..n /\ list[at] = s
    BY <1>1 DEF Members
  <2>3. Without(s) = front \o back
    BY <1>1 DEF Without
  <2> HIDE DEF at, n
  <2>4. /\ front \in Seq(Id) /\ Len(front) = at - 1
        /\ \A i \in 1..(at - 1) : front[i] = list[i]
    <3>1. at - 1 \in Int /\ 1 \in Int /\ \A i \in 1..(at - 1) : list[i] \in Id
      BY <2>1, <2>2
    <3>2. /\ front \in Seq(Id) /\ Len(front) = IF 1 <= at - 1 THEN at - 1 - 1 + 1 ELSE 0
          /\ \A i \in 1..(at - 1 - 1 + 1) : front[i] = list[1 + i - 1]
      BY <3>1, SubSeqProperties
    <3> QED
      BY <2>1, <2>2, <3>2
  <2>5. /\ back \in Seq(Id) /\ Len(back) = n - at
        /\ \A i \in 1..(n - at) : back[i] = list[at + i]
    <3>1. at + 1 \in Int /\ n \in Int /\ \A i \in (at + 1)..n : list[i] \in Id
      BY <2>1, <2>2
    <3>2. /\ back \in Seq(Id) /\ Len(back) = IF at + 1 <= n THEN n - (at + 1) + 1 ELSE 0
          /\ \A i \in 1..(n - (at + 1) + 1) : back[i] = list[at + 1 + i - 1]
      BY <3>1, SubSeqProperties
    <3> QED
      BY <2>1, <2>2, <3>2
  <2> HIDE DEF front, back
  <2> DEFINE w == front \o back
  <2>6. /\ w \in Seq(Id) /\ Len(w) = n - 1
        /\ \A i \in 1..(n - 1) : w[i] = IF i < at THEN list[i] ELSE list[i + 1]
    <3>1. /\ w \in Seq(Id) /\ Len(w) = Len(front) + Len(back)
          /\ \A i \in 1..(Len(front) + Len(back)) :
               w[i] = IF i <= Len(front) THEN front[i] ELSE back[i - Len(front)]
      BY <2>4, <2>5, ConcatProperties
    <3>2. Len(front) + Len(back) = n - 1
      BY <2>1, <2>2, <2>4, <2>5
    <3>3. ASSUME NEW i \in 1..(n - 1), i < at PROVE w[i] = list[i]
      BY <2>1, <2>2, <2>4, <3>1, <3>2, <3>3
    <3>4. ASSUME NEW i \in 1..(n - 1), ~(i < at) PROVE w[i] = list[i + 1]
      <4>1. w[i] = back[i - (at - 1)]
        BY <2>1, <2>2, <2>4, <3>1, <3>2, <3>4
      <4>2. i - (at - 1) \in 1..(n - at) /\ at + (i - (at - 1)) = i + 1
        BY <2>1, <2>2, <3>4
      <4> QED
        BY <2>5, <4>1, <4>2
    <3> QED
      BY <3>1, <3>2, <3>3, <3>4
  <2> HIDE DEF w
  <2>7. ASSUME Sorted(list) PROVE Sorted(w)
    <3> SUFFICES ASSUME NEW i \in 1..(n - 1), NEW j \in 1..(n - 1), i < j PROVE w[j] < w[i]
      BY <2>6 DEF Sorted
    <3> DEFINE p == IF i < at THEN i ELSE i + 1
               q == IF j < at THEN j ELSE j + 1
    <3>1. p \in 1..n /\ q \in 1..n /\ p < q
      BY <2>1, <2>2
    <3>2. w[i] = list[p] /\ w[j] = list[q]
      BY <2>6
    <3> QED
      BY <2>7, <3>1, <3>2 DEF Sorted, n
  <2>8. ASSUME Sorted(list) PROVE Members(w) = Listed \ {s}
    <3>1. ASSUME NEW t \in Members(w) PROVE t \in Listed \ {s}
      <4>1. PICK i \in 1..(n - 1) : t = w[i]
        BY <2>6, <3>1 DEF Members
      <4> DEFINE p == IF i < at THEN i ELSE i + 1
      <4>2. p \in 1..n /\ (p < at \/ at < p)
        BY <2>1, <2>2
      <4>3. t = list[p]
        BY <2>6, <4>1
      <4>4. list[p] # list[at]
        <5>1. list[p] \in Int /\ list[at] \in Int
          BY <2>1, <2>2, <4>2 DEF Id
        <5>2. list[p] < list[at] \/ list[at] < list[p]
          BY <2>2, <2>8, <4>2 DEF Sorted, n
        <5> QED
          BY <5>1, <5>2
      <4> QED
        BY <2>2, <4>2, <4>3, <4>4 DEF Listed, Members, n
    <3>2. ASSUME NEW t \in Listed \ {s} PROVE t \in Members(w)
      <4>1. PICK p \in 1..n : t = list[p]
        BY <3>2 DEF Listed, Members, n
      <4>2. p # at
        BY <2>2, <3>2, <4>1
      <4> DEFINE i == IF p < at THEN p ELSE p - 1
      <4>3. i \in 1..(n - 1) /\ w[i] = list[p]
        BY <2>1, <2>2, <2>6, <4>2
      <4> QED
        BY <2>6, <4>1, <4>3 DEF Members
    <3> QED
      BY <3>1, <3>2
  <2> QED
    BY <2>3, <2>6, <2>7, <2>8 DEF w
<1>2. CASE s \notin Members(list)
  BY <1>2 DEF Without, Listed
<1> QED
  BY <1>1, <1>2

(* A new session goes to the head, above all the others. *)
LEMMA CreatedIs ==
  ASSUME list \in Seq(Id), NEW s \in Id
  PROVE  /\ <<s>> \o list \in Seq(Id)
         /\ Members(<<s>> \o list) = Listed \cup {s}
         /\ Sorted(list) /\ (\A t \in Listed : t < s) => Sorted(<<s>> \o list)
<1> DEFINE n == Len(list)
           c == <<s>> \o list
<1>1. n \in Nat /\ \A i \in 1..n : list[i] \in Id
  BY LenProperties, ElementOfSeq
<1>2. <<s>> \in Seq(Id) /\ Len(<<s>>) = 1 /\ <<s>>[1] = s
  OBVIOUS
<1>3. /\ c \in Seq(Id) /\ Len(c) = n + 1
      /\ \A i \in 1..(n + 1) : c[i] = IF i = 1 THEN s ELSE list[i - 1]
  <2>1. /\ c \in Seq(Id) /\ Len(c) = Len(<<s>>) + n
        /\ \A i \in 1..(Len(<<s>>) + n) :
             c[i] = IF i <= Len(<<s>>) THEN <<s>>[i] ELSE list[i - Len(<<s>>)]
    BY <1>2, ConcatProperties
  <2> HIDE DEF c, n
  <2>2. ASSUME NEW i \in 1..(n + 1) PROVE c[i] = IF i = 1 THEN s ELSE list[i - 1]
    BY <1>1, <1>2, <2>1, <2>2
  <2>3. 1 + n = n + 1
    BY <1>1
  <2> QED
    BY <1>2, <2>1, <2>2, <2>3
<1> HIDE DEF c, n
<1>4. Members(c) = Listed \cup {s}
  <2>1. ASSUME NEW t \in Members(c) PROVE t \in Listed \cup {s}
    <3>1. PICK i \in 1..(n + 1) : t = c[i]
      BY <1>3, <2>1 DEF Members
    <3>2. i # 1 => i - 1 \in 1..n
      BY <1>1
    <3> QED
      BY <1>3, <3>1, <3>2 DEF Listed, Members, n
  <2>2. s \in Members(c)
    <3>1. 1 \in 1..(n + 1) /\ c[1] = s
      BY <1>1, <1>3
    <3> QED
      BY <1>3, <3>1 DEF Members
  <2>3. ASSUME NEW t \in Listed PROVE t \in Members(c)
    <3>1. PICK i \in 1..n : t = list[i]
      BY <2>3 DEF Listed, Members, n
    <3>2. i + 1 \in 1..(n + 1) /\ i + 1 # 1 /\ i + 1 - 1 = i
      BY <1>1
    <3> QED
      BY <1>3, <3>1, <3>2 DEF Members
  <2> QED
    BY <2>1, <2>2, <2>3
<1>5. ASSUME Sorted(list), \A t \in Listed : t < s PROVE Sorted(c)
  <2> SUFFICES ASSUME NEW i \in 1..(n + 1), NEW j \in 1..(n + 1), i < j PROVE c[j] < c[i]
    BY <1>3 DEF Sorted
  <2>1. j - 1 \in 1..n /\ c[j] = list[j - 1]
    BY <1>1, <1>3
  <2>2. CASE i = 1
    BY <1>3, <1>5, <2>1, <2>2 DEF Listed, Members, n
  <2>3. CASE i # 1
    <3>1. i - 1 \in 1..n /\ c[i] = list[i - 1] /\ i - 1 < j - 1
      BY <1>1, <1>3, <2>3
    <3> QED
      BY <1>5, <2>1, <3>1 DEF Sorted, n
  <2> QED
    BY <2>2, <2>3
<1> QED
  BY <1>3, <1>4, <1>5 DEF c

-----------------------------------------------------------------------------
(* Types. *)

Steps == {"top", "pre", "selected", "in", "out", "irc", "call", "checked", "crashed", "over"}
Whys == {"timeout", "finished", "connected", "data", "sent", "received", "failed"}

SessionsOK ==
  /\ list \in Seq(Id) /\ last \in 0..MaxSessions
  /\ state \in [Id -> {"none", "REMOVED"} \cup Waiting \cup Linked] /\ mode \in [Id -> Mode]
  /\ open \in [Id -> BOOLEAN] /\ hasCb \in [Id -> BOOLEAN] /\ freed \in [Id -> Nat]

(* The worker serves a session, or calls back for one, that there is. *)
WorkerOK ==
  /\ lock \in BOOLEAN /\ pc \in Steps /\ why \in Whys
  /\ cur \in Id \cup {Nobody} /\ next \in Id \cup {Nobody}
  /\ told \subseteq Id /\ inset \subseteq Id /\ outset \subseteq Id
  /\ pc \in {"out", "call", "checked"} => cur # Nobody

OthersOK == late \subseteq Id /\ app \in Id \cup {Nobody} /\ spoiled \in BOOLEAN

Types == SessionsOK /\ WorkerOK /\ OthersOK

LEMMA TypesAreTypeOK == Types => TypeOK
BY DEF Types, SessionsOK, WorkerOK, OthersOK, TypeOK, Steps, Whys

LEMMA TypesSame ==
  /\ SessionsOK /\ UNCHANGED sessions => SessionsOK'
  /\ WorkerOK /\ UNCHANGED worker => WorkerOK'
  /\ OthersOK /\ UNCHANGED <<late, app, spoiled>> => OthersOK'
BY DEF SessionsOK, sessions, WorkerOK, worker, OthersOK

LEMMA FollowingType ==
  ASSUME SessionsOK, NEW s
  PROVE  Following(s) \in Id \cup {Nobody} /\ First(list) \in Id \cup {Nobody}
BY FollowingIs, FirstListed, ListedAreIds DEF SessionsOK

LEMMA CallTypes ==
  ASSUME SessionsOK, WorkerOK, cur # Nobody, NEW w \in Whys, Call(w)
  PROVE  WorkerOK'
<1>1. next' \in Id \cup {Nobody}
  BY FollowingType DEF Call
<1>2. told' \subseteq Id
  BY DEF Call, WorkerOK, Nobody
<1>3. lock' \in BOOLEAN /\ pc' \in Steps /\ why' \in Whys
  BY DEF Call, Steps
<1>4. UNCHANGED <<cur, inset, outset>>
  BY DEF Call
<1> QED
  BY <1>1, <1>2, <1>3, <1>4 DEF WorkerOK

LEMMA AdvanceTypes ==
  ASSUME SessionsOK, WorkerOK, Advance, lock' \in BOOLEAN
  PROVE  WorkerOK'
<1>1. cur' \in Id \cup {Nobody} /\ pc' = "in"
  BY FollowingType DEF Advance
<1> QED
  BY <1>1 DEF Advance, WorkerOK, Steps

LEMMA DestroyTypes ==
  ASSUME SessionsOK, NEW s, Destroy(s),
         UNCHANGED <<list, last, mode, freed>>, hasCb' \in [Id -> BOOLEAN]
  PROVE  SessionsOK'
<1>1. open' \in [Id -> BOOLEAN]
  BY DEF SessionsOK, Destroy
<1>2. state' \in [Id -> {"none", "REMOVED"} \cup Waiting \cup Linked]
  BY DEF SessionsOK, Destroy
<1> QED
  BY <1>1, <1>2 DEF SessionsOK

LEMMA SetStateTypes ==
  ASSUME SessionsOK, NEW s, NEW st \in {"REMOVED"} \cup Waiting \cup Linked,
         state' = [state EXCEPT ![s] = st],
         UNCHANGED <<list, last, mode, open, hasCb, freed>>
  PROVE  SessionsOK'
<1>1. state' \in [Id -> {"none", "REMOVED"} \cup Waiting \cup Linked]
  BY DEF SessionsOK
<1> QED
  BY <1>1 DEF SessionsOK

LEMMA RemoveTypes ==
  ASSUME SessionsOK, NEW s, NEW n \in Nat, Remove(s, n),
         UNCHANGED <<last, mode, hasCb>>,
         state' \in [Id -> {"none", "REMOVED"} \cup Waiting \cup Linked]
  PROVE  SessionsOK'
<1>1. list' \in Seq(Id)
  BY WithoutIs DEF SessionsOK, Remove
<1>2. open' \in [Id -> BOOLEAN]
  BY DEF SessionsOK, Remove
<1>3. freed' \in [Id -> Nat]
  <2>1. freed' = [t \in Id |-> IF t = s THEN freed[t] + n ELSE freed[t]]
    BY DEF SessionsOK, Remove
  <2>2. \A t \in Id : freed[t] \in Nat /\ freed[t] + n \in Nat
    BY DEF SessionsOK
  <2> QED
    BY <2>1, <2>2
<1> QED
  BY <1>1, <1>2, <1>3 DEF SessionsOK

LEMMA CreateTypes ==
  ASSUME SessionsOK, last < MaxSessions, NEW st \in Waiting, NEW m \in Mode,
         Create(last + 1, st, m), UNCHANGED <<hasCb, freed>>
  PROVE  SessionsOK' /\ last + 1 \in Id
<1>1. last + 1 \in Id /\ last + 1 \in 0..MaxSessions
  BY BoundAssumption DEF SessionsOK, Id
<1>2. list' \in Seq(Id) /\ last' \in 0..MaxSessions
  BY <1>1, CreatedIs DEF SessionsOK, Create
<1>3. state' \in [Id -> {"none", "REMOVED"} \cup Waiting \cup Linked]
  BY DEF SessionsOK, Create
<1>4. mode' \in [Id -> Mode]
  BY DEF SessionsOK, Create
<1>5. open' \in [Id -> BOOLEAN]
  BY DEF SessionsOK, Create
<1> QED
  BY <1>1, <1>2, <1>3, <1>4, <1>5 DEF SessionsOK, Create

LEMMA InitTypes == Init => Types
<1> SUFFICES ASSUME Init PROVE Types
  OBVIOUS
<1>1. list \in Seq(Id) /\ last \in 0..MaxSessions
  BY BoundAssumption DEF Init
<1>2. state \in [Id -> {"none", "REMOVED"} \cup Waiting \cup Linked] /\ mode \in [Id -> Mode]
  BY DEF Init, Mode
<1>3. open \in [Id -> BOOLEAN] /\ hasCb \in [Id -> BOOLEAN] /\ freed \in [Id -> Nat]
  BY DEF Init
<1>4. WorkerOK
  BY DEF Init, WorkerOK, Steps, Whys
<1>5. OthersOK
  BY DEF Init, OthersOK
<1> QED
  BY <1>1, <1>2, <1>3, <1>4, <1>5 DEF Types, SessionsOK

LEMMA AddDescriptorsTypes == ASSUME Types, AddDescriptors PROVE Types'
<1> USE DEF Types
<1>1. CASE Begin
  <2>1. WorkerOK'
    BY <1>1, FollowingType DEF Begin, WorkerOK, Steps
  <2> QED
    BY <1>1, <2>1, TypesSame DEF Begin
<1>2. CASE Timeout
  BY <1>2, CallTypes, TypesSame DEF Timeout, Whys
<1>3. CASE DropRequest
  <2>1. SessionsOK'
    BY <1>3, RemoveTypes DEF DropRequest, SessionsOK
  <2>2. WorkerOK'
    BY <1>3, FollowingType DEF DropRequest, WorkerOK
  <2> QED
    BY <1>3, <2>1, <2>2, TypesSame DEF DropRequest
<1>4. CASE FileEnds
  BY <1>4, CallTypes, TypesSame DEF FileEnds, Whys
<1>5. CASE CleanUp
  <2>1. SessionsOK'
    BY <1>5, RemoveTypes DEF CleanUp, SessionsOK
  <2>2. WorkerOK'
    BY <1>5, FollowingType DEF CleanUp, WorkerOK
  <2> QED
    BY <1>5, <2>1, <2>2, TypesSame DEF CleanUp
<1>6. CASE Keep
  <2>1. WorkerOK'
    BY <1>6, FollowingType DEF Keep, WorkerOK
  <2> QED
    BY <1>6, <2>1, TypesSame DEF Keep
<1>7. CASE Select
  <2>1. inset' \subseteq Id /\ outset' \subseteq Id
    BY <1>7, ListedAreIds DEF Select, WatchedIn, WatchedOut, SessionsOK, Listed
  <2>2. WorkerOK'
    BY <1>7, <2>1 DEF Select, WorkerOK, Steps
  <2> QED
    BY <1>7, <2>2, TypesSame DEF Select
<1> QED
  BY <1>1, <1>2, <1>3, <1>4, <1>5, <1>6, <1>7 DEF AddDescriptors

LEMMA ProcessTypes == ASSUME Types, ProcessDescriptors PROVE Types'
<1> USE DEF Types
<1>1. CASE BeginWalk
  <2>1. WorkerOK'
    BY <1>1, FollowingType DEF BeginWalk, WorkerOK, Steps
  <2> QED
    BY <1>1, <2>1, TypesSame DEF BeginWalk
<1>2. CASE Succeeds
  <2>1. SessionsOK'
    BY <1>2, SetStateTypes DEF Succeeds, Linked
  <2>2. WorkerOK'
    <3>1. CASE Call("connected")
      BY <1>2, <3>1, CallTypes DEF Succeeds, Whys
    <3>2. CASE pc' = "out" /\ UNCHANGED <<lock, cur, next, why, inset, outset, told>>
      BY <1>2, <3>2 DEF Succeeds, WorkerOK, Steps
    <3> QED
      BY <1>2, <3>1, <3>2 DEF Succeeds
  <2>3. OthersOK'
    BY <1>2 DEF Succeeds, OthersOK
  <2> QED
    BY <2>1, <2>2, <2>3
<1>3. CASE FailsChat
  <2>1. OthersOK'
    BY <1>3 DEF FailsChat, OthersOK
  <2> QED
    BY <1>3, <2>1, CallTypes, TypesSame DEF FailsChat, Whys
<1>4. CASE FailsFile
  <2>1. SessionsOK'
    BY <1>4, DestroyTypes DEF FailsFile, SessionsOK
  <2>2. WorkerOK'
    BY <1>4, AdvanceTypes DEF FailsFile, WorkerOK
  <2>3. OthersOK'
    BY <1>4 DEF FailsFile, OthersOK
  <2> QED
    BY <2>1, <2>2, <2>3
<1>5. CASE RecvFails
  BY <1>5, CallTypes, TypesSame DEF RecvFails, Readable, Whys
<1>6. CASE RecvConfirm
  <2>1. PICK st \in Linked : state' = [state EXCEPT ![cur] = st]
    BY <1>6 DEF RecvConfirm
  <2>2. SessionsOK'
    BY <1>6, <2>1, SetStateTypes DEF RecvConfirm
  <2>3. WorkerOK'
    BY <1>6 DEF RecvConfirm, Readable, WorkerOK, Steps
  <2> QED
    BY <1>6, <2>2, <2>3, TypesSame DEF RecvConfirm
<1>7. CASE RecvData
  BY <1>7, CallTypes, TypesSame DEF RecvData, Readable, Whys
<1>8. CASE NothingIn
  <2>1. WorkerOK'
    BY <1>8 DEF NothingIn, WorkerOK, Steps
  <2> QED
    BY <1>8, <2>1, TypesSame DEF NothingIn
<1>9. CASE SendFails
  BY <1>9, CallTypes, TypesSame DEF SendFails, Writable, Whys, WorkerOK
<1>10. CASE SendChunk
  <2>1. SessionsOK'
    BY <1>10, SetStateTypes DEF SendChunk, Linked
  <2>2. WorkerOK'
    BY <1>10, CallTypes DEF SendChunk, Writable, Whys, WorkerOK
  <2> QED
    BY <1>10, <2>1, <2>2, TypesSame DEF SendChunk
<1>11. CASE SendConfirm
  <2>1. SessionsOK'
    BY <1>11, SetStateTypes DEF SendConfirm, Linked
  <2>2. WorkerOK'
    BY <1>11, AdvanceTypes DEF SendConfirm, WorkerOK
  <2> QED
    BY <1>11, <2>1, <2>2, TypesSame DEF SendConfirm
<1>12. CASE Received
  BY <1>12, CallTypes, TypesSame DEF Received, Writable, Whys, WorkerOK
<1>13. CASE Pass
  <2>1. WorkerOK'
    BY <1>13, AdvanceTypes DEF Pass, WorkerOK
  <2> QED
    BY <1>13, <2>1, TypesSame DEF Pass
<1>14. CASE EndWalk
  <2>1. WorkerOK'
    BY <1>14 DEF EndWalk, WorkerOK, Steps
  <2> QED
    BY <1>14, <2>1, TypesSame DEF EndWalk
<1> QED
  BY <1>1, <1>2, <1>3, <1>4, <1>5, <1>6, <1>7, <1>8, <1>9, <1>10, <1>11, <1>12, <1>13, <1>14
  DEF ProcessDescriptors

LEMMA AfterCallTypes == ASSUME Types, AfterCall PROVE Types'
<1> USE DEF Types
<1>1. CASE AfterTimeout
  <2>1. SessionsOK'
    BY <1>1, RemoveTypes DEF AfterTimeout, SessionsOK
  <2>2. WorkerOK'
    BY <1>1 DEF AfterTimeout, WorkerOK, Steps
  <2> QED
    BY <1>1, <2>1, <2>2, TypesSame DEF AfterTimeout
<1>2. CASE AfterFinished
  <2>1. state' \in [Id -> {"none", "REMOVED"} \cup Waiting \cup Linked]
    BY <1>2 DEF AfterFinished, SessionsOK
  <2>2. SessionsOK'
    BY <1>2, <2>1, RemoveTypes DEF AfterFinished
  <2>3. WorkerOK'
    BY <1>2 DEF AfterFinished, WorkerOK, Steps
  <2> QED
    BY <1>2, <2>2, <2>3, TypesSame DEF AfterFinished
<1>3. CASE AfterFailed
  <2>1. SessionsOK'
    BY <1>3, DestroyTypes DEF AfterFailed, SessionsOK
  <2>2. WorkerOK'
    BY <1>3, AdvanceTypes DEF AfterFailed
  <2> QED
    BY <1>3, <2>1, <2>2, TypesSame DEF AfterFailed
<1>4. CASE AfterConnected
  <2>1. WorkerOK'
    BY <1>4 DEF AfterConnected, WorkerOK, Steps
  <2> QED
    BY <1>4, <2>1, TypesSame DEF AfterConnected
<1>5. CASE AfterSent
  <2>1. WorkerOK'
    BY <1>5, AdvanceTypes DEF AfterSent
  <2> QED
    BY <1>5, <2>1, TypesSame DEF AfterSent
<1>6. CASE AfterChat
  <2>1. WorkerOK'
    BY <1>6 DEF AfterChat, WorkerOK, Steps
  <2> QED
    BY <1>6, <2>1, TypesSame DEF AfterChat
<1>7. CASE Check
  <2>1. WorkerOK'
    BY <1>7 DEF Check, WorkerOK, Steps
  <2> QED
    BY <1>7, <2>1, TypesSame DEF Check
<1>8. CASE Confirm
  <2>1. SessionsOK'
    BY <1>8, SetStateTypes DEF Confirm, Linked
  <2>2. WorkerOK'
    BY <1>8 DEF Confirm, WorkerOK, Steps
  <2> QED
    BY <1>8, <2>1, <2>2, TypesSame DEF Confirm
<1>9. CASE AfterReceived
  <2>1. SessionsOK'
    BY <1>9, DestroyTypes DEF AfterReceived, SessionsOK
  <2>2. WorkerOK'
    BY <1>9, AdvanceTypes DEF AfterReceived, WorkerOK
  <2> QED
    BY <1>9, <2>1, <2>2, TypesSame DEF AfterReceived
<1> QED
  BY <1>1, <1>2, <1>3, <1>4, <1>5, <1>6, <1>7, <1>8, <1>9 DEF AfterCall

LEMMA RestTypes ==
  ASSUME Types, NoRequest \/ End \/ (\E m \in {"CHAT", "RECVFILE"} : Request(m))
                \/ \E s \in Id : Expire(s)
  PROVE  Types'
<1> USE DEF Types
<1>1. CASE NoRequest
  <2>1. WorkerOK'
    BY <1>1 DEF NoRequest, WorkerOK, Steps
  <2> QED
    BY <1>1, <2>1, TypesSame DEF NoRequest
<1>2. CASE End
  <2>1. list' \in Seq(Id) /\ open' \in [Id -> BOOLEAN]
    BY <1>2 DEF End, SessionsOK
  <2>2. freed' \in [Id -> Nat]
    <3>1. \A s \in Id : freed[s] + (IF s \in Members(list) THEN 1 ELSE 0) \in Nat
      BY DEF SessionsOK
    <3> QED
      BY <1>2, <3>1 DEF End
  <2>3. SessionsOK'
    BY <1>2, <2>1, <2>2 DEF End, SessionsOK
  <2>4. WorkerOK'
    BY <1>2 DEF End, WorkerOK, Steps
  <2> QED
    BY <1>2, <2>3, <2>4, TypesSame DEF End
<1>3. ASSUME NEW m \in {"CHAT", "RECVFILE"}, Request(m) PROVE Types'
  <2>1. SessionsOK'
    BY <1>3, CreateTypes DEF Request, Mode, Waiting
  <2>2. WorkerOK'
    BY <1>3 DEF Request, WorkerOK, Steps
  <2> QED
    BY <1>3, <2>1, <2>2, TypesSame DEF Request
<1>4. ASSUME NEW s \in Id, Expire(s) PROVE Types'
  <2>1. OthersOK'
    BY <1>4 DEF Expire, OthersOK
  <2> QED
    BY <1>4, <2>1, TypesSame DEF Expire
<1> QED
  BY <1>1, <1>2, <1>3, <1>4

LEMMA ApplicationTypes == ASSUME Types, Application PROVE Types'
<1> USE DEF Types
<1>1. ASSUME NEW s \in Id, AppDestroys(s) PROVE Types'
  <2>1. SessionsOK'
    BY <1>1, DestroyTypes DEF AppDestroys, SessionsOK
  <2>2. OthersOK'
    BY <1>1 DEF AppDestroys, OthersOK
  <2> QED
    BY <1>1, <2>1, <2>2, TypesSame DEF AppDestroys
<1>2. ASSUME NEW s \in Id, AppAccepts(s) PROVE Types'
  <2>1. hasCb' \in [Id -> BOOLEAN]
    BY <1>2 DEF AppAccepts, SessionsOK
  <2>2. state' \in [Id -> {"none", "REMOVED"} \cup Waiting \cup Linked] /\ open' \in [Id -> BOOLEAN]
    <3>1. CASE state' = [state EXCEPT ![s] = "CONNECTING"] /\ UNCHANGED open
      BY <3>1 DEF SessionsOK, Waiting
    <3>2. CASE Destroy(s)
      BY <3>2 DEF Destroy, SessionsOK
    <3> QED
      BY <1>2, <3>1, <3>2 DEF AppAccepts
  <2>3. SessionsOK'
    BY <1>2, <2>1, <2>2 DEF AppAccepts, SessionsOK
  <2>4. OthersOK'
    BY <1>2 DEF AppAccepts, OthersOK
  <2> QED
    BY <1>2, <2>3, <2>4, TypesSame DEF AppAccepts
<1>3. ASSUME NEW s \in Id, AppDeclines(s) PROVE Types'
  <2>1. SessionsOK'
    BY <1>3, DestroyTypes DEF AppDeclines, SessionsOK
  <2>2. OthersOK'
    BY <1>3 DEF AppDeclines, OthersOK
  <2> QED
    BY <1>3, <2>1, <2>2, TypesSame DEF AppDeclines
<1>4. ASSUME NEW m \in {"CHAT", "SENDFILE"}, Invite(m) PROVE Types'
  <2>1. SessionsOK' /\ last + 1 \in Id
    BY <1>4, CreateTypes DEF Invite, Mode, Waiting
  <2>2. OthersOK'
    BY <1>4, <2>1 DEF Invite, OthersOK
  <2> QED
    BY <1>4, <2>1, <2>2, TypesSame DEF Invite
<1>5. CASE InviteSucceeds
  <2>1. SessionsOK'
    BY <1>5 DEF InviteSucceeds, SessionsOK
  <2>2. OthersOK'
    BY <1>5 DEF InviteSucceeds, OthersOK
  <2> QED
    BY <1>5, <2>1, <2>2, TypesSame DEF InviteSucceeds
<1>6. CASE InviteFails
  <2>1. SessionsOK'
    BY <1>6 DEF InviteFails, SessionsOK
  <2> QED
    BY <1>6, <2>1, TypesSame DEF InviteFails
<1>7. CASE InviteUnlinks
  <2>1. SessionsOK'
    BY <1>7, RemoveTypes DEF InviteUnlinks, SessionsOK
  <2>2. OthersOK'
    BY <1>7 DEF InviteUnlinks, OthersOK
  <2> QED
    BY <1>7, <2>1, <2>2, TypesSame DEF InviteUnlinks
<1> QED
  BY <1>1, <1>2, <1>3, <1>4, <1>5, <1>6, <1>7 DEF Application

LEMMA NextTypes == ASSUME Types, [Next]_vars PROVE Types'
<1>1. CASE UNCHANGED vars
  BY <1>1, TypesSame DEF Types, vars
<1> QED
  BY <1>1, AddDescriptorsTypes, ProcessTypes, AfterCallTypes, RestTypes, ApplicationTypes
  DEF Next, Turn

-----------------------------------------------------------------------------
(* What holds unless a window was hit.                                      *)

Answering == (Waiting \ {"INIT"}) \cup Linked

(* Numbers are given once, and no session before its number is. *)
Created ==
  /\ Listed \subseteq 1..last /\ late \subseteq 1..last
  /\ \A s \in Id : s > last => ~open[s] /\ mode[s] # "SENDFILE"

(* Memory is allocated for the listed ones, and was freed once for others.  *)
Memory == \A s \in Id : freed[s] = IF s <= last /\ s \notin Listed THEN 1 ELSE 0

Sockets == \A s \in Id \ {app} : open[s] <=> s \in Listed /\ state[s] # "REMOVED"

(* The session of an invitation waits for its peer.  The worker can neither *)
(* time out nor finish a younger one: what is created behind it is created  *)
(* by the worker, and does not send a file.                                 *)
Inviting ==
  app # Nobody =>
    /\ app \in Listed /\ state[app] = "LISTENING"
    /\ \A s \in late : s < app
    /\ \A s \in Id : s > app => mode[s] # "SENDFILE"

Callbacks ==
  \A s \in Listed :
    /\ state[s] # "none"
    /\ s # app /\ state[s] \in Answering => hasCb[s]

Store == Sorted(list) /\ Created /\ Memory /\ Sockets /\ Inviting /\ Callbacks

Walk ==
  /\ pc \in {"pre", "in", "out", "call", "checked"} => cur \in Listed \cup {Nobody}
  /\ pc = "pre" => lock
  /\ pc # "crashed"
  /\ pc = "over" => app = Nobody

(* The session a callback is for.  The successor the worker has kept is     *)
(* older, so it is not that of an invitation.                               *)
Telling ==
  /\ pc \in {"call", "checked"} => cur # app /\ state[cur] # "INIT"
  /\ pc = "call" /\ why \in {"timeout", "finished"} =>
       /\ next \in Listed \cup {Nobody} /\ next < cur
       /\ app # Nobody => cur < app
  /\ pc = "call" /\ why = "timeout" => state[cur] # "REMOVED"
  /\ pc = "call" /\ why = "data" => state[cur] \in {"CONNECTED", "REMOVED"}
  /\ pc = "checked" => state[cur] = "CONNECTED"

(* Whose end was told is done with, but for the callback that tells it. *)
Told ==
  /\ told \subseteq 1..last
  /\ \A s \in told \cap Listed :
       \/ state[s] = "REMOVED"
       \/ pc = "call" /\ cur = s /\ why \in {"timeout", "finished", "received", "failed"}

Walking == Walk /\ Telling /\ Told

Safe == Store /\ Walking

IInv == Types /\ (spoiled \/ Safe)

LEMMA StoreSame == Store /\ UNCHANGED <<sessions, late, app>> => Store'
BY DEF Store, sessions, Created, Memory, Sockets, Inviting, Callbacks, Listed

LEMMA ListedSame == ASSUME list' = list PROVE Listed' = Listed
BY DEF Listed

LEMMA InitSafe == Init => Safe
<1> SUFFICES ASSUME Init PROVE Safe
  OBVIOUS
<1>1. Listed = {}
  BY DEF Init, Listed, Members
<1>2. Sorted(list)
  BY DEF Init, Sorted
<1>3. Created /\ Memory /\ Sockets /\ Inviting /\ Callbacks
  BY <1>1 DEF Init, Created, Memory, Sockets, Inviting, Callbacks, Id
<1>4. Walking
  BY <1>1 DEF Init, Walking, Walk, Telling, Told
<1> QED
  BY <1>2, <1>3, <1>4 DEF Safe, Store

(* A listed session other than that of an invitation, by its state. *)
LEMMA ListedAndAlive ==
  ASSUME Types, Store, NEW s \in Listed
  PROVE  /\ s \in Id /\ s <= last /\ freed[s] = 0
         /\ s # app /\ state[s] \in Answering => hasCb[s] /\ open[s]
<1>1. s \in Id /\ s <= last
  BY ListedAreIds DEF Types, SessionsOK, Store, Created
<1> QED
  BY <1>1 DEF Store, Memory, Callbacks, Sockets, Answering, Waiting, Linked

-----------------------------------------------------------------------------
(* What the helpers do to the store. *)

LEMMA SetStateStore ==
  ASSUME Types, Store, NEW s \in Listed, s # app, state[s] # "REMOVED",
         NEW st \in Answering, state' = [state EXCEPT ![s] = st],
         hasCb'[s], \A t \in Id : t # s => hasCb'[t] = hasCb[t],
         UNCHANGED <<list, last, mode, open, freed, late, app>>
  PROVE  Store'
<1>1. s \in Id /\ Listed' = Listed
  BY ListedAndAlive, ListedSame
<1>2. state'[s] = st /\ \A t \in Id : t # s => state'[t] = state[t]
  BY <1>1 DEF Types, SessionsOK
<1>3. st \notin {"REMOVED", "none"}
  BY DEF Answering, Waiting, Linked
<1>4. Sorted(list)' /\ Created' /\ Memory'
  BY <1>1 DEF Store, Sorted, Created, Memory
<1>5. Sockets'
  BY <1>1, <1>2, <1>3 DEF Store, Sockets
<1>6. Inviting'
  BY <1>1, <1>2, ListedAreIds DEF Store, Inviting, Types, SessionsOK
<1>7. Callbacks'
  BY <1>1, <1>2, <1>3, ListedAreIds DEF Store, Callbacks, Types, SessionsOK
<1> QED
  BY <1>4, <1>5, <1>6, <1>7 DEF Store

LEMMA DestroyStore ==
  ASSUME Types, Store, NEW s \in Listed, s # app, Destroy(s),
         \A t \in Id : t # s => hasCb'[t] = hasCb[t],
         UNCHANGED <<list, last, mode, freed, late, app>>
  PROVE  Store'
<1>1. s \in Id /\ s <= last /\ Listed' = Listed
  BY ListedAndAlive, ListedSame
<1>2. /\ state'[s] = "REMOVED" /\ ~open'[s]
      /\ \A t \in Id : t # s => state'[t] = state[t] /\ open'[t] = open[t]
  BY <1>1 DEF Types, SessionsOK, Destroy
<1>3. Sorted(list)' /\ Memory'
  BY <1>1 DEF Store, Sorted, Memory
<1>4. Created'
  BY <1>1, <1>2 DEF Store, Created
<1>5. Sockets'
  BY <1>1, <1>2 DEF Store, Sockets
<1>6. Inviting'
  BY <1>1, <1>2, ListedAreIds DEF Store, Inviting, Types, SessionsOK
<1>7. Callbacks'
  BY <1>1, <1>2, ListedAreIds DEF Store, Callbacks, Types, SessionsOK, Answering, Waiting, Linked
<1> QED
  BY <1>3, <1>4, <1>5, <1>6, <1>7 DEF Store

LEMMA RemoveStore ==
  ASSUME Types, Store, NEW s \in Listed, s # app, Remove(s, 1),
         \A t \in Id : t # s => state'[t] = state[t],
         UNCHANGED <<last, mode, hasCb, late, app>>
  PROVE  Store' /\ Listed' = Listed \ {s}
<1>1. s \in Id /\ s <= last /\ freed[s] = 0
  BY ListedAndAlive
<1>2. Sorted(list)' /\ Listed' = Listed \ {s}
  BY WithoutIs DEF Store, Remove, Listed, Types, SessionsOK
<1>3. ~open'[s] /\ \A t \in Id : t # s => open'[t] = open[t]
  BY <1>1 DEF Types, SessionsOK, Remove
<1>4. freed'[s] = 1 /\ \A t \in Id : t # s => freed'[t] = freed[t]
  BY <1>1 DEF Types, SessionsOK, Remove
<1>5. Created'
  BY <1>1, <1>2, <1>3 DEF Store, Created
<1>6. Memory'
  BY <1>1, <1>2, <1>4 DEF Store, Memory
<1>7. Sockets'
  BY <1>1, <1>2, <1>3 DEF Store, Sockets
<1>8. Inviting'
  BY <1>1, <1>2, ListedAreIds DEF Store, Inviting, Types, SessionsOK
<1>9. Callbacks'
  BY <1>1, <1>2, ListedAreIds DEF Store, Callbacks, Types, SessionsOK
<1> QED
  BY <1>2, <1>5, <1>6, <1>7, <1>8, <1>9 DEF Store

LEMMA CreateList ==
  ASSUME Types, Store, last < MaxSessions, NEW st \in Waiting, NEW m \in Mode,
         Create(last + 1, st, m), UNCHANGED <<hasCb, freed, late>>
  PROVE  /\ last + 1 \in Id /\ last' = last + 1
         /\ Listed' = Listed \cup {last + 1} /\ last + 1 \notin Listed
         /\ Sorted(list)' /\ Memory'
         /\ state'[last + 1] = st /\ open'[last + 1] /\ mode'[last + 1] = m
         /\ \A t \in Id : t # last + 1 =>
              state'[t] = state[t] /\ open'[t] = open[t] /\ mode'[t] = mode[t]
<1>1. last + 1 \in Id /\ last \in Nat
  BY BoundAssumption DEF Types, SessionsOK, Id
<1>2. \A t \in Listed : t \in Nat /\ t < last + 1
  BY <1>1 DEF Store, Created
<1>3. Sorted(list)' /\ Listed' = Listed \cup {last + 1}
  BY <1>1, <1>2, CreatedIs DEF Create, Types, SessionsOK, Store, Listed
<1>4. /\ state'[last + 1] = st /\ open'[last + 1] /\ mode'[last + 1] = m
      /\ \A t \in Id : t # last + 1 =>
           state'[t] = state[t] /\ open'[t] = open[t] /\ mode'[t] = mode[t]
  BY <1>1 DEF Create, Types, SessionsOK
<1>5. Memory'
  <2> SUFFICES ASSUME NEW t \in Id
               PROVE  freed[t] = IF t <= last + 1 /\ t \notin Listed' THEN 1 ELSE 0
    BY DEF Memory, Create
  <2>1. t \in Nat
    BY DEF Id
  <2> QED
    BY <1>1, <1>2, <1>3, <2>1 DEF Store, Memory
<1> QED
  BY <1>1, <1>2, <1>3, <1>4, <1>5 DEF Create

-----------------------------------------------------------------------------
(* What the helpers do to the walk. *)

Ends == {"timeout", "finished", "received", "failed"}

(* A callback is begun: it is one that is set, for a session that is alive. *)
LEMMA CallWalks ==
  ASSUME Types, Store, Walking, NEW w \in Whys, Call(w),
         pc \in {"pre", "in", "out"}, cur # Nobody, cur # app,
         hasCb[cur], state[cur] \in Answering, state'[cur] \in Answering,
         \A t \in Id : t # cur => state'[t] = state[t],
         w = "data" => state'[cur] = "CONNECTED",
         w \in {"timeout", "finished"} => pc = "pre" /\ (app # Nobody => cur < app),
         UNCHANGED <<list, last, app>>
  PROVE  Walking'
<1>1. cur \in Listed /\ cur \in Id /\ cur <= last /\ last \in Nat
  BY ListedAndAlive DEF Walking, Walk, Types, SessionsOK
<1>2. Listed' = Listed
  BY ListedSame
<1>3. pc' = "call" /\ why' = w /\ cur' = cur
  BY DEF Call
<1>4. Walk'
  BY <1>1, <1>2, <1>3 DEF Walk
<1>5. Telling'
  <2>1. ASSUME w \in {"timeout", "finished"}
        PROVE  next' \in Listed \cup {Nobody} /\ next' < cur
    BY <1>1, <2>1, FollowingIs DEF Call, Types, SessionsOK, Store
  <2>2. state'[cur] # "INIT" /\ state'[cur] # "REMOVED"
    BY DEF Answering, Waiting, Linked
  <2> QED
    BY <1>2, <1>3, <2>1, <2>2 DEF Telling
<1>6. Told'
  <2>1. told' \subseteq 1..last
    BY <1>1 DEF Call, Walking, Told, Id
  <2>2. ASSUME NEW t \in told' \cap Listed, ~(t = cur /\ w \in Ends) PROVE state'[t] = "REMOVED"
    <3>1. t \in told /\ t \in Id
      BY <2>2, ListedAreIds DEF Call, Ends, Types, SessionsOK
    <3>2. state[t] = "REMOVED"
      BY <2>2, <3>1 DEF Walking, Told
    <3>3. t # cur
      BY <3>2 DEF Answering, Waiting, Linked
    <3> QED
      BY <3>1, <3>2, <3>3
  <2> QED
    BY <1>2, <1>3, <2>1, <2>2 DEF Told, Ends
<1> QED
  BY <1>4, <1>5, <1>6 DEF Walking

(* The worker goes on, and calls nothing: who was told of is removed. *)
LEMMA GoesOn ==
  ASSUME Types, Walking,
         pc' \notin {"call", "checked", "crashed"},
         pc' \in {"pre", "in", "out"} => cur' \in Listed' \cup {Nobody},
         pc' = "pre" => lock', pc' = "over" => app' = Nobody,
         told' = told, last <= last', last' \in Nat,
         \A t \in told \cap Listed' : state'[t] = "REMOVED"
  PROVE  Walking'
<1>1. Walk' /\ Telling'
  BY DEF Walk, Telling
<1>2. Told'
  <2>1. told \subseteq 1..last'
    BY DEF Walking, Told, Types, SessionsOK
  <2> QED
    BY <2>1 DEF Told
<1> QED
  BY <1>1, <1>2 DEF Walking

LEMMA ToldStays ==
  ASSUME Types, Walking, pc # "call", Listed' \subseteq Listed,
         \A t \in Listed' : state[t] = "REMOVED" => state'[t] = "REMOVED"
  PROVE  \A t \in told \cap Listed' : state'[t] = "REMOVED"
BY DEF Walking, Told

LEMMA AdvanceWalks ==
  ASSUME Types, Walking, Advance, UNCHANGED <<list, last>>,
         \A t \in told \cap Listed : state'[t] = "REMOVED"
  PROVE  Walking'
<1>1. cur' \in Listed \cup {Nobody} /\ pc' = "in" /\ told' = told
  BY FollowingIs DEF Advance, Types, SessionsOK
<1>2. Listed' = Listed /\ last \in Nat
  BY ListedSame DEF Types, SessionsOK
<1> QED
  BY <1>1, <1>2, GoesOn

(* A step of the worker that neither calls nor touches a session. *)
LEMMA WorkerOnly ==
  ASSUME Types, Safe, UNCHANGED <<sessions, late, app, told>>, pc # "call",
         pc' \notin {"call", "checked", "crashed"},
         pc' \in {"pre", "in", "out"} => cur' \in Listed \cup {Nobody},
         pc' = "pre" => lock', pc' = "over" => app' = Nobody
  PROVE  Safe'
<1>1. Store'
  BY StoreSame DEF Safe
<1>2. Listed' = Listed /\ last' = last /\ state' = state /\ last \in Nat
  BY ListedSame DEF sessions, Types, SessionsOK
<1>3. \A t \in told \cap Listed' : state'[t] = "REMOVED"
  BY <1>2, ToldStays DEF Safe
<1>4. Walking'
  BY <1>2, <1>3, GoesOn DEF Safe
<1> QED
  BY <1>1, <1>4 DEF Safe

-----------------------------------------------------------------------------
(* The worker's steps. *)

LEMMA AddDescriptorsSafe == ASSUME Types, Safe, AddDescriptors PROVE Safe'
<1> USE DEF Safe
<1>0. pc = "pre" => cur \in Listed \cup {Nobody} /\ lock
  BY DEF Walking, Walk
<1>1. CASE Begin
  BY <1>1, WorkerOnly, FirstListed DEF Begin, Types, SessionsOK
<1>2. ASSUME NEW w \in {"timeout", "finished"}, Call(w), pc = "pre", cur # Nobody,
             state[cur] \in Answering, cur # app, app # Nobody => cur < app,
             UNCHANGED <<sessions, late, app>>
      PROVE  Safe'
  <2>1. Store'
    BY <1>2, StoreSame
  <2>2. hasCb[cur] /\ UNCHANGED <<state, list, last>>
    BY <1>0, <1>2, ListedAndAlive DEF sessions
  <2>3. w \in Whys
    BY DEF Whys
  <2>4. Walking'
    BY <1>2, <2>2, <2>3, CallWalks
  <2> QED
    BY <2>1, <2>4
<1>3. CASE Timeout
  <2>1. cur \in late /\ state[cur] \in Answering
    BY <1>3 DEF Timeout, TimedOut, Answering
  <2>2. app # Nobody => cur < app
    BY <2>1 DEF Store, Inviting
  <2>3. cur # app
    BY <1>3, <2>2 DEF Timeout, Types, OthersOK, Nobody, Id
  <2> QED
    BY <1>2, <1>3, <2>1, <2>2, <2>3 DEF Timeout
<1>4. CASE FileEnds
  <2>1. state[cur] = "CONNECTED" /\ mode[cur] = "SENDFILE" /\ cur # Nobody /\ pc = "pre"
    BY <1>4 DEF FileEnds
  <2>2. cur # app
    BY <2>1 DEF Store, Inviting
  <2>3. cur \in Id
    BY <2>1 DEF Types, WorkerOK
  <2>4. app # Nobody => cur < app
    <3> SUFFICES ASSUME app # Nobody PROVE ~(cur > app)
      BY <2>2, <2>3 DEF Types, OthersOK, Id
    <3> QED
      BY <2>1, <2>3 DEF Store, Inviting
  <2>5. state[cur] \in Answering
    BY <2>1 DEF Answering, Linked
  <2> QED
    BY <1>2, <1>4, <2>1, <2>2, <2>4, <2>5 DEF FileEnds
<1>5. ASSUME Remove(cur, 1), cur' = Following(cur), pc = "pre", cur \in Listed, cur # app,
             UNCHANGED <<last, state, mode, hasCb, lock, pc, late, app, told>>
      PROVE  Safe'
  <2>1. Store' /\ Listed' = Listed \ {cur}
    BY <1>5, RemoveStore
  <2>2. cur \in Id /\ last \in Nat
    BY <1>5, ListedAndAlive DEF Types, SessionsOK
  <2>3. cur' \in Listed' \cup {Nobody}
    <3>1. Following(cur) \in Listed \cup {Nobody} /\ Following(cur) < cur
      BY <2>2, FollowingIs DEF Types, SessionsOK, Store
    <3>2. Following(cur) # cur
      BY <2>2, <3>1 DEF Id
    <3> QED
      BY <1>5, <2>1, <3>1, <3>2
  <2>4. Walking'
    BY <1>0, <1>5, <2>1, <2>2, <2>3, ToldStays, GoesOn
  <2> QED
    BY <2>1, <2>4
<1>6. CASE DropRequest
  <2>1. cur # app
    BY <1>6 DEF DropRequest, Store, Inviting
  <2> QED
    BY <1>0, <1>5, <1>6, <2>1 DEF DropRequest
<1>7. CASE CleanUp
  <2>1. cur # app
    BY <1>7 DEF CleanUp, Store, Inviting
  <2> QED
    BY <1>0, <1>5, <1>7, <2>1 DEF CleanUp
<1>8. CASE Keep
  BY <1>0, <1>8, WorkerOnly, FollowingIs DEF Keep, Types, SessionsOK
<1>9. CASE Select
  BY <1>9, WorkerOnly DEF Select
<1> QED
  BY <1>1, <1>3, <1>4, <1>6, <1>7, <1>8, <1>9 DEF AddDescriptors

(* A callback for a linked session, whose data is served after select. *)
LEMMA CallLinked ==
  ASSUME Types, Safe, NEW w \in Whys \ {"timeout", "finished"}, Call(w),
         pc \in {"in", "out"}, cur # Nobody, state[cur] \in Linked,
         w = "data" => state[cur] = "CONNECTED",
         UNCHANGED <<sessions, late, app>>
  PROVE  Safe'
<1>1. cur # app /\ state[cur] \in Answering
  BY DEF Safe, Store, Inviting, Linked, Answering
<1>2. cur \in Listed
  BY DEF Safe, Walking, Walk
<1>3. hasCb[cur] /\ UNCHANGED <<state, list, last>>
  BY <1>1, <1>2, ListedAndAlive DEF Safe, sessions
<1>4. Walking'
  BY <1>1, <1>3, CallWalks DEF Safe
<1> QED
  BY <1>4, StoreSame DEF Safe

LEMMA ProcessSafe == ASSUME Types, Safe, ProcessDescriptors, ~spoiled' PROVE Safe'
<1> USE DEF Safe
<1>0. /\ pc \in {"in", "out"} => cur \in Listed \cup {Nobody}
      /\ pc = "out" => cur # Nobody
      /\ \A t \in Listed : t \in Id
      /\ last \in Nat
  BY ListedAreIds DEF Walking, Walk, Types, WorkerOK, SessionsOK
<1>1. CASE BeginWalk
  BY <1>1, WorkerOnly, FirstListed DEF BeginWalk, Types, SessionsOK
<1>2. ASSUME Answered, cur # Nobody, pc = "in", cur # app
      PROVE  cur \in Listed /\ hasCb[cur] /\ state[cur] \in Answering /\ state[cur] # "REMOVED"
  BY <1>0, <1>2, ListedAndAlive DEF Answered, Answering, Waiting, Linked
<1>3. CASE Succeeds
  <2>1. cur # app /\ Answered /\ cur # Nobody /\ pc = "in"
    BY <1>3, Zenon DEF Succeeds
  <2>2. cur \in Listed /\ hasCb[cur] /\ state[cur] \in Answering /\ state[cur] # "REMOVED"
    BY <1>2, <2>1
  <2>3. "CONNECTED" \in Answering
    BY DEF Answering, Linked
  <2>4. /\ state' = [state EXCEPT ![cur] = "CONNECTED"]
        /\ UNCHANGED <<list, last, mode, open, hasCb, freed, late, app>>
    BY <1>3 DEF Succeeds
  <2>5. Store'
    BY <2>1, <2>2, <2>3, <2>4, SetStateStore
  <2>6. state'[cur] = "CONNECTED" /\ \A t \in Id : t # cur => state'[t] = state[t]
    BY <1>0, <2>2, <2>4 DEF Types, SessionsOK
  <2>7. CASE Call("connected")
    BY <2>1, <2>2, <2>3, <2>4, <2>5, <2>6, <2>7, CallWalks DEF Whys
  <2>8. CASE pc' = "out" /\ UNCHANGED <<lock, cur, next, why, inset, outset, told>>
    <3>1. Listed' = Listed
      BY <2>4, ListedSame
    <3>2. \A t \in told \cap Listed' : state'[t] = "REMOVED"
      BY <1>0, <2>1, <2>2, <2>6, <3>1, ToldStays
    <3> QED
      BY <1>0, <2>1, <2>2, <2>4, <2>5, <2>8, <3>1, <3>2, GoesOn
  <2> QED
    BY <1>3, <2>7, <2>8 DEF Succeeds
<1>4. CASE FailsChat
  <2>1. cur # app /\ Answered /\ cur # Nobody /\ pc = "in"
    BY <1>4, Zenon DEF FailsChat
  <2>2. hasCb[cur] /\ state[cur] \in Answering
    BY <1>2, <2>1
  <2>3. UNCHANGED <<state, list, last, app>>
    BY <1>4 DEF FailsChat, sessions
  <2>4. Walking'
    BY <1>4, <2>1, <2>2, <2>3, CallWalks DEF FailsChat, Whys
  <2> QED
    BY <1>4, <2>4, StoreSame DEF FailsChat
<1>5. CASE FailsFile
  <2>1. cur # app /\ Answered /\ cur # Nobody /\ pc = "in"
    BY <1>5, Zenon DEF FailsFile
  <2>2. cur \in Listed
    BY <1>2, <2>1
  <2>3. Store'
    BY <1>5, <2>1, <2>2, DestroyStore DEF FailsFile
  <2>4. \A t \in Listed : state[t] = "REMOVED" => state'[t] = "REMOVED"
    BY <1>0, <1>5 DEF FailsFile, Destroy, Types, SessionsOK
  <2>5. \A t \in told \cap Listed : state'[t] = "REMOVED"
    BY <2>1, <2>4 DEF Walking, Told
  <2> QED
    BY <1>5, <2>3, <2>5, AdvanceWalks DEF FailsFile
<1>6. CASE RecvFails
  BY <1>6, CallLinked DEF RecvFails, Readable, Whys
<1>7. CASE RecvConfirm
  <2>1. PICK st \in Linked : state' = [state EXCEPT ![cur] = st]
    BY <1>7 DEF RecvConfirm
  <2>2. cur \in Listed /\ cur # app /\ state[cur] \in Answering /\ state[cur] # "REMOVED"
    BY <1>0, <1>7 DEF RecvConfirm, Readable, Linked, Answering, Store, Inviting
  <2>3. st \in Answering /\ hasCb[cur]
    BY <2>2, ListedAndAlive DEF Answering
  <2>4. Store'
    BY <1>7, <2>1, <2>2, <2>3, SetStateStore DEF RecvConfirm
  <2>5. Listed' = Listed /\ \A t \in Listed : state[t] = "REMOVED" => state'[t] = "REMOVED"
    BY <1>0, <1>7, <2>1, <2>2, ListedSame DEF RecvConfirm, Types, SessionsOK
  <2>6. \A t \in told \cap Listed' : state'[t] = "REMOVED"
    BY <1>7, <2>5, ToldStays DEF RecvConfirm, Readable
  <2> QED
    BY <1>0, <1>7, <2>2, <2>4, <2>5, <2>6, GoesOn DEF RecvConfirm, Readable
<1>8. CASE RecvData
  BY <1>8, CallLinked DEF RecvData, Readable, Whys
<1>9. CASE NothingIn
  BY <1>0, <1>9, WorkerOnly DEF NothingIn
<1>10. CASE SendFails
  BY <1>0, <1>10, CallLinked DEF SendFails, Writable, Whys
<1>11. ASSUME NEW st \in Linked, Writable, state' = [state EXCEPT ![cur] = st],
              UNCHANGED <<list, last, mode, open, hasCb, freed, late, app>>
       PROVE  /\ Store' /\ cur \in Listed /\ cur # app /\ cur # Nobody /\ hasCb[cur]
              /\ state[cur] \in Answering /\ state'[cur] \in Answering
              /\ \A t \in Id : t # cur => state'[t] = state[t]
              /\ \A t \in told \cap Listed : state'[t] = "REMOVED"
  <2>1. /\ cur \in Listed /\ cur # Nobody /\ cur # app
        /\ state[cur] \in Answering /\ state[cur] # "REMOVED"
    BY <1>0, <1>11 DEF Writable, Linked, Answering, Store, Inviting
  <2>2. hasCb[cur] /\ st \in Answering
    BY <2>1, ListedAndAlive DEF Answering
  <2>3. Store'
    BY <1>11, <2>1, <2>2, SetStateStore
  <2>4. state'[cur] = st /\ \A t \in Id : t # cur => state'[t] = state[t]
    BY <1>0, <1>11, <2>1 DEF Types, SessionsOK
  <2>5. \A t \in told \cap Listed : state'[t] = "REMOVED"
    BY <1>0, <1>11, <2>1, <2>4 DEF Writable, Walking, Told
  <2> QED
    BY <2>1, <2>2, <2>3, <2>4, <2>5
<1>12. CASE SendChunk
  BY <1>11, <1>12, CallWalks DEF SendChunk, Writable, Linked, Whys
<1>13. CASE SendConfirm
  BY <1>11, <1>13, AdvanceWalks DEF SendConfirm, Linked
<1>14. CASE Received
  BY <1>0, <1>14, CallLinked DEF Received, Writable, Whys
<1>15. CASE Pass
  <2>1. UNCHANGED <<list, last, state>> /\ pc = "out"
    BY <1>15 DEF Pass, sessions
  <2>2. \A t \in told \cap Listed : state'[t] = "REMOVED"
    BY <2>1 DEF Walking, Told
  <2>3. Walking'
    BY <1>15, <2>1, <2>2, AdvanceWalks DEF Pass
  <2> QED
    BY <1>15, <2>3, StoreSame DEF Pass
<1>16. CASE EndWalk
  BY <1>16, WorkerOnly DEF EndWalk
<1> QED
  BY <1>1, <1>3, <1>4, <1>5, <1>6, <1>7, <1>8, <1>9, <1>10, <1>12, <1>13, <1>14, <1>15, <1>16
  DEF ProcessDescriptors

LEMMA AfterCallSafe == ASSUME Types, Safe, AfterCall PROVE Safe'
<1> USE DEF Safe
<1>0. /\ pc \in {"call", "checked"}
      /\ cur \in Listed /\ cur \in Id /\ cur # app /\ cur # Nobody
      /\ \A t \in Listed : t \in Id
      /\ last \in Nat
  <2>1. pc \in {"call", "checked"}
    BY DEF AfterCall, AfterTimeout, AfterFinished, AfterFailed, AfterConnected, AfterSent,
           AfterChat, Check, Confirm, AfterReceived
  <2> QED
    BY <2>1, ListedAreIds DEF Walking, Walk, Telling, Types, WorkerOK, SessionsOK
<1>1. \A t \in told \cap Listed : state[t] = "REMOVED" \/ (t = cur /\ pc = "call" /\ why \in Ends)
  BY DEF Walking, Told, Ends
(* The session told of is removed, and the walk goes on from its successor. *)
<1>2. ASSUME Remove(cur, 1), pc = "call", why \in {"timeout", "finished"},
             \A t \in Id : t # cur => state'[t] = state[t],
             lock', pc' = "pre", cur' = next,
             UNCHANGED <<last, mode, hasCb, late, app, told>>
      PROVE  Safe'
  <2>1. Store' /\ Listed' = Listed \ {cur}
    BY <1>0, <1>2, RemoveStore
  <2>2. cur' \in Listed' \cup {Nobody}
    <3>1. next \in Listed \cup {Nobody} /\ next < cur
      BY <1>2 DEF Walking, Telling
    <3>2. next # cur
      BY <1>0, <3>1 DEF Id
    <3> QED
      BY <1>2, <2>1, <3>1, <3>2
  <2>3. \A t \in told \cap Listed' : state'[t] = "REMOVED"
    BY <1>0, <1>1, <1>2, <2>1
  <2> QED
    BY <1>0, <1>2, <2>1, <2>2, <2>3, GoesOn
<1>3. CASE AfterTimeout
  <2>1. state[cur] # "REMOVED"
    BY <1>3 DEF AfterTimeout, Walking, Telling
  <2> QED
    BY <1>2, <1>3, <2>1 DEF AfterTimeout
<1>4. CASE AfterFinished
  <2>1. \A t \in Id : t # cur => state'[t] = state[t]
    BY <1>4 DEF AfterFinished, Types, SessionsOK
  <2> QED
    BY <1>2, <1>4, <2>1 DEF AfterFinished
(* It is destroyed, and the walk goes on. *)
<1>5. ASSUME Destroy(cur), Advance, UNCHANGED <<list, last, mode, hasCb, freed, late, app>>
      PROVE  Safe'
  <2>1. Store'
    BY <1>0, <1>5, DestroyStore
  <2>2. \A t \in told \cap Listed : state'[t] = "REMOVED"
    BY <1>0, <1>1, <1>5 DEF Destroy, Types, SessionsOK
  <2> QED
    BY <1>5, <2>1, <2>2, AdvanceWalks
<1>6. CASE AfterFailed
  BY <1>5, <1>6 DEF AfterFailed
<1>7. CASE AfterReceived
  BY <1>5, <1>7 DEF AfterReceived
(* It goes on, with the session as it is. *)
<1>8. ASSUME UNCHANGED <<sessions, late, app, told>>, why \notin Ends,
             pc' \in {"in", "out"}, cur' \in Listed \cup {Nobody}
      PROVE  Safe'
  <2>1. Listed' = Listed /\ state' = state /\ last' = last
    BY <1>8, ListedSame DEF sessions
  <2>2. \A t \in told \cap Listed' : state'[t] = "REMOVED"
    BY <1>1, <1>8, <2>1
  <2>3. Walking'
    BY <1>0, <1>8, <2>1, <2>2, GoesOn
  <2> QED
    BY <1>8, <2>3, StoreSame
<1>9. CASE AfterConnected
  BY <1>0, <1>8, <1>9 DEF AfterConnected, Ends
<1>10. CASE AfterSent
  BY <1>8, <1>10, FollowingIs DEF AfterSent, Advance, Ends, Types, SessionsOK
<1>11. CASE AfterChat
  BY <1>0, <1>8, <1>11 DEF AfterChat, Ends
<1>12. CASE Check
  <2>1. Listed' = Listed /\ UNCHANGED <<state, last, cur, lock, next, why, told, app>>
    BY <1>12, ListedSame DEF Check, sessions
  <2>2. state[cur] = "CONNECTED"
    BY <1>12 DEF Check, Walking, Telling
  <2>3. \A t \in told \cap Listed : state[t] = "REMOVED"
    BY <1>1, <1>12 DEF Check, Ends
  <2>4. Walk' /\ Telling' /\ Told'
    <3>1. pc' = "checked" /\ pc = "call"
      BY <1>12 DEF Check
    <3>2. Walk'
      BY <1>0, <2>1, <3>1 DEF Walk
    <3>3. Telling'
      BY <1>0, <2>1, <2>2, <3>1 DEF Telling
    <3>4. Told'
      BY <2>1, <2>3 DEF Told, Walking
    <3> QED
      BY <3>2, <3>3, <3>4
  <2> QED
    BY <1>12, <2>4, StoreSame DEF Check, Walking
<1>13. CASE Confirm
  <2>1. state[cur] = "CONNECTED" /\ "CONFIRM_SIZE" \in Answering /\ "CONNECTED" \in Answering
    BY <1>13 DEF Confirm, Walking, Telling, Answering, Linked
  <2>2. hasCb[cur]
    BY <1>0, <2>1, ListedAndAlive
  <2>3. Store'
    BY <1>0, <1>13, <2>1, <2>2, SetStateStore DEF Confirm
  <2>4. Listed' = Listed /\ \A t \in Listed : state[t] = "REMOVED" => state'[t] = "REMOVED"
    BY <1>0, <1>13, <2>1, ListedSame DEF Confirm, Types, SessionsOK
  <2>5. \A t \in told \cap Listed' : state'[t] = "REMOVED"
    BY <1>13, <2>4, ToldStays DEF Confirm
  <2> QED
    BY <1>0, <1>13, <2>3, <2>4, <2>5, GoesOn DEF Confirm
<1> QED
  BY <1>3, <1>4, <1>6, <1>7, <1>9, <1>10, <1>11, <1>12, <1>13 DEF AfterCall

(* A new session disturbs no walk: nobody is at it, and it is not told of.  *)
LEMMA NewcomerWalks ==
  ASSUME Types, Safe, UNCHANGED <<lock, pc, cur, next, why, told>>,
         last + 1 \in Id, last' = last + 1, Listed' = Listed \cup {last + 1},
         \A t \in Id : t # last + 1 => state'[t] = state[t],
         app' \in {app, last + 1}, pc # "over"
  PROVE  Walking'
<1> USE DEF Safe
<1>1. last \in Nat /\ \A t \in Listed : t \in Id /\ t <= last /\ t # last + 1
  BY ListedAndAlive DEF Types, SessionsOK
<1>2. pc \in {"pre", "in", "out", "call", "checked"} => cur \in Listed \cup {Nobody}
  BY DEF Walking, Walk
<1>3. pc \in {"call", "checked"} => cur \in Listed /\ cur \in Id /\ cur < last + 1
  BY <1>1, <1>2 DEF Types, WorkerOK, Id
<1>4. Walk'
  BY <1>2 DEF Walking, Walk
<1>5. Telling'
  BY <1>1, <1>3 DEF Walking, Telling
<1>6. Told'
  <2>1. told \subseteq 1..(last + 1)
    BY <1>1 DEF Walking, Told
  <2>2. \A t \in told \cap Listed' : t \in Listed
    BY <1>1 DEF Walking, Told
  <2> QED
    BY <1>1, <2>1, <2>2 DEF Walking, Told
<1> QED
  BY <1>4, <1>5, <1>6 DEF Walking

LEMMA RestSafe ==
  ASSUME Types, Safe, NoRequest \/ End \/ (\E m \in {"CHAT", "RECVFILE"} : Request(m))
                      \/ \E s \in Id : Expire(s)
  PROVE  Safe'
<1> USE DEF Safe
<1>0. last \in Nat /\ \A t \in Listed : t \in Id
  BY ListedAreIds DEF Types, SessionsOK
<1>1. CASE NoRequest
  BY <1>1, WorkerOnly DEF NoRequest
<1>2. CASE End
  <2>1. Listed' = {} /\ Sorted(list)'
    BY <1>2 DEF End, Listed, Members, Sorted
  <2>2. \A t \in Id : ~open'[t]
    <3> SUFFICES ASSUME NEW t \in Id PROVE ~open'[t]
      OBVIOUS
    <3>1. open'[t] <=> open[t] /\ t \notin Listed
      BY <1>2 DEF End, Listed
    <3>2. t # app
      BY <1>2 DEF End, Nobody, Id
    <3> QED
      BY <3>1, <3>2 DEF Store, Sockets
  <2>3. Memory'
    <3>1. \A t \in Id : freed'[t] = freed[t] + (IF t \in Listed THEN 1 ELSE 0)
      BY <1>2 DEF End, Listed
    <3>2. \A t \in Listed : t <= last
      BY <1>0 DEF Store, Created
    <3> QED
      BY <1>2, <2>1, <3>1, <3>2 DEF End, Store, Memory
  <2>4. Created'
    BY <1>2, <2>1, <2>2 DEF End, Store, Created
  <2>5. Sockets' /\ Inviting' /\ Callbacks'
    BY <1>2, <2>1, <2>2 DEF End, Sockets, Inviting, Callbacks
  <2>6. \A t \in told \cap Listed' : state'[t] = "REMOVED"
    BY <2>1
  <2>7. Walking'
    BY <1>0, <1>2, <2>6, GoesOn DEF End
  <2> QED
    BY <2>1, <2>3, <2>4, <2>5, <2>7 DEF Store
<1>3. ASSUME NEW m \in {"CHAT", "RECVFILE"}, Request(m) PROVE Safe'
  <2> DEFINE new == last + 1
  <2>1. /\ new \in Id /\ last' = new /\ Listed' = Listed \cup {new} /\ new \notin Listed
        /\ Sorted(list)' /\ Memory' /\ state'[new] = "INIT" /\ open'[new] /\ mode'[new] = m
        /\ \A t \in Id : t # new => state'[t] = state[t] /\ open'[t] = open[t] /\ mode'[t] = mode[t]
    <3>1. m \in Mode /\ "INIT" \in Waiting
      BY DEF Mode, Waiting
    <3>2. last < MaxSessions /\ Create(last + 1, "INIT", m) /\ UNCHANGED <<hasCb, freed, late>>
      BY <1>3 DEF Request
    <3> QED
      BY <3>1, <3>2, CreateList
  <2>2. UNCHANGED <<hasCb, late, app, told>> /\ pc = "irc" /\ pc' = "top"
    BY <1>3 DEF Request
  <2> HIDE DEF new
  <2>3. \A t \in Id : t # new /\ t > new => t > last
    BY <1>0 DEF new, Id
  <2>4. last <= new /\ last + 1 = new
    BY <1>0 DEF new
  <2>5. Created'
    <3>1. Listed' \subseteq 1..new /\ late \subseteq 1..new
      <4>1. 1..last \subseteq 1..new /\ new \in 1..new
        BY <1>0, <2>4
      <4>2. Listed \subseteq 1..last /\ late \subseteq 1..last
        BY DEF Store, Created
      <4> QED
        BY <2>1, <4>1, <4>2
    <3>2. ASSUME NEW t \in Id, t > new PROVE ~open'[t] /\ mode'[t] # "SENDFILE"
      <4>1. t > last /\ t # new
        BY <2>1, <2>3, <3>2 DEF Id
      <4> QED
        BY <2>1, <4>1 DEF Store, Created
    <3> QED
      BY <2>1, <2>2, <3>1, <3>2 DEF Created
  <2>6. app # new
    BY <1>0, <2>1, <2>4 DEF Store, Inviting, Nobody
  <2>7. Sockets'
    BY <2>1, <2>2, <2>6 DEF Store, Sockets
  <2>8. Inviting'
    BY <1>0, <2>1, <2>2, <2>6 DEF Store, Inviting
  <2>9. Callbacks'
    BY <1>0, <2>1, <2>2 DEF Store, Callbacks, Answering, Waiting, Linked
  <2>10. \A t \in told \cap Listed' : state'[t] = "REMOVED"
    <3>1. \A t \in told : t <= last /\ t # new
      BY <1>0, <2>4 DEF Walking, Told
    <3> QED
      BY <1>0, <2>1, <2>2, <3>1 DEF Walking, Told
  <2>11. Walking'
    BY <1>0, <2>1, <2>2, <2>4, <2>10, GoesOn DEF Types, SessionsOK
  <2> QED
    BY <2>1, <2>5, <2>7, <2>8, <2>9, <2>11 DEF Store
<1>4. ASSUME NEW s \in Id, Expire(s) PROVE Safe'
  <2>1. /\ s \in Listed /\ (app = Nobody \/ s < app)
        /\ late' = late \cup {s} /\ UNCHANGED <<sessions, worker, app>>
    BY <1>4 DEF Expire, Listed
  <2>2. Listed' = Listed /\ UNCHANGED <<list, last, state, mode, open, hasCb, freed, app>>
    BY <2>1, ListedSame DEF sessions
  <2>3. Store'
    BY <2>1, <2>2 DEF Store, Sorted, Created, Memory, Sockets, Inviting, Callbacks
  <2>4. Walking'
    BY <2>1, <2>2 DEF Walking, Walk, Telling, Told, worker
  <2> QED
    BY <2>3, <2>4
<1> QED
  BY <1>1, <1>2, <1>3, <1>4

-----------------------------------------------------------------------------
(* The application's steps. *)

(* The worker does not hold the mutex, nor walks without it. *)
LEMMA FreePlace ==
  ASSUME Types, Safe, Free, ~Unguarded
  PROVE  pc \notin {"pre", "in", "out", "over", "crashed"}
BY DEF Safe, Walking, Walk, Free, Unguarded

(* The worker stays where it is: what it has seen of sessions still holds. *)
LEMMA AppWalks ==
  ASSUME Types, Safe, UNCHANGED <<last, list, worker>>,
         app' \in {app, Nobody},
         \A t \in Listed : state[t] = "REMOVED" => state'[t] = "REMOVED",
         pc \in {"call", "checked"} =>
           \/ state'[cur] = state[cur]
           \/ pc = "call" /\ why # "timeout" /\ state'[cur] = "REMOVED"
  PROVE  Walking'
<1> USE DEF Safe
<1>1. /\ Listed' = Listed /\ UNCHANGED <<lock, pc, cur, next, why, told>>
      /\ app' # Nobody => app' = app
  BY ListedSame DEF worker
<1>2. Walk'
  BY <1>1 DEF Walking, Walk
<1>3. pc \in {"call", "checked"} => cur # Nobody
  BY DEF Types, WorkerOK
<1>4. Telling'
  BY <1>1, <1>3 DEF Walking, Telling
<1>5. Told'
  BY <1>1 DEF Walking, Told
<1> QED
  BY <1>2, <1>4, <1>5 DEF Walking

LEMMA ApplicationSafe == ASSUME Types, Safe, Application, ~spoiled' PROVE Safe'
<1> USE DEF Safe
<1>0. last \in Nat /\ \A t \in Listed : t \in Id
  BY ListedAreIds DEF Types, SessionsOK
<1>1. ASSUME NEW s \in Listed, s # app, Free, ~Unguarded, Destroy(s),
             pc # "checked" \/ s # cur, ~(pc = "call" /\ why = "timeout") \/ s # cur,
             \A t \in Id : t # s => hasCb'[t] = hasCb[t],
             UNCHANGED <<list, last, mode, freed, worker, late, app>>
      PROVE  Safe'
  <2>1. Store'
    BY <1>1, DestroyStore
  <2>2. state'[s] = "REMOVED" /\ \A t \in Id : t # s => state'[t] = state[t]
    BY <1>0, <1>1 DEF Destroy, Types, SessionsOK
  <2>3. pc \in {"call", "checked"} => cur \in Id
    BY DEF Types, WorkerOK
  <2>4. Walking'
    BY <1>0, <1>1, <2>2, <2>3, AppWalks
  <2> QED
    BY <2>1, <2>4
<1>2. ASSUME NEW s \in Id, AppDestroys(s) PROVE Safe'
  <2>1. s \in Listed /\ s # app /\ Free /\ Destroy(s)
    BY <1>2 DEF AppDestroys, Listed
  <2>2. ~(Unguarded \/ (s = cur /\ (pc = "checked" \/ (pc = "call" /\ why = "timeout"))))
    BY <1>2, Zenon DEF AppDestroys
  <2> QED
    BY <1>1, <1>2, <2>1, <2>2 DEF AppDestroys
(* A request is not the session of a callback, nor of an invitation. *)
<1>3. ASSUME NEW s \in Listed, state[s] = "INIT"
      PROVE  s # app /\ (pc \in {"call", "checked"} => s # cur)
  BY <1>0, <1>3 DEF Store, Inviting, Walking, Telling, Nobody, Id
<1>4. ASSUME NEW s \in Id, AppAccepts(s) PROVE Safe'
  <2>1. s \in Listed /\ state[s] = "INIT" /\ Free /\ hasCb' = [hasCb EXCEPT ![s] = TRUE]
    BY <1>4 DEF AppAccepts, Listed
  <2>2. ~Unguarded
    BY <1>4, Zenon DEF AppAccepts
  <2>3. s # app /\ (pc \in {"call", "checked"} => s # cur)
    BY <1>3, <2>1
  <2>4. hasCb'[s] /\ \A t \in Id : t # s => hasCb'[t] = hasCb[t]
    BY <2>1 DEF Types, SessionsOK
  <2>5. UNCHANGED <<list, last, mode, freed, worker, late, app>>
    BY <1>4 DEF AppAccepts
  <2>6. CASE Destroy(s)
    BY <1>1, <2>1, <2>2, <2>3, <2>4, <2>5, <2>6
  <2>7. CASE state' = [state EXCEPT ![s] = "CONNECTING"] /\ UNCHANGED open
    <3>1. "CONNECTING" \in Answering
      BY DEF Answering, Waiting
    <3>2. Store'
      BY <2>1, <2>3, <2>4, <2>5, <2>7, <3>1, SetStateStore
    <3>3. \A t \in Id : t # s => state'[t] = state[t]
      BY <2>7 DEF Types, SessionsOK
    <3>4. \A t \in Listed : state[t] = "REMOVED" => state'[t] = "REMOVED"
      BY <1>0, <2>1, <3>3
    <3>5. pc \in {"call", "checked"} => state'[cur] = state[cur]
      BY <2>3, <3>3 DEF Types, WorkerOK
    <3>6. Walking'
      BY <2>5, <3>4, <3>5, AppWalks
    <3> QED
      BY <3>2, <3>6
  <2> QED
    BY <1>4, <2>6, <2>7 DEF AppAccepts
<1>5. ASSUME NEW s \in Id, AppDeclines(s) PROVE Safe'
  <2>1. s \in Listed /\ state[s] = "INIT" /\ Free /\ Destroy(s)
    BY <1>5 DEF AppDeclines, Listed
  <2>2. ~Unguarded
    BY <1>5, Zenon DEF AppDeclines
  <2>3. s # app /\ (pc \in {"call", "checked"} => s # cur)
    BY <1>3, <2>1
  <2> QED
    BY <1>1, <1>5, <2>1, <2>2, <2>3 DEF AppDeclines
<1>6. ASSUME NEW m \in {"CHAT", "SENDFILE"}, Invite(m) PROVE Safe'
  <2> DEFINE new == last + 1
  <2>1. /\ new \in Id /\ last' = new /\ Listed' = Listed \cup {new} /\ new \notin Listed
        /\ Sorted(list)' /\ Memory' /\ state'[new] = "LISTENING" /\ open'[new] /\ mode'[new] = m
        /\ \A t \in Id : t # new => state'[t] = state[t] /\ open'[t] = open[t] /\ mode'[t] = mode[t]
    <3>1. m \in Mode /\ "LISTENING" \in Waiting
      BY DEF Mode, Waiting
    <3>2. last < MaxSessions /\ Create(last + 1, "LISTENING", m) /\ UNCHANGED <<hasCb, freed, late>>
      BY <1>6 DEF Invite
    <3> QED
      BY <3>1, <3>2, CreateList
  <2>2. UNCHANGED <<hasCb, late, worker>> /\ app' = new /\ app = Nobody /\ Free
    BY <1>6 DEF Invite
  <2>3. Walking'
    BY <2>1, <2>2, NewcomerWalks DEF Free, worker
  <2> HIDE DEF new
  <2>4. last <= new /\ last + 1 = new /\ 1..last \subseteq 1..new /\ new \in 1..new
    BY <1>0 DEF new
  <2>5. \A t \in Id : t > new => t > last /\ t # new
    BY <1>0, <2>4 DEF Id
  <2>6. Created'
    <3>1. Listed \subseteq 1..last /\ late \subseteq 1..last
      BY DEF Store, Created
    <3>2. Listed' \subseteq 1..new /\ late \subseteq 1..new
      BY <2>1, <2>4, <3>1
    <3>3. ASSUME NEW t \in Id, t > new PROVE ~open'[t] /\ mode'[t] # "SENDFILE"
      BY <2>1, <2>5, <3>3 DEF Store, Created
    <3> QED
      BY <2>1, <2>2, <3>2, <3>3 DEF Created
  <2>7. \A t \in Id : t # app
    BY <2>2 DEF Nobody, Id
  <2>8. Sockets'
    BY <2>1, <2>2, <2>7 DEF Store, Sockets
  <2>9. Inviting'
    <3>1. \A t \in late : t < new
      BY <1>0, <2>4 DEF Store, Created
    <3>2. \A t \in Id : t > new => mode'[t] # "SENDFILE"
      BY <2>1, <2>5 DEF Store, Created
    <3> QED
      BY <2>1, <2>2, <3>1, <3>2 DEF Inviting
  <2>10. Callbacks'
    BY <1>0, <2>1, <2>2, <2>7 DEF Store, Callbacks, Answering, Waiting, Linked
  <2> QED
    BY <2>1, <2>3, <2>6, <2>8, <2>9, <2>10 DEF Store
<1>7. CASE InviteSucceeds
  <2>1. /\ app # Nobody /\ open[app] /\ app' = Nobody /\ hasCb' = [hasCb EXCEPT ![app] = TRUE]
        /\ UNCHANGED <<list, last, state, mode, open, freed, worker, late>>
    BY <1>7 DEF InviteSucceeds
  <2>2. Listed' = Listed
    BY <2>1, ListedSame
  <2>3. app \in Listed /\ state[app] = "LISTENING" /\ app \in Id
    BY <1>0, <2>1 DEF Store, Inviting
  <2>4. hasCb'[app] /\ \A t \in Id : t # app => hasCb'[t] = hasCb[t]
    BY <2>1, <2>3 DEF Types, SessionsOK
  <2>5. Sorted(list)' /\ Created' /\ Memory'
    BY <2>1, <2>2 DEF Store, Sorted, Created, Memory
  <2>6. Sockets' /\ Inviting' /\ Callbacks'
    BY <1>0, <2>1, <2>2, <2>3, <2>4 DEF Store, Sockets, Inviting, Callbacks
  <2>7. Walking'
    BY <2>1, AppWalks
  <2> QED
    BY <2>5, <2>6, <2>7 DEF Store
<1>8. CASE InviteFails
  <2>1. /\ app # Nobody /\ open' = [open EXCEPT ![app] = FALSE]
        /\ UNCHANGED <<list, last, state, mode, hasCb, freed, worker, late, app>>
    BY <1>8 DEF InviteFails
  <2>2. Listed' = Listed
    BY <2>1, ListedSame
  <2>3. \A t \in Id : (t # app => open'[t] = open[t]) /\ (open'[t] => open[t])
    BY <2>1 DEF Types, SessionsOK
  <2>4. Sorted(list)' /\ Memory' /\ Inviting' /\ Callbacks'
    BY <2>1, <2>2 DEF Store, Sorted, Memory, Inviting, Callbacks
  <2>5. Created' /\ Sockets'
    BY <2>1, <2>2, <2>3 DEF Store, Created, Sockets
  <2>6. Walking'
    BY <2>1, AppWalks
  <2> QED
    BY <2>4, <2>5, <2>6 DEF Store
<1>9. CASE InviteUnlinks
  <2>1. /\ app # Nobody /\ ~open[app] /\ Free /\ Remove(app, 1) /\ app' = Nobody
        /\ UNCHANGED <<last, state, mode, hasCb, worker, late>>
    BY <1>9 DEF InviteUnlinks
  <2>2. ~Unguarded
    BY <1>9, Zenon DEF InviteUnlinks
  <2>3. pc \notin {"pre", "in", "out", "over", "crashed"}
    BY <2>1, <2>2, FreePlace
  <2>4. app \in Listed /\ app \in Id /\ app <= last /\ freed[app] = 0
    BY <2>1, ListedAndAlive DEF Store, Inviting
  <2>5. Sorted(list)' /\ Listed' = Listed \ {app}
    BY <2>1, WithoutIs DEF Store, Remove, Listed, Types, SessionsOK
  <2>6. ~open'[app] /\ \A t \in Id : t # app => open'[t] = open[t]
    BY <2>1, <2>4 DEF Types, SessionsOK, Remove
  <2>7. freed'[app] = 1 /\ \A t \in Id : t # app => freed'[t] = freed[t]
    BY <2>1, <2>4 DEF Types, SessionsOK, Remove
  <2>8. Created'
    BY <2>1, <2>5, <2>6 DEF Store, Created
  <2>9. Memory'
    BY <2>1, <2>4, <2>5, <2>7 DEF Store, Memory
  <2>10. Sockets' /\ Inviting'
    BY <2>1, <2>5, <2>6 DEF Store, Sockets, Inviting
  <2>11. Callbacks'
    BY <2>1, <2>5 DEF Store, Callbacks
  <2>12. Walking'
    <3>1. UNCHANGED <<lock, pc, cur, next, why, told>>
      BY <2>1 DEF worker
    <3>2. Walk'
      BY <2>1, <2>3, <2>5, <3>1 DEF Walking, Walk, Telling
    <3>3. pc = "call" /\ why \in {"timeout", "finished"} => next # app
      <4>1. pc = "call" /\ why \in {"timeout", "finished"} => next < cur /\ cur < app
        BY <2>1 DEF Walking, Telling
      <4> QED
        BY <2>4, <4>1 DEF Types, WorkerOK, Id, Nobody
    <3>4. Telling'
      BY <2>1, <2>5, <3>1, <3>3 DEF Walking, Telling, Types, WorkerOK
    <3>5. Told'
      BY <2>1, <2>5, <3>1 DEF Walking, Told
    <3> QED
      BY <3>2, <3>4, <3>5 DEF Walking
  <2> QED
    BY <2>5, <2>8, <2>9, <2>10, <2>11, <2>12 DEF Store
<1> QED
  BY <1>2, <1>4, <1>5, <1>6, <1>7, <1>8, <1>9 DEF Application

-----------------------------------------------------------------------------
(* Together. *)

(* What was spoiled stays so. *)
LEMMA SpoiledStays == ASSUME Next, spoiled PROVE spoiled'
<1>1. CASE AddDescriptors
  BY <1>1, Zenon DEF AddDescriptors, Begin, Timeout, DropRequest, FileEnds, CleanUp, Keep, Select
<1>2. CASE ProcessDescriptors
  BY <1>2, Zenon DEF ProcessDescriptors, BeginWalk, Succeeds, FailsChat, FailsFile, RecvFails,
    RecvConfirm, RecvData, NothingIn, SendFails, SendChunk, SendConfirm, Received, Pass, EndWalk
<1>3. CASE AfterCall
  BY <1>3, Zenon DEF AfterCall, AfterTimeout, AfterFinished, AfterFailed, AfterConnected, AfterSent,
    AfterChat, Check, Confirm, AfterReceived
<1>4. CASE Application
  BY <1>4, Zenon DEF Application, AppDestroys, AppAccepts, AppDeclines, Invite, InviteSucceeds,
    InviteFails, InviteUnlinks
<1>5. CASE NoRequest \/ End
  BY <1>5, Zenon DEF NoRequest, End
<1>6. CASE \E m \in {"CHAT", "RECVFILE"} : Request(m)
  BY <1>6, Zenon DEF Request
<1>7. CASE \E s \in Id : Expire(s)
  BY <1>7, Zenon DEF Expire
<1> QED
  BY <1>1, <1>2, <1>3, <1>4, <1>5, <1>6, <1>7 DEF Next, Turn

LEMMA NextSafe == ASSUME Types, Safe, Next, ~spoiled' PROVE Safe'
BY AddDescriptorsSafe, ProcessSafe, AfterCallSafe, ApplicationSafe, RestSafe DEF Next, Turn

LEMMA NextIInv == IInv /\ [Next]_vars => IInv'
<1> SUFFICES ASSUME IInv, [Next]_vars PROVE IInv'
  OBVIOUS
<1>1. Types'
  BY NextTypes DEF IInv
<1>2. CASE UNCHANGED vars
  <2>1. UNCHANGED <<sessions, worker, late, app, spoiled>>
    BY <1>2 DEF vars
  <2>2. Store => Store'
    BY <2>1, StoreSame
  <2>3. Walking => Walking'
    BY <2>1 DEF Walking, Walk, Telling, Told, worker, sessions, Listed
  <2> QED
    BY <1>1, <2>1, <2>2, <2>3 DEF IInv, Safe
<1>3. CASE Next
  <2>1. CASE spoiled'
    BY <1>1, <2>1 DEF IInv
  <2>2. CASE ~spoiled'
    <3>1. ~spoiled
      BY <1>3, <2>2, SpoiledStays
    <3> QED
      BY <1>1, <1>3, <2>2, <3>1, NextSafe DEF IInv
  <2> QED
    BY <2>1, <2>2
<1> QED
  BY <1>2, <1>3

LEMMA Invariance == Spec => []IInv
<1>1. Init => IInv
  BY InitTypes, InitSafe DEF IInv
<1>2. IInv /\ [Next]_vars => IInv'
  BY NextIInv
<1> QED
  BY <1>1, <1>2, PTL DEF Spec

(* Every variable of the list and of the worker's walk keeps its type,      *)
(* spoiled or not.                                                          *)
THEOREM Typing == Spec => []TypeOK
<1>1. IInv => TypeOK
  BY TypesAreTypeOK DEF IInv
<1> QED
  BY <1>1, Invariance, PTL

(* libirc_dcc_add_descriptors and libirc_dcc_process_descriptors (dcc.c)    *)
(* touch no session that was freed, free none twice and call no callback    *)
(* that is not set, for any number of sessions, unless a window was hit.    *)
THEOREM WalkIsSafe == Spec => []MemorySafe
<1>1. IInv => MemorySafe
  <2> SUFFICES ASSUME Types, Safe PROVE MemorySafe
    BY DEF IInv, MemorySafe
  <2> USE DEF Safe
  <2>1. FreedOnce
    BY DEF FreedOnce, Store, Memory
  <2>2. \A s \in Listed : freed[s] = 0
    BY ListedAndAlive
  <2>3. pc \notin {"top", "selected", "irc", "over"} /\ cur # Nobody => cur \in Listed
    BY DEF Walking, Walk, Types, WorkerOK, Steps
  <2>4. pc = "call" /\ why \in {"timeout", "finished"} /\ next # Nobody => next \in Listed
    BY DEF Walking, Telling
  <2>5. pc # "crashed"
    BY DEF Walking, Walk
  <2> QED
    BY <2>1, <2>2, <2>3, <2>4, <2>5 DEF MemorySafe
<1> QED
  BY <1>1, Invariance, PTL

(* select and FD_ISSET are given descriptors that are open, and no socket   *)
(* of a session that was destroyed stays open, for any number of sessions.  *)
THEOREM SocketsAreClosed == Spec => []SocketsMatch
<1>1. IInv => SocketsMatch
  BY DEF IInv, Safe, Store, Sockets, SocketsMatch, Listed
<1> QED
  BY <1>1, Invariance, PTL

(* A callback begins only for a session that is listed and alive, and such  *)
(* a one was not told of its end.                                           *)
THEOREM NoWordAfterTheLast == Spec => LastWord
<1>1. ASSUME IInv, Next, pc # "call", pc' = "call", ~spoiled PROVE ~Over(cur)
  <2> SUFFICES ASSUME Types, Safe PROVE ~Over(cur)
    BY <1>1 DEF IInv
  <2> USE DEF Safe
  <2>1. pc \in {"pre", "in", "out"} /\ cur # Nobody /\ state[cur] \in Answering
    <3> USE <1>1
    <3>1. CASE AddDescriptors
      BY <3>1 DEF AddDescriptors, Begin, Timeout, DropRequest, FileEnds, CleanUp, Keep, Select,
        TimedOut, Answering, Linked
    <3>2. CASE ProcessDescriptors
      BY <3>2 DEF ProcessDescriptors, BeginWalk, Succeeds, FailsChat, FailsFile, RecvFails,
        RecvConfirm, RecvData, NothingIn, SendFails, SendChunk, SendConfirm, Received, Pass,
        EndWalk, Advance, Answered, Readable, Writable, Answering, Waiting, Types, WorkerOK
    <3>3. ~AfterCall
      BY DEF AfterCall, AfterTimeout, AfterFinished, AfterFailed, AfterConnected, AfterSent,
        AfterChat, Check, Confirm, AfterReceived, Advance
    <3>4. ~NoRequest /\ ~End /\ ~ \E m \in {"CHAT", "RECVFILE"} : Request(m)
      BY DEF NoRequest, End, Request
    <3>5. ~Application /\ ~ \E s \in Id : Expire(s)
      BY DEF Application, AppDestroys, AppAccepts, AppDeclines, Invite, InviteSucceeds,
        InviteFails, InviteUnlinks, Expire, worker
    <3> QED
      BY <3>1, <3>2, <3>3, <3>4, <3>5 DEF Next, Turn
  <2>2. cur \in Listed
    BY <2>1 DEF Walking, Walk
  <2>3. freed[cur] = 0 /\ state[cur] # "REMOVED"
    BY <2>1, <2>2, ListedAndAlive DEF Answering, Waiting, Linked
  <2>4. cur \notin told
    BY <1>1, <2>2, <2>3 DEF Walking, Told
  <2> QED
    BY <2>3, <2>4 DEF Over
<1>2. IInv /\ [Next]_vars => (pc # "call" /\ pc' = "call" => spoiled \/ ~Over(cur))
  BY <1>1 DEF vars, worker
<1>3. IInv /\ [Next]_vars => [pc # "call" /\ pc' = "call" => spoiled \/ ~Over(cur)]_vars
  BY <1>2
<1> QED
  BY <1>3, Invariance, PTL DEF Spec, LastWord

=============================================================================
