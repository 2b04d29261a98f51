------------------------------ MODULE EventProofs ------------------------------
(***************************************************************************)
(* The safety properties of the two machines of events.c, EventDelivery    *)
(* and PingPong, for any kinds of events, any number of subscriptions and  *)
(* events, any set of senders and any clock.  A reply is to a live message *)
(* because its slot held a reference when the worker looked, and the only  *)
(* references dropped before the worker's end are those of the bus: so     *)
(* what has to be known is who holds what, and that a message is in one    *)
(* slot at most.  ping_mutex has one owner when it is locked and none when *)
(* it is not: each step takes it, passes it on, or gives it back.          *)
(***************************************************************************)
EXTENDS EventDelivery, PingPong, SequenceTheorems, TLAPS

(* A message that process_subscription has not stored yet is nowhere. *)
Fresh ==
  /\ At("idle") <=> main.message = NoMessage
  /\ main.message <= calls
  /\ \A k \in Kind : slot[k] <= calls
  /\ \A m \in Message, k \in Kind : <<m, k>> \in stored => m <= calls
  /\ main.at \in {"lookup", "ref"} => refs[main.message] = 1
  /\ main.at \in {"lookup", "ref", "store"} =>
       \A k \in Kind : slot[k] # main.message /\ <<main.message, k>> \notin stored

(* A message is stored once, for one kind, and only its own slot has it. *)
OneSlot ==
  /\ \A k \in Kind : slot[k] # NoMessage => <<slot[k], k>> \in stored
  /\ \A m \in Message, k, j \in Kind :
       <<m, k>> \in stored /\ <<m, j>> \in stored => k = j

(* The references are kept until the worker is at its end. *)
Kept == worker \in {"unclaimed", "running", "reply"} => todo = Kind

(* What the worker is about to reply to is as it found it. *)
Found ==
  worker = "reply" =>
    /\ count[event.kind] \in 1..MaxEvents
    /\ event.message # NoMessage =>
         /\ refs[event.message] >= IF main.message = event.message THEN 2 ELSE 1
         /\ <<event.message, event.kind>> \in stored
         /\ since[event.message] < count[event.kind]
         /\ count[event.kind] <= upto[event.message]

(* The span of events of a message: open as long as it is in its slot. *)
Span ==
  /\ \A m \in Message, k \in Kind : <<m, k>> \in stored =>
       /\ since[m] <= count[k]
       /\ slot[k] = m => upto[m] = MaxEvents
       /\ slot[k] # m => upto[m] <= count[k]
  /\ \A m \in Message : (\A k \in Kind : <<m, k>> \notin stored) =>
       got[m] = {} /\ upto[m] = MaxEvents

IInv == TypeOK /\ Fresh /\ OneSlot /\ Kept /\ Found /\ Span /\ NotOverdrawn /\ NoGap

-----------------------------------------------------------------------------
LEMMA InitIInv == Init => IInv
<1> SUFFICES ASSUME Init PROVE IInv
    OBVIOUS
<1> USE DEF Init, Message, NoMessage
<1>1. Idle.kind \in Kind /\ NoEvent.kind \in Kind
      BY KindAssumption DEF Idle, NoEvent
<1>2. TypeOK
      BY <1>1, BoundAssumption DEF TypeOK, Idle, NoEvent
<1>3. Fresh /\ OneSlot /\ Kept /\ Found /\ Span
      BY BoundAssumption DEF Fresh, OneSlot, Kept, Found, Span, At, Idle, NoEvent
<1>4. NotOverdrawn /\ NoGap
      BY BoundAssumption DEF NotOverdrawn, NoGap, ByMain, BySlot, At, Idle
<1> QED
    BY <1>2, <1>3, <1>4 DEF IInv

(* One more event changes nothing for a message that is no longer in its   *)
(* slot, and is the only change for one that is.                            *)
LEMMA OneMore ==
  ASSUME NEW first \in Nat, NEW n \in Nat, NEW last \in Nat
  PROVE  /\ {e \in first..(n + 1) : e <= last} \ {n + 1} = {e \in first..n : e <= last}
         /\ last <= n => {e \in first..(n + 1) : e <= last} = {e \in first..n : e <= last}
<1> QED
    OBVIOUS

LEMMA Covered ==
  ASSUME IInv, NEW m \in Message
  PROVE  /\ refs[m] \in Nat /\ ByMain(m) \in Nat /\ BySlot(m) \in Nat
         /\ refs[m] >= ByMain(m) + BySlot(m)
<1>1. refs[m] \in Nat
      BY DEF IInv, TypeOK
<1>2. ByMain(m) \in Nat /\ BySlot(m) \in Nat
      BY DEF ByMain, BySlot
<1> QED
    BY <1>1, <1>2 DEF IInv, NotOverdrawn

LEMMA CallKeeps ==
  ASSUME NEW k \in Kind, IInv, Call(k)
  PROVE  IInv'
<1> DEFINE new == calls + 1
<1> USE BoundAssumption DEF IInv, Call, TypeOK, Message, NoMessage, At
<1>1. /\ main.message = NoMessage
      /\ new \in Message /\ calls \in Nat
      /\ refs' = [refs EXCEPT ![new] = 1]
      /\ main' = [at |-> "lookup", message |-> new, kind |-> k]
      BY DEF Fresh
<1>2. /\ \A j \in Kind : slot[j] # new /\ <<new, j>> \notin stored
      /\ \A m \in Message, j \in Kind : <<m, j>> \in stored => m # new
  <2>1. \A j \in Kind : slot[j] # new
        BY DEF Fresh
  <2>2. \A m \in Message, j \in Kind : <<m, j>> \in stored => m # new
        BY DEF Fresh
  <2> QED
      BY <1>1, <2>1, <2>2
<1>3. TypeOK'
  <2>1. refs' \in [Message -> 0..2] /\ calls' \in 0..MaxCalls
        BY <1>1
  <2>2. main' \in [at : {"idle", "lookup", "ref", "store", "return"},
                  message : Message \cup {NoMessage}, kind : Kind]
        BY <1>1
  <2> QED
      BY <2>1, <2>2
<1>4. Fresh'
  <2>1. /\ main'.at = "lookup" /\ main'.message = new /\ refs'[new] = 1
        /\ calls' = new /\ new # 0 /\ slot' = slot /\ stored' = stored
        BY <1>1
  <2>2. \A j \in Kind : slot[j] \in Nat /\ slot[j] <= calls
        BY DEF Fresh
  <2>3. \A m \in Message, j \in Kind : <<m, j>> \in stored => m <= calls
        BY DEF Fresh
  <2>4. \A n \in Nat : n <= calls => n <= new
        BY <1>1
  <2>5. \A m \in Message, j \in Kind : <<m, j>> \in stored => m <= new
        BY <2>3, <2>4
  <2>6. \A j \in Kind : slot'[j] <= calls' /\ slot'[j] # main'.message
    <3> SUFFICES ASSUME NEW j \in Kind PROVE slot[j] <= new /\ slot[j] # new
        BY <2>1
    <3> QED
        BY <2>2, <2>4, <1>2
  <2>7. \A m \in Message, j \in Kind : <<m, j>> \in stored' => m <= calls'
        BY <2>1, <2>5
  <2>8. main'.message <= calls' /\ \A j \in Kind : <<main'.message, j>> \notin stored'
        BY <1>1, <1>2, <2>1
  <2> HIDE DEF new
  <2> QED
      BY <2>1, <2>6, <2>7, <2>8 DEF Fresh
<1>5. OneSlot' /\ Kept' /\ Span'
      BY DEF OneSlot, Kept, Span
<1>6. Found'
  <2> SUFFICES ASSUME worker = "reply" PROVE Found'
      BY DEF Found
  <2>1. CASE event.message = NoMessage
        BY <2>1 DEF Found
  <2>2. CASE event.message # NoMessage
    <3>1. event.message \in Message /\ event.message # new
          BY <2>2, <1>2 DEF Found
    <3>2. refs'[event.message] = refs[event.message] /\ main'.message # event.message
          BY <1>1, <3>1
    <3> QED
        BY <1>1, <2>2, <3>1, <3>2 DEF Found
  <2> QED
      BY <2>1, <2>2
<1>7. NotOverdrawn'
  <2> SUFFICES ASSUME NEW m \in Message
               PROVE  refs'[m] >= ByMain(m)' + BySlot(m)'
      BY DEF NotOverdrawn
  <2>1. main'.message = new /\ main'.at = "lookup"
        BY <1>1
  <2>2. CASE m = new
    <3>1. refs'[m] = 1 /\ BySlot(m)' = 0
          BY <1>1, <1>2, <2>2 DEF BySlot
    <3> QED
        BY <2>1, <2>2, <3>1 DEF ByMain
  <2>3. CASE m # new
    <3>1. refs'[m] = refs[m] /\ BySlot(m)' = BySlot(m)
          BY <1>1, <2>3 DEF BySlot
    <3>2. ByMain(m) = 0 /\ ByMain(m)' = 0
          BY <1>1, <2>1, <2>3 DEF ByMain
    <3> QED
        BY <3>1, <3>2 DEF NotOverdrawn
  <2> QED
      BY <2>2, <2>3
<1>8. NoGap'
      BY DEF NoGap
<1> QED
    BY <1>3, <1>4, <1>5, <1>6, <1>7, <1>8

LEMMA RefKeeps ==
  ASSUME IInv, Ref
  PROVE  IInv'
<1> DEFINE mine == main.message
<1> USE BoundAssumption DEF IInv, Ref, TypeOK, Message, NoMessage, At
<1>0. mine \in Message /\ refs[mine] = 1
      BY DEF Fresh
<1>1. mine \in Message /\ refs' = [refs EXCEPT ![mine] = 2]
      BY <1>0
<1>2. main' = [at |-> "store", message |-> mine, kind |-> main.kind]
      BY DEF Goes
<1>3. \A j \in Kind : slot[j] # mine /\ <<mine, j>> \notin stored
      BY DEF Fresh
<1> HIDE DEF Ref
<1>4. UNCHANGED <<listed, slot, calls, worker, event, todo, count, got, stored, since, upto>>
      BY DEF Ref
<1>5. TypeOK'
  <2>1. refs' \in [Message -> 0..2]
        BY <1>1
  <2>2. main' \in [at : {"idle", "lookup", "ref", "store", "return"},
                  message : Message \cup {NoMessage}, kind : Kind]
        BY <1>2
  <2> QED
      BY <1>4, <2>1, <2>2
<1>6. Fresh'
      BY <1>1, <1>2, <1>3, <1>4, SMTT(20) DEF Fresh
<1>7. OneSlot' /\ Kept' /\ Span'
      BY <1>4 DEF OneSlot, Kept, Span
<1>8. Found'
  <2> SUFFICES ASSUME worker = "reply", event.message # NoMessage PROVE Found'
      BY <1>4 DEF Found
  <2>1. event.message \in Message /\ event.message # mine
        BY <1>3 DEF Found
  <2>2. refs'[event.message] = refs[event.message] /\ main'.message # event.message
        BY <1>1, <1>2, <2>1
  <2> QED
      BY <1>4, <2>1, <2>2 DEF Found
<1>9. NotOverdrawn'
  <2> SUFFICES ASSUME NEW m \in Message
               PROVE  refs'[m] >= ByMain(m)' + BySlot(m)'
      BY <1>4 DEF NotOverdrawn
  <2>1. CASE m = mine
    <3>1. refs'[m] = 2 /\ BySlot(m)' = 0
          BY <1>1, <1>3, <1>4, <2>1 DEF BySlot
    <3> QED
        BY <1>2, <2>1, <3>1 DEF ByMain
  <2>2. CASE m # mine
    <3>1. refs'[m] = refs[m] /\ BySlot(m)' = BySlot(m)
          BY <1>1, <1>4, <2>2 DEF BySlot
    <3>2. ByMain(m) = 0 /\ ByMain(m)' = 0
          BY <1>2, <2>2 DEF ByMain
    <3> QED
        BY <3>1, <3>2 DEF NotOverdrawn
  <2> QED
      BY <2>1, <2>2
<1>10. NoGap'
       BY <1>4 DEF NoGap
<1> QED
    BY <1>5, <1>6, <1>7, <1>8, <1>9, <1>10

LEMMA LookupKeeps ==
  ASSUME IInv, Lookup
  PROVE  IInv'
<1>1. \E step \in {"ref", "return"} :
        main' = [at |-> step, message |-> main.message, kind |-> main.kind]
      BY DEF IInv, TypeOK, Lookup, Goes
<1>2. TypeOK' /\ Fresh'
      BY <1>1 DEF IInv, TypeOK, Fresh, Lookup, At, Message, NoMessage
<1>3. OneSlot' /\ Kept' /\ Span' /\ NoGap'
      BY DEF IInv, OneSlot, Kept, Span, NoGap, Lookup
<1>4. Found' /\ NotOverdrawn'
      BY <1>1 DEF IInv, TypeOK, Found, NotOverdrawn, ByMain, BySlot, Lookup, At
<1> QED
    BY <1>2, <1>3, <1>4 DEF IInv

(* The actions that touch neither the main loop's steps nor who holds what. *)
LEMMA QuietKeeps ==
  ASSUME IInv, Claim \/ Reap \/ Remove \/ Free \/ UNCHANGED vars
  PROVE  IInv'
<1> USE DEF IInv, Claim, Reap, Remove, Free, vars
<1>1. TypeOK'
      BY DEF TypeOK
<1>2. Fresh' /\ OneSlot' /\ Kept'
      BY DEF Fresh, OneSlot, Kept, At
<1>3. Found' /\ Span' /\ NotOverdrawn'
      BY DEF Found, Span, NotOverdrawn, ByMain, BySlot, At
<1>4. NoGap'
      BY DEF NoGap
<1> QED
    BY <1>1, <1>2, <1>3, <1>4

LEMMA StoreKeeps ==
  ASSUME IInv, Store
  PROVE  IInv'
<1> DEFINE mine == main.message
           kind == main.kind
           old  == slot[main.kind]
<1> USE BoundAssumption DEF IInv, TypeOK, Message, NoMessage, At
<1>1. /\ main.at = "store" /\ mine \in Message /\ kind \in Kind
      /\ \A j \in Kind : slot[j] # mine /\ <<mine, j>> \notin stored
      BY DEF Fresh, Store
<1>2. main' = [at |-> "return", message |-> mine, kind |-> kind]
      BY DEF Goes, Store
<1>3. /\ slot' = [slot EXCEPT ![kind] = mine]
      /\ stored' = stored \cup {<<mine, kind>>}
      /\ since' = [since EXCEPT ![mine] = count[kind]]
      /\ UNCHANGED <<listed, refs, calls, worker, event, todo, count, got>>
      BY DEF Store
<1>4. /\ upto' \in [Message -> 0..MaxEvents]
      /\ \A m \in Message : upto'[m] = IF m = old THEN count[kind] ELSE upto[m]
  <2>1. CASE old = NoMessage
    <3>1. upto' = upto
          BY <2>1 DEF Store
    <3> QED
        BY <2>1, <3>1
  <2>2. CASE old # NoMessage
    <3>1. upto' = [upto EXCEPT ![old] = count[kind]]
          BY <2>2 DEF Store
    <3> QED
        BY <1>1, <2>2, <3>1
  <2> QED
      BY <2>1, <2>2
<1>5. /\ \A k \in Kind : slot'[k] = IF k = kind THEN mine ELSE slot[k]
      /\ \A m \in Message : since'[m] = IF m = mine THEN count[kind] ELSE since[m]
      /\ \A m \in Message, k \in Kind :
           <<m, k>> \in stored' <=> <<m, k>> \in stored \/ (m = mine /\ k = kind)
      BY <1>1, <1>3
<1>0. \A m \in Message : m = old => <<m, kind>> \in stored
      BY <1>1 DEF OneSlot
<1>6. TypeOK'
  <2>1. /\ slot' \in [Kind -> Message \cup {NoMessage}]
        /\ since' \in [Message -> 0..MaxEvents] /\ stored' \subseteq Message \X Kind
        BY <1>1, <1>3
  <2>2. main' \in [at : {"idle", "lookup", "ref", "store", "return"},
                  message : Message \cup {NoMessage}, kind : Kind]
        BY <1>1, <1>2
  <2> QED
      BY <1>3, <1>4, <2>1, <2>2
<1>7. Fresh'
      BY <1>1, <1>2, <1>3, <1>5 DEF Fresh
<1>8. OneSlot' /\ Kept'
  <2>1. \A k \in Kind : slot'[k] # NoMessage => <<slot'[k], k>> \in stored'
        BY <1>1, <1>3, <1>5 DEF OneSlot
  <2>2. ASSUME NEW m \in Message, NEW k \in Kind, NEW j \in Kind,
               <<m, k>> \in stored', <<m, j>> \in stored'
        PROVE  k = j
    <3>1. CASE m = mine
          BY <1>1, <1>5, <2>2, <3>1
    <3>2. CASE m # mine
      <4>1. <<m, k>> \in stored /\ <<m, j>> \in stored
            BY <1>5, <2>2, <3>2
      <4> QED
          BY <4>1 DEF OneSlot
    <3> QED
        BY <3>1, <3>2
  <2>3. Kept'
        BY <1>3 DEF Kept
  <2> QED
      BY <2>1, <2>2, <2>3 DEF OneSlot
<1>9. Found'
  <2> SUFFICES ASSUME worker = "reply", event.message # NoMessage PROVE Found'
      BY <1>3 DEF Found
  <2>1. event.message \in Message /\ event.kind \in Kind /\ event.message # mine
        BY <1>1 DEF Found
  <2>2. since'[event.message] = since[event.message]
        BY <1>5, <2>1
  <2>3. count[event.kind] <= upto'[event.message]
    <3>1. CASE event.message = old
      <4>1. <<event.message, kind>> \in stored /\ <<event.message, event.kind>> \in stored
            BY <1>1, <3>1 DEF OneSlot, Found
      <4>2. kind = event.kind
            BY <1>1, <2>1, <4>1 DEF OneSlot
      <4> QED
          BY <1>4, <2>1, <3>1, <4>2
    <3>2. CASE event.message # old
          BY <1>4, <2>1, <3>2 DEF Found
    <3> QED
        BY <3>1, <3>2
  <2> QED
      BY <1>2, <1>3, <2>1, <2>2, <2>3 DEF Found
<1>10. Span'
  <2>1. \A m \in Message, k \in Kind : <<m, k>> \in stored' =>
          /\ since'[m] <= count[k]
          /\ slot'[k] = m => upto'[m] = MaxEvents
          /\ slot'[k] # m => upto'[m] <= count[k]
    <3> SUFFICES ASSUME NEW m \in Message, NEW k \in Kind, <<m, k>> \in stored'
                 PROVE  /\ since'[m] <= count[k]
                        /\ slot'[k] = m => upto'[m] = MaxEvents
                        /\ slot'[k] # m => upto'[m] <= count[k]
        OBVIOUS
    <3>1. CASE m = mine
      <4>1. k = kind /\ m # old /\ upto[m] = MaxEvents
            BY <1>1, <1>5, <3>1 DEF Span
      <4>2. slot'[k] = m /\ upto'[m] = MaxEvents /\ since'[m] = count[k]
            BY <1>4, <1>5, <3>1, <4>1
      <4> QED
          BY <4>2
    <3>2. CASE m # mine
      <4>1. <<m, k>> \in stored /\ since'[m] = since[m]
            BY <1>5, <3>2
      <4>2. CASE k = kind
        <5>1. slot'[k] # m
              BY <1>5, <3>2, <4>2
        <5>2. CASE m = old
          <6>1. upto'[m] = count[k] /\ count[k] \in Nat
                BY <1>1, <1>4, <4>2, <5>2
          <6>2. since[m] <= count[k]
                BY <4>1 DEF Span
          <6> QED
              BY <4>1, <5>1, <6>1, <6>2
        <5>3. CASE m # old
          <6>1. upto[m] <= count[k] /\ upto'[m] = upto[m] /\ since[m] <= count[k]
                BY <1>4, <4>1, <4>2, <5>3 DEF Span
          <6> QED
              BY <4>1, <5>1, <6>1
        <5> QED
            BY <5>2, <5>3
      <4>3. CASE k # kind
        <5>1. m # old
              BY <1>0, <1>1, <4>1, <4>3 DEF OneSlot
        <5> QED
            BY <1>4, <1>5, <4>1, <4>3, <5>1, SMTT(20) DEF Span
      <4> QED
          BY <4>2, <4>3
    <3> QED
        BY <3>1, <3>2
  <2>2. \A m \in Message : (\A k \in Kind : <<m, k>> \notin stored') =>
          got[m] = {} /\ upto'[m] = MaxEvents
    <3> SUFFICES ASSUME NEW m \in Message, \A k \in Kind : <<m, k>> \notin stored'
                 PROVE  got[m] = {} /\ upto'[m] = MaxEvents
        OBVIOUS
    <3>1. (\A k \in Kind : <<m, k>> \notin stored) /\ m # old
          BY <1>0, <1>1, <1>5
    <3> QED
        BY <1>4, <3>1 DEF Span
  <2> QED
      BY <1>3, <2>1, <2>2 DEF Span
<1>11. NotOverdrawn'
  <2> SUFFICES ASSUME NEW m \in Message
               PROVE  refs[m] >= ByMain(m)' + BySlot(m)'
      BY <1>3 DEF NotOverdrawn
  <2>1. CASE m = mine
    <3>1. BySlot(m)' \in 0..1 /\ ByMain(m)' = 1
          BY <1>2, <2>1 DEF BySlot, ByMain
    <3>2. ByMain(m) = 2 /\ BySlot(m) = 0
          BY <1>1, <2>1 DEF BySlot, ByMain
    <3> HIDE DEF mine, IInv, TypeOK, Message
    <3> QED
        BY <3>1, <3>2, Covered
  <2>2. CASE m # mine
    <3>1. ByMain(m) = 0 /\ ByMain(m)' = 0
          BY <1>2, <2>2 DEF ByMain
    <3>2. BySlot(m) \in 0..1 /\ BySlot(m)' \in 0..1 /\ BySlot(m)' <= BySlot(m)
          BY <1>3, <1>5, <2>2 DEF BySlot
    <3> HIDE DEF mine, IInv, TypeOK, Message
    <3> QED
        BY <3>1, <3>2, Covered
  <2> QED
      BY <2>1, <2>2
<1>12. NoGap'
  <2> SUFFICES ASSUME NEW m \in Message, NEW k \in Kind, <<m, k>> \in stored'
               PROVE  got[m] = {e \in (since'[m] + 1)..count[k] : e <= upto'[m]}
                                 \ (IF worker = "reply" /\ event.message = m THEN {count[k]} ELSE {})
      BY <1>3 DEF NoGap
  <2>1. CASE m = mine
    <3>1. k = kind /\ since'[m] = count[k] /\ got[m] = {}
      <4>1. \A j \in Kind : <<m, j>> \notin stored
            BY <1>1, <2>1
      <4>2. k = kind /\ since'[m] = count[k]
            BY <1>5, <2>1, <4>1
      <4> QED
          BY <4>1, <4>2 DEF Span
    <3>2. (count[k] + 1)..count[k] = {}
          OBVIOUS
    <3> QED
        BY <3>1, <3>2
  <2>2. CASE m # mine
    <3>1. <<m, k>> \in stored /\ since'[m] = since[m]
          BY <1>5, <2>2
    <3>2. got[m] = {e \in (since[m] + 1)..count[k] : e <= upto[m]}
                     \ (IF worker = "reply" /\ event.message = m THEN {count[k]} ELSE {})
          BY <3>1 DEF NoGap
    <3>3. CASE m = old
      <4>0. <<m, kind>> \in stored
            BY <1>1, <3>3 DEF OneSlot
      <4>1. k = kind /\ upto[m] = MaxEvents /\ upto'[m] = count[k]
        <5>1. k = kind
              BY <1>1, <3>1, <4>0 DEF OneSlot
        <5> QED
            BY <1>4, <3>1, <3>3, <5>1 DEF Span
      <4>2. {e \in (since[m] + 1)..count[k] : e <= upto[m]}
              = {e \in (since[m] + 1)..count[k] : e <= upto'[m]}
            BY <4>1, SMTT(20)
      <4> QED
          BY <3>1, <3>2, <4>2
    <3>4. CASE m # old
          BY <1>4, <3>1, <3>2, <3>4
    <3> QED
        BY <3>3, <3>4
  <2> QED
      BY <2>1, <2>2
<1> QED
    BY <1>6, <1>7, <1>8, <1>9, <1>10, <1>11, <1>12

LEMMA ReturnKeeps ==
  ASSUME IInv, Return
  PROVE  IInv'
<1> DEFINE mine == main.message
<1> USE BoundAssumption, KindAssumption DEF IInv, TypeOK, Message, NoMessage, At
<1>1. /\ main.at = "return" /\ mine \in Message /\ refs[mine] \in 1..2
      /\ refs[mine] >= 1 + BySlot(mine)
  <2>1. main.at = "return" /\ mine \in Message /\ ByMain(mine) = 1
        BY DEF Fresh, Return, ByMain
  <2>2. BySlot(mine) \in 0..1
        BY DEF BySlot
  <2> QED
      BY <2>1, <2>2 DEF NotOverdrawn
<1>2. /\ main' = Idle /\ main'.at = "idle" /\ main'.message = NoMessage
      /\ main' \in [at : {"idle", "lookup", "ref", "store", "return"},
                    message : Message \cup {NoMessage}, kind : Kind]
      BY DEF Return, Idle
<1>3. /\ refs' = [refs EXCEPT ![mine] = @ - 1]
      /\ UNCHANGED <<listed, slot, calls, worker, event, todo, count, got, stored, since, upto>>
      BY DEF Return
<1>4. TypeOK'
  <2>1. refs' \in [Message -> 0..2]
        BY <1>1, <1>3
  <2> QED
      BY <1>2, <1>3, <2>1
<1>5. Fresh' /\ OneSlot' /\ Kept' /\ Span' /\ NoGap'
  <2>1. Fresh'
        BY <1>2, <1>3 DEF Fresh
  <2>2. OneSlot' /\ Kept' /\ Span'
        BY <1>3 DEF OneSlot, Kept, Span
  <2>3. NoGap'
        BY <1>3 DEF NoGap
  <2> QED
      BY <2>1, <2>2, <2>3
<1>6. Found'
  <2> SUFFICES ASSUME worker = "reply", event.message # NoMessage PROVE Found'
      BY <1>3 DEF Found
  <2>1. event.message \in Message /\ refs'[event.message] >= 1
    <3>1. CASE event.message = mine
          BY <1>1, <1>3, <3>1 DEF Found
    <3>2. CASE event.message # mine
          BY <1>3, <3>2 DEF Found
    <3> QED
        BY <3>1, <3>2
  <2> QED
      BY <1>2, <1>3, <2>1 DEF Found
<1>7. NotOverdrawn'
  <2> SUFFICES ASSUME NEW m \in Message PROVE refs'[m] >= ByMain(m)' + BySlot(m)'
      BY DEF NotOverdrawn
  <2>1. BySlot(m)' = BySlot(m) /\ ByMain(m)' = 0
        BY <1>2, <1>3 DEF BySlot, ByMain
  <2>2. BySlot(m) \in Nat /\ ByMain(m) \in Nat
        BY DEF BySlot, ByMain
  <2>3. CASE m = mine
        BY <1>1, <1>3, <2>1, <2>2, <2>3, SMTT(20)
  <2>4. CASE m # mine
    <3>1. refs'[m] = refs[m]
          BY <1>1, <1>3, <2>4
    <3> HIDE DEF mine, IInv, TypeOK, Message
    <3> QED
        BY <2>1, <2>2, <3>1, Covered
  <2> QED
      BY <2>3, <2>4
<1> QED
    BY <1>4, <1>5, <1>6, <1>7

LEMMA EventKeeps ==
  ASSUME NEW k \in Kind, IInv, Event(k)
  PROVE  IInv'
<1> DEFINE found == slot[k]
           n == count[k] + 1
<1> USE BoundAssumption DEF IInv, TypeOK, Message, NoMessage, At
<1>1. /\ worker = "running" /\ worker' = "reply" /\ todo = Kind
      /\ count[k] \in Nat /\ n \in 1..MaxEvents /\ found \in Message \cup {NoMessage}
      BY SMTT(20) DEF Event, Kept
<1>2. /\ event' = [kind |-> k, message |-> found]
      /\ count' = [count EXCEPT ![k] = n]
      /\ UNCHANGED <<listed, slot, refs, calls, main, todo, got, stored, since, upto>>
      BY DEF Event
<1>3. \A j \in Kind : count'[j] = IF j = k THEN n ELSE count[j]
      BY <1>2
<1>4. event'.kind = k /\ event'.message = found
      BY <1>2
<1>5. \A m \in Message : m = found => <<m, k>> \in stored
      BY DEF OneSlot
<1>6. TypeOK'
  <2>1. count' \in [Kind -> 0..MaxEvents]
        BY <1>1, <1>2
  <2>2. event' \in [kind : Kind, message : Message \cup {NoMessage}]
        BY <1>1, <1>2
  <2> QED
      BY <1>1, <1>2, <2>1, <2>2
<1>7. Fresh' /\ OneSlot' /\ Kept'
      BY <1>1, <1>2 DEF Fresh, OneSlot, Kept
<1>8. NotOverdrawn'
      BY <1>2 DEF NotOverdrawn, ByMain, BySlot
<1>9. Found'
  <2> SUFFICES ASSUME found # NoMessage
               PROVE  /\ refs[found] >= IF main.message = found THEN 2 ELSE 1
                      /\ <<found, k>> \in stored
                      /\ since[found] < n /\ n <= upto[found]
      BY <1>1, <1>2, <1>3, <1>4 DEF Found
  <2>1. found \in Message /\ BySlot(found) = 1
        BY <1>1 DEF BySlot
  <2>2. ByMain(found) >= IF main.message = found THEN 1 ELSE 0
        BY DEF ByMain
  <2>3. refs[found] \in Nat /\ ByMain(found) \in Nat /\ refs[found] >= ByMain(found) + BySlot(found)
        BY <2>1, Covered
  <2>4. refs[found] >= IF main.message = found THEN 2 ELSE 1
        BY <2>1, <2>2, <2>3, SMTT(20)
  <2>5. <<found, k>> \in stored
        BY <1>5, <2>1
  <2>6. since[found] <= count[k] /\ upto[found] = MaxEvents /\ since[found] \in Nat
        BY <2>1, <2>5 DEF Span
  <2> QED
      BY <1>1, <2>4, <2>5, <2>6
<1>10. Span'
  <2> SUFFICES ASSUME NEW m \in Message, NEW j \in Kind, <<m, j>> \in stored
               PROVE  /\ since[m] <= count'[j]
                      /\ slot[j] # m => upto[m] <= count'[j]
      BY <1>2 DEF Span
  <2>1. since[m] \in Nat /\ upto[m] \in Nat /\ count[j] \in Nat
        OBVIOUS
  <2>2. count'[j] \in Nat /\ count[j] <= count'[j]
    <3>1. CASE j = k
          BY <1>1, <1>3, <3>1
    <3>2. CASE j # k
          BY <1>3, <2>1, <3>2, SMTT(20)
    <3> QED
        BY <3>1, <3>2
  <2>3. since[m] <= count[j] /\ (slot[j] # m => upto[m] <= count[j])
        BY DEF Span
  <2> HIDE DEF IInv, TypeOK, Message, n
  <2> QED
      BY <2>1, <2>2, <2>3
<1>11. NoGap'
  <2> SUFFICES ASSUME NEW m \in Message, NEW j \in Kind, <<m, j>> \in stored
               PROVE  got[m] = {e \in (since[m] + 1)..count'[j] : e <= upto[m]}
                                 \ (IF found = m THEN {count'[j]} ELSE {})
      BY <1>1, <1>2, <1>4 DEF NoGap
  <2>1. got[m] = {e \in (since[m] + 1)..count[j] : e <= upto[m]}
    <3>1. worker # "reply"
          BY <1>1
    <3>2. NoGap
          OBVIOUS
    <3> HIDE DEF IInv, TypeOK, Message, found, n
    <3> QED
        BY <3>1, <3>2 DEF NoGap
  <2>2. since[m] \in Nat /\ upto[m] \in Nat /\ count[j] \in Nat
        OBVIOUS
  <2>3. found = m => j = k
        BY <1>5 DEF OneSlot
  <2>nat. since[m] + 1 \in Nat /\ upto[m] \in Nat /\ count[k] \in Nat
        BY <1>1, <2>2, SMTT(20)
  <2>4. CASE j # k
        BY <1>3, <2>1, <2>3, <2>4
  <2>5. CASE j = k /\ found = m
    <3>1. upto[m] = MaxEvents /\ since[m] <= count[k]
          BY <2>5 DEF Span
    <3>2. count'[j] = n
          BY <1>3, <2>5
    <3>3. {e \in (since[m] + 1)..n : e <= upto[m]} \ {n}
            = {e \in (since[m] + 1)..count[k] : e <= upto[m]}
      <4> HIDE DEF IInv, TypeOK, Message, found
      <4> QED
          BY <2>nat, <3>1, OneMore
    <3> HIDE DEF IInv, TypeOK, Message, found, n
    <3> QED
        BY <2>1, <2>5, <3>2, <3>3
  <2>6. CASE j = k /\ found # m
    <3>1. upto[m] <= count[k] /\ count'[j] = n
          BY <1>3, <2>6 DEF Span
    <3>2. {e \in (since[m] + 1)..n : e <= upto[m]}
            = {e \in (since[m] + 1)..count[k] : e <= upto[m]}
      <4> HIDE DEF IInv, TypeOK, Message, found
      <4> QED
          BY <2>nat, <3>1, OneMore
    <3> HIDE DEF IInv, TypeOK, Message, found, n
    <3> QED
        BY <2>1, <2>6, <3>1, <3>2
  <2> QED
      BY <2>4, <2>5, <2>6
<1> QED
    BY <1>6, <1>7, <1>8, <1>9, <1>10, <1>11

LEMMA ReplyKeeps ==
  ASSUME IInv, Reply
  PROVE  IInv'
<1> DEFINE found == event.message
           n == count[event.kind]
<1> USE BoundAssumption, KindAssumption DEF IInv, TypeOK, Message, NoMessage, At
<1>1. /\ worker = "reply" /\ worker' = "running"
      /\ n \in 1..MaxEvents /\ event.kind \in Kind /\ found \in Message \cup {NoMessage}
      BY DEF Reply, Found
<1>2. /\ got' = IF found = NoMessage THEN got ELSE [got EXCEPT ![found] = @ \cup {n}]
      /\ event' = NoEvent
      /\ UNCHANGED <<listed, slot, refs, calls, main, todo, count, stored, since, upto>>
      BY DEF Reply
<1>3. \A m \in Message : got'[m] = IF m = found THEN got[m] \cup {n} ELSE got[m]
  <2> SUFFICES ASSUME NEW m \in Message
               PROVE  got'[m] = IF m = found THEN got[m] \cup {n} ELSE got[m]
      OBVIOUS
  <2> HIDE DEF n
  <2>1. CASE m = found
        BY <1>2, <2>1
  <2>2. CASE m # found
        BY <1>2, <2>2
  <2> QED
      BY <2>1, <2>2
<1>4. found \in Message => <<found, event.kind>> \in stored
      BY <1>1 DEF Found
<1>5. TypeOK'
  <2>1. got' \in [Message -> SUBSET (1..MaxEvents)]
        BY <1>1, <1>2
  <2>2. event' \in [kind : Kind, message : Message \cup {NoMessage}]
        BY <1>2 DEF NoEvent
  <2> QED
      BY <1>1, <1>2, <2>1, <2>2
<1>6. Fresh' /\ OneSlot' /\ Kept' /\ Found'
      BY <1>1, <1>2 DEF Fresh, OneSlot, Kept, Found
<1>7. Span'
  <2>1. \A m \in Message : (\A k \in Kind : <<m, k>> \notin stored) => got'[m] = {}
        BY <1>1, <1>3, <1>4 DEF Span
  <2> QED
      BY <1>2, <2>1 DEF Span
<1>8. NotOverdrawn'
      BY <1>2 DEF NotOverdrawn, ByMain, BySlot
<1>9. NoGap'
  <2> SUFFICES ASSUME NEW m \in Message, NEW k \in Kind, <<m, k>> \in stored
               PROVE  got'[m] = {e \in (since[m] + 1)..count[k] : e <= upto[m]}
      BY <1>1, <1>2 DEF NoGap
  <2>1. got[m] = {e \in (since[m] + 1)..count[k] : e <= upto[m]}
                   \ (IF found = m THEN {count[k]} ELSE {})
        BY <1>1 DEF NoGap
  <2>2. CASE found = m
    <3>1. k = event.kind
          BY <1>1, <1>4, <2>2 DEF OneSlot
    <3>2. since[m] < n /\ n <= upto[m] /\ since[m] \in Nat
          BY <1>1, <2>2 DEF Found
    <3>3. count[k] \in {e \in (since[m] + 1)..count[k] : e <= upto[m]}
      <4>1. count[k] \in Nat /\ since[m] < count[k] /\ count[k] <= upto[m]
            BY <1>1, <3>1, <3>2
      <4> HIDE DEF IInv, TypeOK, Message
      <4> QED
          BY <3>2, <4>1
    <3>4. got'[m] = got[m] \cup {count[k]}
          BY <1>3, <2>2, <3>1
    <3> HIDE DEF found, n
    <3> QED
        BY <2>1, <2>2, <3>3, <3>4
  <2>3. CASE found # m
        BY <1>3, <2>1, <2>3
  <2> QED
      BY <2>2, <2>3
<1> QED
    BY <1>5, <1>6, <1>7, <1>8, <1>9

LEMMA UnrefKeeps ==
  ASSUME NEW k \in Kind, IInv, Unref(k)
  PROVE  IInv'
<1> DEFINE held == slot[k]
<1> USE BoundAssumption DEF IInv, TypeOK, Message, NoMessage, At
<1>1. /\ worker = "removed" /\ k \in todo /\ todo' = todo \ {k}
      /\ held \in Message \cup {NoMessage}
      /\ refs' = IF held = NoMessage THEN refs ELSE [refs EXCEPT ![held] = @ - 1]
      /\ UNCHANGED <<listed, slot, calls, main, worker, event, count, got, stored, since, upto>>
      BY DEF Unref
<1>2. held \in Message => refs[held] >= ByMain(held) + 1
  <2> SUFFICES ASSUME held \in Message PROVE refs[held] >= ByMain(held) + 1
      OBVIOUS
  <2>1. BySlot(held) = 1
        BY <1>1 DEF BySlot
  <2> HIDE DEF held, IInv, TypeOK, Message
  <2> QED
      BY <2>1, Covered
<1>3. \A m \in Message : refs'[m] = IF m = held THEN refs[m] - 1 ELSE refs[m]
      BY <1>1
<1>4. \A m \in Message : refs[m] \in Nat /\ ByMain(m) \in Nat /\ BySlot(m) \in Nat
                         /\ refs[m] >= ByMain(m) + BySlot(m)
      BY Covered
<1>5. TypeOK'
  <2>1. refs' \in [Message -> 0..2]
        BY <1>1, <1>2, <1>4
  <2> QED
      BY <1>1, <2>1
<1>6. Fresh' /\ OneSlot' /\ Kept' /\ Found' /\ Span'
  <2>1. Fresh'
        BY <1>1, <1>3 DEF Fresh
  <2>2. OneSlot' /\ Kept' /\ Found'
        BY <1>1 DEF OneSlot, Kept, Found
  <2>3. Span'
        BY <1>1 DEF Span
  <2> QED
      BY <2>1, <2>2, <2>3
<1>7. NotOverdrawn'
  <2> SUFFICES ASSUME NEW m \in Message PROVE refs'[m] >= ByMain(m)' + BySlot(m)'
      BY DEF NotOverdrawn
  <2>1. ByMain(m)' = ByMain(m)
        BY <1>1 DEF ByMain
  <2>2. CASE m = held
    <3>1. ~ \E j \in todo' : slot'[j] = m
      <4>1. \A j \in Kind : slot[j] = m => <<m, j>> \in stored
            BY DEF OneSlot
      <4> QED
          BY <1>1, <2>2, <4>1 DEF OneSlot
    <3>2. BySlot(m)' = 0
          BY <3>1 DEF BySlot
    <3>3. refs'[m] = refs[m] - 1 /\ refs[m] >= ByMain(m) + 1
          BY <1>2, <1>3, <2>2
    <3> HIDE DEF held, IInv, TypeOK, Message
    <3> QED
        BY <1>4, <2>1, <3>2, <3>3
  <2>3. CASE m # held
    <3>1. BySlot(m)' \in 0..1 /\ BySlot(m)' <= BySlot(m)
      <4>1. (\E j \in todo' : slot'[j] = m) => (\E j \in todo : slot[j] = m)
            BY <1>1
      <4> QED
          BY <4>1 DEF BySlot
    <3>2. refs'[m] = refs[m]
          BY <1>3, <2>3
    <3> HIDE DEF held, IInv, TypeOK, Message
    <3> QED
        BY <1>4, <2>1, <3>1, <3>2
  <2> QED
      BY <2>2, <2>3
<1>8. NoGap'
      BY <1>1 DEF NoGap
<1> QED
    BY <1>5, <1>6, <1>7, <1>8

-----------------------------------------------------------------------------
LEMMA StepKeepsIInv == IInv /\ [Next]_vars => IInv'
<1> SUFFICES ASSUME IInv, [Next]_vars PROVE IInv'
    OBVIOUS
<1>1. CASE \E k \in Kind : Call(k) \/ Event(k) \/ Unref(k)
      BY <1>1, CallKeeps, EventKeeps, UnrefKeeps
<1>2. CASE MainLoop
      BY <1>2, LookupKeeps, RefKeeps, StoreKeeps, ReturnKeeps DEF MainLoop
<1>3. CASE Reply
      BY <1>3, ReplyKeeps
<1>4. CASE Claim \/ Reap \/ Remove \/ Free \/ UNCHANGED vars
      BY <1>4, QuietKeeps
<1> QED
    BY <1>1, <1>2, <1>3, <1>4 DEF Next, Worker

LEMMA AlwaysIInv == Spec => []IInv
<1> QED
    BY InitIInv, StepKeepsIInv, PTL DEF Spec

(* Every variable keeps its type; in particular no message is referred to   *)
(* more than twice, and no reference is dropped that was not taken, for any *)
(* kinds of events and any number of subscriptions (process_subscription    *)
(* and unrefMessages).                                                      *)
THEOREM Typing == Spec => []TypeOK
<1>1. IInv => TypeOK
      BY DEF IInv
<1> QED
    BY <1>1, AlwaysIInv, PTL

(* The worker replies to a message that somebody refers to, whatever the    *)
(* main loop has stored since the handler looked at the slot.               *)
THEOREM RepliesAreLive == Spec => []ReplyIsLive
<1>1. IInv => ReplyIsLive
  <2> SUFFICES ASSUME IInv, worker = "reply", event.message # NoMessage
               PROVE  refs[event.message] > 0
      BY DEF ReplyIsLive
  <2>1. event.message \in Message /\ refs[event.message] \in Nat
        BY DEF IInv, TypeOK
  <2>2. refs[event.message] >= IF main.message = event.message THEN 2 ELSE 1
        BY DEF IInv, Found
  <2> QED
      BY <2>1, <2>2
<1> QED
    BY <1>1, AlwaysIInv, PTL

(* A message has a reference for everybody who counts on it: the bus, the   *)
(* handler on its way to the slot, and the slot that unrefMessages has not  *)
(* come to.                                                                 *)
THEOREM ReferencesCovered == Spec => []NotOverdrawn
<1>1. IInv => NotOverdrawn
      BY DEF IInv
<1> QED
    BY <1>1, AlwaysIInv, PTL

(* A subscriber has had replies for exactly the events of its kind between  *)
(* the store of its message and the store of the one that took its place,   *)
(* but for the event being replied to.                                      *)
THEOREM NoEventIsLost == Spec => []NoGap
<1>1. IInv => NoGap
      BY DEF IInv
<1> QED
    BY <1>1, AlwaysIInv, PTL

-----------------------------------------------------------------------------
(* The ping and the pong. *)

Pinging(s) == pc[s] \in {"stamp", "send"}

(* The owners, one kind at a time, without their names. *)
OneKind ==
  /\ Len(pings) <= 1 /\ Len(pongs) <= 1 /\ Len(handled) <= 1
  /\ \A s, r \in Sender : Pinging(s) /\ Pinging(r) => s = r
  /\ (\E s \in Sender : Pinging(s)) => pings = <<>> /\ pongs = <<>> /\ handled = <<>> /\ ~lost
  /\ pings # <<>> => pongs = <<>> /\ handled = <<>> /\ ~lost
  /\ pongs # <<>> => handled = <<>> /\ ~lost
  /\ handled # <<>> => ~lost
  /\ mutex <=> \/ \E s \in Sender : Pinging(s)
               \/ pings # <<>> \/ pongs # <<>> \/ handled # <<>> \/ lost

PingInv == PingTypeOK /\ OneKind /\ StampIsOwn

LEMMA Tails ==
  ASSUME NEW q \in Seq(Time), q # <<>>, Len(q) <= 1
  PROVE  Tail(q) = <<>> /\ Head(q) = q[1] /\ Head(q) \in Time /\ Len(q) = 1
<1>1. Len(q) = 1 /\ Head(q) = q[1] /\ Head(q) \in Time
  <2>1. Len(q) \in Nat \ {0}
    BY EmptySeq
  <2>2. Len(q) = 1
    BY <2>1
  <2> QED
    BY <2>2, HeadTailProperties
<1>2. Tail(q) \in Seq(Time) /\ Len(Tail(q)) = 0
  BY <1>1, HeadTailProperties
<1> QED
  BY <1>1, <1>2, EmptySeq

LEMMA Singles ==
  ASSUME NEW t \in Time
  PROVE  /\ Append(<<>>, t) = <<t>> /\ <<t>> \in Seq(Time) /\ Len(<<t>>) = 1
         /\ <<t>>[1] = t /\ <<t>> # <<>> /\ <<>> \in Seq(Time) /\ Len(<<>>) = 0
OBVIOUS

LEMMA InitPingInv == PingInit => PingInv
<1> SUFFICES ASSUME PingInit PROVE PingInv
  OBVIOUS
<1>1. PingTypeOK
  <2>1. <<>> \in Seq(Time) /\ Len(<<>>) = 0
    BY EmptySeq
  <2>2. pc \in [Sender -> {"idle", "stamp", "send", "sleep"}]
    BY DEF PingInit
  <2>3. /\ pings \in Seq(Time) /\ pongs \in Seq(Time) /\ handled \in Seq(Time)
        /\ pings = <<>> /\ pongs = <<>>
    BY <2>1 DEF PingInit
  <2>4. Len(handled) <= 1
    <3>1. Len(handled) = 0
      BY <2>1, Zenon DEF PingInit
    <3> QED
      BY <3>1
  <2>5. /\ session \in {"connecting", "connected", "ended"} /\ stamp \in Time
        /\ mutex \in BOOLEAN /\ lost \in BOOLEAN
    BY DEF PingInit
  <2> QED
    BY <2>2, <2>3, <2>4, <2>5 DEF PingTypeOK
<1>2. pings = <<>> /\ pongs = <<>> /\ handled = <<>> /\ Len(<<>>) = 0 /\ ~mutex /\ ~lost
  BY DEF PingInit
<1>3. \A s \in Sender : ~Pinging(s)
  BY DEF PingInit, Pinging
<1>4. OneKind
  BY <1>2, <1>3 DEF OneKind
<1>5. StampIsOwn
  BY <1>2 DEF StampIsOwn
<1> QED
  BY <1>1, <1>4, <1>5 DEF PingInv

LEMMA PingStep ==
  ASSUME PingInv, NEW s \in Sender, Ping(s)
  PROVE  PingInv'
<1> USE DEF PingInv, PingTypeOK, OneKind, StampIsOwn, Pinging
<1>1. CASE TryLock(s)
  BY <1>1 DEF TryLock, MayPing
<1>2. CASE Busy(s)
  BY <1>2 DEF Busy, MayPing
<1>3. CASE Stamp(s)
  BY <1>3 DEF Stamp
<1>4. CASE Send(s)
  <2>1. pings' = <<stamp>>
    BY <1>4, Singles DEF Send
  <2>2. \A r \in Sender : pc'[r] \notin {"stamp", "send"}
    BY <1>4 DEF Send, Sent
  <2> QED
    BY <1>4, <2>1, <2>2, Singles DEF Send, Sent
<1>5. CASE SendFails(s)
  <2>1. \A r \in Sender : pc'[r] \notin {"stamp", "send"}
    BY <1>5 DEF SendFails, Sent
  <2> QED
    BY <1>5, <2>1 DEF SendFails, Sent
<1> QED
  BY <1>1, <1>2, <1>3, <1>4, <1>5 DEF Ping

LEMMA NextPingInv == PingInv /\ [PingNext]_pingVars => PingInv'
<1> SUFFICES ASSUME PingInv, [PingNext]_pingVars PROVE PingInv'
  OBVIOUS
<1> USE DEF PingInv, PingTypeOK, OneKind, StampIsOwn, Pinging
<1>1. CASE Connect
  BY <1>1 DEF Connect
<1>2. CASE End
  BY <1>2, Singles DEF End
<1>3. CASE \E s \in Sender : Ping(s)
  BY <1>3, PingStep
<1>4. CASE Wake
  BY <1>4, PingerAssumption DEF Wake
<1>5. CASE Answer
  <2>1. pings' = <<>> /\ pongs' = <<Head(pings)>> /\ Head(pings) = stamp
    BY <1>5, Tails, Singles DEF Answer
  <2> QED
    BY <1>5, <2>1, Singles DEF Answer
<1>6. CASE Refuse
  <2>1. pings' = <<>>
    BY <1>6, Tails DEF Refuse
  <2> QED
    BY <1>6, <2>1, Singles DEF Refuse
<1>7. CASE Pong
  <2>1. pongs' = <<>> /\ handled' = <<Head(pongs)>> /\ Head(pongs) = stamp
    BY <1>7, Tails DEF Pong
  <2> QED
    BY <1>7, <2>1, Singles DEF Pong
<1>8. CASE Report
  BY <1>8, Singles DEF Report
<1>9. CASE UNCHANGED pingVars
  BY <1>9 DEF pingVars
<1> QED
  BY <1>1, <1>2, <1>3, <1>4, <1>5, <1>6, <1>7, <1>8, <1>9 DEF PingNext

LEMMA AlwaysPingInv == PingSpec => []PingInv
  BY InitPingInv, NextPingInv, PTL DEF PingSpec

(* Every state is well formed, and nothing is on its way without a          *)
(* connection.                                                              *)
THEOREM PingTyping == PingSpec => []PingTypeOK
<1>1. PingInv => PingTypeOK
  BY DEF PingInv
<1> QED
  BY <1>1, AlwaysPingInv, PTL

(* The time reported with a PONG is always that of its own PING.            *)
THEOREM RttIsOwn == PingSpec => []StampIsOwn
<1>1. PingInv => StampIsOwn
  BY DEF PingInv
<1> QED
  BY <1>1, AlwaysPingInv, PTL

(* The mutex is a sound semaphore although threads unlock what others have  *)
(* locked: locked for exactly one reason, or free.                          *)
THEOREM MutexIsSemaphore == PingSpec => []OneReason
<1>1. PingInv => OneReason
  <2> SUFFICES ASSUME PingInv PROVE OneReason
    OBVIOUS
  <2> USE DEF PingInv, PingTypeOK, OneKind
  <2> DEFINE P == {<<"sender", s>> : s \in {r \in Sender : pc[r] \in {"stamp", "send"}}}
             I == {<<"ping", i>> : i \in 1..Len(pings)}
             O == {<<"pong", i>> : i \in 1..Len(pongs)}
             H == {<<"handler", i>> : i \in 1..Len(handled)}
             L == IF lost THEN {<<"lost", 1>>} ELSE {}
  <2>1. Owners = P \cup I \cup O \cup H \cup L
    BY DEF Owners
  <2>2. /\ pings = <<>> => I = {}
        /\ pings # <<>> => I = {<<"ping", 1>>}
    <3>1. pings # <<>> => Len(pings) = 1
      BY Tails
    <3> QED
      BY <3>1
  <2>3. /\ pongs = <<>> => O = {}
        /\ pongs # <<>> => O = {<<"pong", 1>>}
    <3>1. pongs # <<>> => Len(pongs) = 1
      BY Tails
    <3> QED
      BY <3>1
  <2>4. /\ handled = <<>> => H = {}
        /\ handled # <<>> => H = {<<"handler", 1>>}
    <3>1. handled # <<>> => Len(handled) = 1
      BY Tails
    <3> QED
      BY <3>1
  <2>5. /\ (~ \E s \in Sender : Pinging(s)) => P = {}
        /\ \A s \in Sender : Pinging(s) => P = {<<"sender", s>>}
    BY DEF Pinging
  <2>6. (~lost => L = {}) /\ (lost => L = {<<"lost", 1>>})
    OBVIOUS
  <2> HIDE DEF P, I, O, H, L
  <2>7. CASE ~mutex
    BY <2>1, <2>2, <2>3, <2>4, <2>5, <2>6, <2>7 DEF OneReason
  <2>8. CASE mutex
    <3>1. CASE \E s \in Sender : Pinging(s)
      <4> PICK s \in Sender : Pinging(s)
        BY <3>1
      <4>1. Owners = {<<"sender", s>>}
        BY <2>1, <2>2, <2>3, <2>4, <2>5, <2>6
      <4> QED
        BY <2>8, <4>1 DEF OneReason
    <3>2. CASE pings # <<>>
      <4>1. Owners = {<<"ping", 1>>}
        BY <2>1, <2>2, <2>3, <2>4, <2>5, <2>6, <3>2
      <4> QED
        BY <2>8, <4>1 DEF OneReason
    <3>3. CASE pongs # <<>>
      <4>1. Owners = {<<"pong", 1>>}
        BY <2>1, <2>2, <2>3, <2>4, <2>5, <2>6, <3>3
      <4> QED
        BY <2>8, <4>1 DEF OneReason
    <3>4. CASE handled # <<>>
      <4>1. Owners = {<<"handler", 1>>}
        BY <2>1, <2>2, <2>3, <2>4, <2>5, <2>6, <3>4
      <4> QED
        BY <2>8, <4>1 DEF OneReason
    <3>5. CASE lost
      <4>1. Owners = {<<"lost", 1>>}
        BY <2>1, <2>2, <2>3, <2>4, <2>5, <2>6, <3>5
      <4> QED
        BY <2>8, <4>1 DEF OneReason
    <3> QED
      BY <2>8, <3>1, <3>2, <3>3, <3>4, <3>5
  <2> QED
    BY <2>7, <2>8
<1> QED
  BY <1>1, AlwaysPingInv, PTL

=============================================================================
