---------------------------- MODULE EventDelivery ----------------------------
(***************************************************************************)
(* How the events of one client reach the applications that subscribed to  *)
(* them.  A subscription is an LSMessage that the main loop refers to      *)
(* (LSMessageRef) and stores in the client's slot for the kind of event,   *)
(* over whatever is there; the worker's event handlers reply to the        *)
(* message they find in the slot; and when its connection is over the      *)
(* worker takes the client out of the table and drops the references that  *)
(* the slots hold.  Neither thread takes a lock.                           *)
(*                                                                         *)
(* The luna bus is the environment: a message is born with the bus' own    *)
(* reference, which it drops when the handler has returned, and is freed   *)
(* when nobody refers to it.  Lifetimes of clients are ClientLifecycle's.  *)
(***************************************************************************)
EXTENDS Naturals

CONSTANTS Kind,       \* the kinds of events, one slot for each
          MaxCalls,   \* bound: subscriptions asked for
          MaxEvents   \* bound: events of each kind

ASSUME KindAssumption == Kind # {}
ASSUME BoundAssumption == MaxCalls \in Nat /\ MaxEvents \in Nat

Message == 1..MaxCalls
NoMessage == 0

VARIABLES
  listed,   \* the client is in wIRCd_clients
  slot,     \* client->msg_event_*, of each kind
  refs,     \* the references to each message
  calls,    \* how many messages there have been
  main,     \* the main loop in process_subscription: where, which message and kind
  worker,   \* "unclaimed", "running", "reply", "removed", "freed"
  event,    \* the event being handled: its kind and the message found
  todo,     \* the slots unrefMessages has not come to
  count,    \* how many events of each kind there have been
  got,      \* the events of its kind each message had replies for
  stored,   \* which messages were stored, each with its kind
  since,    \* how many events of its kind there had been then,
  upto      \* and when it was overwritten

vars == <<listed, slot, refs, calls, main, worker, event, todo, count, got, stored, since, upto>>

Idle == [at |-> "idle", message |-> NoMessage, kind |-> CHOOSE k \in Kind : TRUE]
NoEvent == [kind |-> CHOOSE k \in Kind : TRUE, message |-> NoMessage]

Init ==
  /\ listed = TRUE
  /\ slot = [k \in Kind |-> NoMessage]
  /\ refs = [m \in Message |-> 0] /\ calls = 0
  /\ main = Idle
  /\ worker = "unclaimed" /\ event = NoEvent /\ todo = Kind
  /\ count = [k \in Kind |-> 0]
  /\ got = [m \in Message |-> {}]
  /\ stored = {}
  /\ since = [m \in Message |-> 0] /\ upto = [m \in Message |-> MaxEvents]

-----------------------------------------------------------------------------
(* process_subscription, in the main loop. *)

At(step) == main.at = step
Goes(step) == main' = [main EXCEPT !.at = step]

Call(k) ==
  /\ At("idle") /\ calls < MaxCalls
  /\ calls' = calls + 1
  /\ refs' = [refs EXCEPT ![calls + 1] = 1]
  /\ main' = [at |-> "lookup", message |-> calls + 1, kind |-> k]
  /\ UNCHANGED <<listed, slot, worker, event, todo, count, got, stored, since, upto>>

(* A caller without the client, or one that does not say subscribe, is told *)
(* so, and nothing is kept.                                                 *)
Lookup ==
  /\ At("lookup")
  /\ \/ listed /\ Goes("ref")
     \/ Goes("return")
  /\ UNCHANGED <<listed, slot, refs, calls, worker, event, todo, count, got, stored, since, upto>>

Ref ==
  /\ At("ref")
  /\ refs' = [refs EXCEPT ![main.message] = @ + 1]
  /\ Goes("store")
  /\ UNCHANGED <<listed, slot, calls, worker, event, todo, count, got, stored, since, upto>>

(* Mutant: the reference of the message that is overwritten is dropped. *)
StoreUnrefsOld ==
  /\ At("store")
  /\ slot' = [slot EXCEPT ![main.kind] = main.message]
  /\ stored' = stored \cup {<<main.message, main.kind>>}
  /\ since' = [since EXCEPT ![main.message] = count[main.kind]]
  /\ IF slot[main.kind] = NoMessage
     THEN UNCHANGED <<upto, refs>>
     ELSE /\ upto' = [upto EXCEPT ![slot[main.kind]] = count[main.kind]]
          /\ refs' = [refs EXCEPT ![slot[main.kind]] = @ - 1]
  /\ Goes("return")
  /\ UNCHANGED <<listed, calls, worker, event, todo, count, got>>

(* The message that was there is forgotten, with the reference to it.  A    *)
(* client freed since Lookup is written to all the same.                    *)
Store ==
  /\ At("store")
  /\ slot' = [slot EXCEPT ![main.kind] = main.message]
  /\ stored' = stored \cup {<<main.message, main.kind>>}
  /\ since' = [since EXCEPT ![main.message] = count[main.kind]]
  /\ upto' = IF slot[main.kind] = NoMessage THEN upto
             ELSE [upto EXCEPT ![slot[main.kind]] = count[main.kind]]
  /\ Goes("return")
  /\ UNCHANGED <<listed, refs, calls, worker, event, todo, count, got>>

(* The handler has returned: the bus drops its reference. *)
Return ==
  /\ At("return")
  /\ refs' = [refs EXCEPT ![main.message] = @ - 1]
  /\ main' = Idle
  /\ UNCHANGED <<listed, slot, calls, worker, event, todo, count, got, stored, since, upto>>

-----------------------------------------------------------------------------
(* The worker; or, for a client nobody connected, the reaper, which drops   *)
(* no reference.                                                            *)

Claim ==
  /\ worker = "unclaimed"
  /\ worker' = "running"
  /\ UNCHANGED <<listed, slot, refs, calls, main, event, todo, count, got, stored, since, upto>>

Reap ==
  /\ worker = "unclaimed"
  /\ listed' = FALSE /\ worker' = "freed"
  /\ UNCHANGED <<slot, refs, calls, main, event, todo, count, got, stored, since, upto>>

(* process_event finds the message of the event's kind ... *)
Event(k) ==
  /\ worker = "running" /\ count[k] < MaxEvents
  /\ event' = [kind |-> k, message |-> slot[k]]
  /\ count' = [count EXCEPT ![k] = @ + 1]
  /\ worker' = "reply"
  /\ UNCHANGED <<listed, slot, refs, calls, main, todo, got, stored, since, upto>>

(* Mutant: a reply is the last one, as of a method that is no subscription. *)
ReplyClears ==
  /\ worker = "reply"
  /\ got' = IF event.message = NoMessage THEN got
            ELSE [got EXCEPT ![event.message] = @ \cup {count[event.kind]}]
  /\ slot' = [slot EXCEPT ![event.kind] = NoMessage]
  /\ worker' = "running" /\ event' = NoEvent
  /\ UNCHANGED <<listed, refs, calls, main, todo, count, stored, since, upto>>

(* ... and replies to it. *)
Reply ==
  /\ worker = "reply"
  /\ got' = IF event.message = NoMessage THEN got
            ELSE [got EXCEPT ![event.message] = @ \cup {count[event.kind]}]
  /\ worker' = "running" /\ event' = NoEvent
  /\ UNCHANGED <<listed, slot, refs, calls, main, todo, count, stored, since, upto>>

Remove ==
  /\ worker = "running"
  /\ listed' = FALSE /\ worker' = "removed"
  /\ UNCHANGED <<slot, refs, calls, main, event, todo, count, got, stored, since, upto>>

(* Mutant: a slot may be come to again. *)
UnrefKeepsSlot(k) ==
  /\ worker = "removed" /\ k \in todo
  /\ todo' \in {todo, todo \ {k}}
  /\ refs' = IF slot[k] = NoMessage THEN refs ELSE [refs EXCEPT ![slot[k]] = @ - 1]
  /\ UNCHANGED <<listed, slot, calls, main, worker, event, count, got, stored, since, upto>>

Unref(k) ==
  /\ worker = "removed" /\ k \in todo
  /\ todo' = todo \ {k}
  /\ refs' = IF slot[k] = NoMessage THEN refs ELSE [refs EXCEPT ![slot[k]] = @ - 1]
  /\ UNCHANGED <<listed, slot, calls, main, worker, event, count, got, stored, since, upto>>

Free ==
  /\ worker = "removed" /\ todo = {}
  /\ worker' = "freed"
  /\ UNCHANGED <<listed, slot, refs, calls, main, event, todo, count, got, stored, since, upto>>

-----------------------------------------------------------------------------
MainLoop == Lookup \/ Ref \/ Store \/ Return
Worker == (\E k \in Kind : Event(k) \/ Unref(k)) \/ Reply \/ Remove \/ Free

Next == (\E k \in Kind : Call(k)) \/ MainLoop \/ Claim \/ Reap \/ Worker

Spec == Init /\ [][Next]_vars

-----------------------------------------------------------------------------
(* Properties. *)

TypeOK ==
  /\ listed \in BOOLEAN
  /\ slot \in [Kind -> Message \cup {NoMessage}]
  /\ refs \in [Message -> 0..2] /\ calls \in 0..MaxCalls
  /\ main \in [at : {"idle", "lookup", "ref", "store", "return"},
               message : Message \cup {NoMessage}, kind : Kind]
  /\ worker \in {"unclaimed", "running", "reply", "removed", "freed"}
  /\ event \in [kind : Kind, message : Message \cup {NoMessage}]
  /\ todo \subseteq Kind
  /\ count \in [Kind -> 0..MaxEvents]
  /\ got \in [Message -> SUBSET (1..MaxEvents)]
  /\ stored \subseteq Message \X Kind
  /\ since \in [Message -> 0..MaxEvents] /\ upto \in [Message -> 0..MaxEvents]

(* The message an event is about to be replied to has not been freed,       *)
(* although the main loop may have put another one in its place between the *)
(* handler's look at the slot and its reply.                                *)
ReplyIsLive == worker = "reply" /\ event.message # NoMessage => refs[event.message] > 0

(* A message has a reference for everybody who still counts on it: the bus  *)
(* while the call is handled, process_subscription on its way to the slot,  *)
(* and the slot whose reference has not been dropped.  None is dropped      *)
(* twice, and none before its time.  (It may have more, which nobody will   *)
(* drop: a slot is overwritten without an unref, a message stored after its *)
(* slot's turn is never come to, and the reaper drops none at all.)         *)
ByMain(m) == IF main.message # m THEN 0 ELSE IF At("store") THEN 2 ELSE 1
BySlot(m) == IF \E k \in todo : slot[k] = m THEN 1 ELSE 0
NotOverdrawn == \A m \in Message : refs[m] >= ByMain(m) + BySlot(m)

(* A subscriber gets every event of its kind from the time its message is   *)
(* stored to the time another one takes its place, and no other one: none   *)
(* is lost or given to the wrong subscriber in between.                     *)
NoGap ==
  \A m \in Message, k \in Kind : <<m, k>> \in stored =>
    got[m] = {e \in (since[m] + 1)..count[k] : e <= upto[m]}
               \ (IF worker = "reply" /\ event.message = m THEN {count[k]} ELSE {})

=============================================================================
