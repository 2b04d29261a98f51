------------------------ MODULE ClientLifecycleProofs ------------------------
(***************************************************************************)
(* Proofs about ClientLifecycle for every set of tokens, every number of   *)
(* heap blocks and every max_retries.                                      *)
(*                                                                         *)
(* None of the properties is inductive.  Sound below says, of a process in *)
(* which nobody has followed a dangling pointer yet, who may hold a client *)
(* (its mutex excludes live_or_die and the worker from one another), when  *)
(* it is still listed, which sessions of it exist at each step of its      *)
(* worker and what a running ping thread implies.                          *)
(***************************************************************************)
EXTENDS ClientLifecycle, TLAPS

Running(t) == worker[t] \notin {"none", "gone"}

(* live_or_die or the worker of t owns t: it is allocated, its mutex is     *)
(* taken, and the two exclude one another.                                  *)
Owned(t) ==
  /\ reaper[t] \in {"claimed", "unlisted"} =>
       t \in live /\ t \in claimed /\ ~Running(t)
  /\ Running(t) => t \in live /\ t \in claimed

(* t is listed only between client_init and the removal by its owner. *)
Listed(t) ==
  /\ t \in table => t \in live
  /\ reaper[t] = "none" => t \notin live
  /\ reaper[t] = "unlisted" \/ worker[t] \in {"destroy", "free"} => t \notin table

(* The session objects worker t has created and not destroyed. *)
SessionsOf(t) ==
  /\ worker[t] \in {"none", "create", "reset", "free", "gone"} =>
       \A s \in sessions : s[1] # t
  /\ worker[t] \in {"connecting", "connected", "decide"} =>
       /\ sptr[t] \in sessions /\ sptr[t][1] = t
       /\ \A s \in sessions : s[1] = t => s = sptr[t]
  /\ worker[t] \in {"remove", "destroy"} =>
       /\ sptr[t] = NULL \/ (sptr[t] \in sessions /\ sptr[t][1] = t)
       /\ \A s \in sessions : s[1] = t => s = sptr[t]

(* A ping thread was started in a session that got an answer. *)
Pinged(t) ==
  /\ pinger[t] # "none" => t \in claimed /\ t \in est
  /\ worker[t] \in {"create", "connecting", "reset"} => pinger[t] = "none"
  /\ worker[t] = "connected" /\ t \notin welcomed => pinger[t] = "none"

Sound(t) == Owned(t) /\ Listed(t) /\ SessionsOf(t) /\ Pinged(t)

IInv ==
  /\ TypeOK
  /\ stale # "claimant"
  /\ stale = "none" => \A t \in Token : Sound(t)

-----------------------------------------------------------------------------
(* A pointer to a client reaches a client, and while the client it was made *)
(* for is allocated it reaches that one.                                    *)
LEMMA ObjToken ==
  ASSUME NEW t \in Token, live \in SUBSET Token
  PROVE  Obj(t) \in Token /\ (t \in live => Obj(t) = t)
  BY DEF Obj

(* A step that leaves nothing stale went through a pointer to t's own       *)
(* client.                                                                  *)
LEMMA TouchFresh ==
  ASSUME NEW t \in Token, NEW who \in Toucher \ {"none"},
         live \in SUBSET Token, Touch(t, who), stale' = "none"
  PROVE  stale = "none" /\ t \in live /\ Obj(t) = t
  BY ObjToken DEF Touch, Toucher

-----------------------------------------------------------------------------
LEMMA InitIInv == Init => IInv
  BY RetriesAssumption DEF Init, IInv, TypeOK, Sound, Owned, Listed, SessionsOf, Pinged, Running,
         Idle, MainPC, ReaperPC, WorkerPC, PingerPC, Toucher, Session

(* The types are kept by every step, whatever memory it reaches. *)
LEMMA TypeStep == TypeOK /\ [Next]_vars => TypeOK'
  <1> SUFFICES ASSUME TypeOK, [Next]_vars PROVE TypeOK'
    OBVIOUS
  <1> USE RetriesAssumption DEF TypeOK
  <1>o. ASSUME NEW t \in Token PROVE Obj(t) \in Token
    BY ObjToken
  <1>s. ASSUME NEW t \in Token, NEW who \in Toucher, Touch(t, who)
        PROVE  stale' \in Toucher
    BY <1>s DEF Touch
  <1>i. Idle \in [pc : MainPC, tok : Token \cup {NoToken},
                  sess : Session \cup {NULL}]
    BY DEF Idle, MainPC
  <1>m. main.pc # "idle" => main.tok \in Token
    OBVIOUS
  <1>1. ASSUME NEW t \in Token, NEW b \in Block, ClientInit(t, b) PROVE TypeOK'
    BY <1>1 DEF ClientInit, ReaperPC
  <1>2. ASSUME NEW t \in Token, NEW op \in {"connect", "command", "subscribe"},
               Lookup(t, op)
        PROVE  TypeOK'
    BY <1>2, NoTokenAssumption DEF Lookup, memory, threads, MainPC, Idle
  <1>3. CASE ConnectExpired
    BY <1>3, <1>i, <1>m, <1>s, NoTokenAssumption
       DEF ConnectExpired, memory, threads, Idle, Toucher
  <1>4. ASSUME NEW start \in BOOLEAN, ConnectClaim(start) PROVE TypeOK'
    BY <1>4, <1>i, <1>m, <1>o, <1>s DEF ConnectClaim, Idle, Toucher, ReaperPC, WorkerPC
  <1>5. CASE CommandArgument
    BY <1>5, <1>m, <1>o, <1>s, NoTokenAssumption DEF CommandArgument, memory, threads, MainPC, Toucher
  <1>6. CASE CommandUse
    BY <1>6, <1>i DEF CommandUse, TouchSession, memory, threads, Idle, Toucher
  <1>7. CASE SubscribeStore
    BY <1>7, <1>i, <1>m, <1>s DEF SubscribeStore, memory, threads, Idle, Toucher
  <1>8. ASSUME NEW t \in Token, Reaper(t) PROVE TypeOK'
    BY <1>8, <1>o, <1>s DEF Reaper, ReaperWake, ReaperClaim, ReaperGiveUp, ReaperRemove,
       ReaperFree, memory, ReaperPC, Toucher
  <1>9. ASSUME NEW t \in Token, Worker(t) PROVE TypeOK'
    <2>w. ASSUME NEW pc \in WorkerPC, WorkerGoes(t, pc)
          PROVE  worker' \in [Token -> WorkerPC]
      BY <2>w DEF WorkerGoes
    <2>1. CASE WorkerCreate(t)
      BY <2>1, <2>w, <1>o, <1>s DEF WorkerCreate, WorkerPC, Toucher, Session
    <2>2. CASE WorkerConnected(t) \/ WorkerRunEnds(t)
      BY <2>2, <2>w DEF WorkerConnected, WorkerRunEnds, memory, WorkerPC
    <2>3. CASE WorkerEvent(t)
      BY <2>3, <1>o, <1>s DEF WorkerEvent, threads, Toucher
    <2>4. CASE WorkerWelcome(t)
      BY <2>4, <1>o, <1>s DEF WorkerWelcome, PingerPC, Toucher
    <2>5. CASE WorkerDecide(t)
      BY <2>5, <2>w, <1>o, <1>s DEF WorkerDecide, WorkerPC, Toucher
    <2>6. CASE WorkerRetry(t)
      BY <2>6, <2>w, <1>o, <1>s DEF WorkerRetry, WorkerPC, Toucher
    <2>7. CASE WorkerRemove(t) \/ WorkerDestroy(t) \/ WorkerFree(t)
      BY <2>7, <2>w, <1>o, <1>s DEF WorkerRemove, WorkerDestroy, WorkerFree, WorkerPC, Toucher
    <2>8. QED
      BY <1>9, <2>1, <2>2, <2>3, <2>4, <2>5, <2>6, <2>7 DEF Worker
  <1>10. ASSUME NEW t \in Token, Pinger(t) PROVE TypeOK'
    BY <1>10, <1>o, <1>s DEF Pinger, PingerCheck, PingerSend, TouchSession, memory, PingerPC, Toucher
  <1>11. CASE Die
    BY <1>11, <1>i DEF Die, Idle, ReaperPC, WorkerPC, PingerPC, Toucher
  <1>12. CASE UNCHANGED vars
    BY <1>12 DEF vars
  <1>13. QED
    BY <1>1, <1>2, <1>3, <1>4, <1>5, <1>6, <1>7, <1>8, <1>9, <1>10, <1>11, <1>12
       DEF Next, Main

(* While nothing is stale, the thread that owns t goes through a good        *)
(* pointer: its step does not make it the first to follow a dangling one.    *)
LEMMA ClaimantTouch ==
  ASSUME IInv, NEW t \in Token, Touch(t, "claimant"),
         reaper[t] \in {"claimed", "unlisted"} \/ Running(t)
  PROVE  /\ stale' # "claimant"
         /\ stale' = "none" => stale = "none" /\ t \in live /\ Obj(t) = t
  <1>1. stale = "none" => t \in live
    BY DEF IInv, Sound, Owned
  <1>2. live \in SUBSET Token
    BY DEF IInv, TypeOK
  <1>3. stale' = "none" => stale = "none" /\ t \in live /\ Obj(t) = t
    BY <1>2, TouchFresh DEF Toucher
  <1>4. stale' # "claimant"
    BY <1>1 DEF Touch, IInv
  <1>5. QED
    BY <1>3, <1>4

(* The same for the threads that own nothing. *)
LEMMA OtherTouch ==
  ASSUME IInv, NEW t \in Token,
         NEW who \in {"connect", "command", "subscribe", "reaper", "pinger"},
         Touch(t, who)
  PROVE  /\ stale' # "claimant"
         /\ stale' = "none" => stale = "none" /\ t \in live /\ Obj(t) = t
  <1>1. live \in SUBSET Token
    BY DEF IInv, TypeOK
  <1>2. stale' = "none" => stale = "none" /\ t \in live /\ Obj(t) = t
    BY <1>1, TouchFresh DEF Toucher
  <1>3. stale' # "claimant"
    BY DEF Touch, IInv
  <1>4. QED
    BY <1>2, <1>3

(* A step that changes nothing Sound speaks of keeps it. *)
LEMMA SoundFrame ==
  ASSUME NEW u \in Token, Sound(u),
         UNCHANGED <<live, table, claimed, sptr, sessions, est, welcomed,
                     reaper, worker, pinger>>
  PROVE  Sound(u)'
  BY DEF Sound, Owned, Listed, SessionsOf, Pinged, Running

SoundNext == /\ stale' # "claimant"
             /\ stale' = "none" => \A u \in Token : Sound(u)'

LEMMA MainStep == IInv /\ Main => SoundNext
  <1> SUFFICES ASSUME IInv, Main PROVE SoundNext
    OBVIOUS
  <1>m. main.pc # "idle" => main.tok \in Token
    BY DEF IInv, TypeOK
  <1>1. ASSUME NEW t \in Token, NEW b \in Block, ClientInit(t, b) PROVE SoundNext
    <2>1. stale' = stale /\ stale # "claimant"
      BY <1>1 DEF ClientInit, IInv
    <2>2. ASSUME stale = "none", NEW u \in Token PROVE Sound(u)'
      <3>1. Sound(u) /\ Sound(t)
        BY <2>2 DEF IInv
      <3>2. reaper[t] = "none" /\ reaper'[t] \in {"asleep", "failed"}
            /\ (u # t => reaper'[u] = reaper[u])
        BY <1>1 DEF ClientInit, IInv, TypeOK
      <3>3. ~Running(t)
        BY <3>1, <3>2 DEF Sound, Owned, Listed
      <3>4. CASE u = t
        BY <1>1, <3>1, <3>2, <3>3, <3>4
           DEF ClientInit, Sound, Owned, Listed, SessionsOf, Pinged, Running
      <3>5. CASE u # t
        BY <1>1, <3>1, <3>2, <3>5
           DEF ClientInit, Sound, Owned, Listed, SessionsOf, Pinged, Running
      <3>6. QED
        BY <3>4, <3>5
    <2>3. QED
      BY <2>1, <2>2 DEF SoundNext
  <1>2. ASSUME NEW t \in Token, NEW op \in {"connect", "command", "subscribe"},
               Lookup(t, op)
        PROVE  SoundNext
    BY <1>2, SoundFrame DEF Lookup, memory, threads, SoundNext, IInv
  <1>3. CASE ConnectExpired
    <2>1. main.tok \in Token /\ Touch(main.tok, "connect")
      BY <1>3, <1>m DEF ConnectExpired
    <2>2. QED
      BY <1>3, <2>1, OtherTouch, SoundFrame
         DEF ConnectExpired, memory, threads, SoundNext, IInv
  <1>4. ASSUME NEW start \in BOOLEAN, ConnectClaim(start) PROVE SoundNext
    <2> DEFINE t == main.tok
    <2>1. t \in Token /\ Touch(t, "connect")
      BY <1>4, <1>m DEF ConnectClaim
    <2>2. stale' # "claimant"
          /\ (stale' = "none" => stale = "none" /\ t \in live /\ Obj(t) = t)
      BY <2>1, OtherTouch
    <2>3. ASSUME stale' = "none", NEW u \in Token PROVE Sound(u)'
      <3>1. stale = "none" /\ t \in live /\ Obj(t) = t
        BY <2>2, <2>3
      <3>2. Sound(u) /\ Sound(t)
        BY <2>1, <2>3, <3>1 DEF IInv
      <3>3. t \notin claimed /\ claimed' = claimed \cup {t}
        BY <1>4, <3>1 DEF ConnectClaim, Garbage
      <3>4. ~Running(t) /\ reaper[t] \notin {"claimed", "unlisted"} /\ pinger[t] = "none"
            /\ reaper[t] # "none"
        BY <3>1, <3>2, <3>3 DEF Sound, Owned, Listed, Pinged
      <3>5. /\ worker'[t] \in {worker[t], "create"}
            /\ reaper'[t] \in {reaper[t], "gone"}
            /\ u # t => worker'[u] = worker[u] /\ reaper'[u] = reaper[u]
        BY <1>4, <2>1, <3>1 DEF ConnectClaim, IInv, TypeOK
      <3>6. UNCHANGED <<live, table, sptr, sessions, est, welcomed, pinger>>
        BY <1>4 DEF ConnectClaim
      <3> HIDE DEF t
      <3>7. CASE u = t
        BY <3>1, <3>2, <3>3, <3>4, <3>5, <3>6, <3>7
           DEF Sound, Owned, Listed, SessionsOf, Pinged, Running
      <3>8. CASE u # t
        BY <3>2, <3>3, <3>5, <3>6, <3>8
           DEF Sound, Owned, Listed, SessionsOf, Pinged, Running
      <3>9. QED
        BY <3>7, <3>8
    <2>4. QED
      BY <2>2, <2>3 DEF SoundNext
  <1>5. CASE CommandArgument
    <2>1. main.tok \in Token /\ Touch(main.tok, "command")
      BY <1>5, <1>m DEF CommandArgument
    <2>2. QED
      BY <1>5, <2>1, OtherTouch, SoundFrame
         DEF CommandArgument, memory, threads, SoundNext, IInv
  <1>6. CASE CommandUse
    BY <1>6, SoundFrame DEF CommandUse, TouchSession, memory, threads, SoundNext, IInv
  <1>7. CASE SubscribeStore
    <2>1. main.tok \in Token /\ Touch(main.tok, "subscribe")
      BY <1>7, <1>m DEF SubscribeStore
    <2>2. QED
      BY <1>7, <2>1, OtherTouch, SoundFrame
         DEF SubscribeStore, memory, threads, SoundNext, IInv
  <1>8. QED
    BY <1>1, <1>2, <1>3, <1>4, <1>5, <1>6, <1>7 DEF Main

LEMMA ReaperStep ==
  ASSUME IInv, NEW t \in Token, Reaper(t)
  PROVE  SoundNext
  <1> USE DEF Sound, Owned, Listed, SessionsOf, Pinged, Running
  <1>1. CASE ReaperWake(t)
    BY <1>1 DEF ReaperWake, memory, SoundNext, IInv, TypeOK
  <1>2. CASE ReaperClaim(t)
    <2>1. stale' # "claimant"
          /\ (stale' = "none" => stale = "none" /\ t \in live /\ Obj(t) = t)
      BY <1>2, OtherTouch DEF ReaperClaim
    <2>2. ASSUME stale' = "none", NEW u \in Token PROVE Sound(u)'
      BY <1>2, <2>1, <2>2 DEF ReaperClaim, Garbage, IInv, TypeOK
    <2>3. QED
      BY <2>1, <2>2 DEF SoundNext
  <1>3. CASE ReaperGiveUp(t)
    <2>1. stale' # "claimant"
          /\ (stale' = "none" => stale = "none" /\ t \in live /\ Obj(t) = t)
      BY <1>3, OtherTouch DEF ReaperGiveUp
    <2>2. ASSUME stale' = "none", NEW u \in Token PROVE Sound(u)'
      BY <1>3, <2>1, <2>2 DEF ReaperGiveUp, memory, IInv, TypeOK
    <2>3. QED
      BY <2>1, <2>2 DEF SoundNext
  <1>4. CASE ReaperRemove(t)
    <2>1. stale' # "claimant"
          /\ (stale' = "none" => stale = "none" /\ t \in live /\ Obj(t) = t)
      BY <1>4, ClaimantTouch DEF ReaperRemove
    <2>2. ASSUME stale' = "none", NEW u \in Token PROVE Sound(u)'
      BY <1>4, <2>1, <2>2 DEF ReaperRemove, IInv, TypeOK
    <2>3. QED
      BY <2>1, <2>2 DEF SoundNext
  <1>5. CASE ReaperFree(t)
    <2>1. stale' # "claimant"
          /\ (stale' = "none" => stale = "none" /\ t \in live /\ Obj(t) = t)
      BY <1>5, ClaimantTouch DEF ReaperFree
    <2>2. ASSUME stale' = "none", NEW u \in Token PROVE Sound(u)'
      BY <1>5, <2>1, <2>2 DEF ReaperFree, IInv, TypeOK
    <2>3. QED
      BY <2>1, <2>2 DEF SoundNext
  <1>6. QED
    BY <1>1, <1>2, <1>3, <1>4, <1>5 DEF Reaper

LEMMA WorkerStep ==
  ASSUME IInv, NEW t \in Token, Worker(t)
  PROVE  SoundNext
  <1> USE DEF Sound, Owned, Listed, SessionsOf, Pinged, Running, WorkerGoes
  <1>0. CASE WorkerConnected(t) \/ WorkerRunEnds(t)
    BY <1>0 DEF WorkerConnected, WorkerRunEnds, memory, SoundNext, IInv, TypeOK
  <1> SUFFICES ASSUME Touch(t, "claimant"), Running(t),
                      WorkerCreate(t) \/ WorkerEvent(t) \/ WorkerWelcome(t)
                      \/ WorkerDecide(t) \/ WorkerRetry(t) \/ WorkerRemove(t)
                      \/ WorkerDestroy(t) \/ WorkerFree(t)
               PROVE  SoundNext
    BY <1>0 DEF Worker, WorkerCreate, WorkerEvent, WorkerWelcome, WorkerDecide,
                WorkerRetry, WorkerRemove, WorkerDestroy, WorkerFree
  <1>t. stale' # "claimant"
        /\ (stale' = "none" => stale = "none" /\ t \in live /\ Obj(t) = t)
    BY ClaimantTouch
  <1> SUFFICES ASSUME stale' = "none", NEW u \in Token PROVE Sound(u)'
    BY <1>t DEF SoundNext
  <1>s. stale = "none" /\ t \in live /\ Obj(t) = t /\ Sound(u) /\ Sound(t) /\ TypeOK
    BY <1>t DEF IInv
  <1> HIDE DEF Sound, Owned, Listed, SessionsOf, Pinged, Running
  <1>1. CASE WorkerCreate(t)
    <2>1. /\ sptr'[t] \in {NULL, <<t, retry[t]>>}
          /\ u # t => sptr'[u] = sptr[u] /\ worker'[u] = worker[u]
      BY <1>1, <1>s DEF WorkerCreate, TypeOK
    <2>2. \/ /\ worker'[t] = "remove" /\ sptr'[t] = NULL
             /\ sessions' = sessions /\ welcomed' = welcomed
          \/ /\ worker'[t] = "connecting" /\ sptr'[t] = <<t, retry[t]>>
             /\ sessions' = sessions \cup {<<t, retry[t]>>}
             /\ welcomed' = welcomed \ {t}
      BY <1>1, <1>s DEF WorkerCreate, TypeOK
    <2>3. worker[t] = "create" /\ UNCHANGED <<live, table, claimed, est, reaper, pinger>>
      BY <1>1 DEF WorkerCreate
    <2>4. Owned(u)' /\ Listed(u)' /\ Pinged(u)'
      BY <1>s, <2>1, <2>2, <2>3 DEF Sound, Owned, Listed, Pinged, Running
    <2>5. SessionsOf(u)'
      <3>1. sessions' \subseteq sessions \cup {<<t, retry[t]>>} /\ sessions \subseteq sessions'
        BY <2>2
      <3>2. <<t, retry[t]>>[1] = t
        OBVIOUS
      <3>3. CASE u = t
        BY <1>s, <2>1, <2>2, <2>3, <3>2, <3>3 DEF Sound, SessionsOf
      <3>4. CASE u # t
        BY <1>s, <2>1, <3>1, <3>2, <3>4 DEF Sound, SessionsOf
      <3>5. QED
        BY <3>3, <3>4
    <2>6. QED
      BY <2>4, <2>5 DEF Sound
  <1>2. CASE WorkerEvent(t)
    BY <1>2, <1>s DEF WorkerEvent, threads, Sound, Owned, Listed, SessionsOf, Pinged, Running
  <1>3. CASE WorkerWelcome(t)
    BY <1>3, <1>s DEF WorkerWelcome, Sound, Owned, Listed, SessionsOf, Pinged, Running, TypeOK
  <1>4. CASE WorkerDecide(t)
    <2>1. /\ worker[t] = "decide" /\ worker'[t] \in {"remove", "reset"}
          /\ u # t => worker'[u] = worker[u]
          /\ UNCHANGED <<live, table, claimed, sptr, est, reaper, pinger, welcomed>>
      BY <1>4, <1>s DEF WorkerDecide, TypeOK
    <2>2. \/ worker'[t] = "remove" /\ t \in est /\ sessions' = sessions
          \/ worker'[t] = "reset" /\ t \notin est /\ sessions' = sessions \ {sptr[t]}
      BY <1>4, <1>s DEF WorkerDecide, TypeOK
    <2>3. Owned(u)' /\ Listed(u)' /\ Pinged(u)'
      BY <1>s, <2>1, <2>2 DEF Sound, Owned, Listed, Pinged, Running
    <2>4. stale = "none" /\ Sound(t) /\ Sound(u)
      BY <1>s
    <2>5. SessionsOf(u)'
      BY <2>1, <2>2, <2>4 DEF Sound, SessionsOf
    <2>6. QED
      BY <2>3, <2>5 DEF Sound
  <1>5. CASE WorkerRetry(t)
    BY <1>5, <1>s DEF WorkerRetry, Sound, Owned, Listed, SessionsOf, Pinged, Running, TypeOK
  <1>6. CASE WorkerRemove(t)
    BY <1>6, <1>s DEF WorkerRemove, Sound, Owned, Listed, SessionsOf, Pinged, Running, TypeOK
  <1>7. CASE WorkerDestroy(t)
    <2>1. /\ worker[t] = "destroy" /\ worker'[t] = "free"
          /\ u # t => worker'[u] = worker[u]
          /\ sessions' = sessions \ {sptr[t]}
          /\ UNCHANGED <<live, table, claimed, sptr, est, reaper, pinger, welcomed>>
      BY <1>7, <1>s DEF WorkerDestroy, TypeOK
    <2>2. Owned(u)' /\ Listed(u)' /\ Pinged(u)'
      BY <1>s, <2>1 DEF Sound, Owned, Listed, Pinged, Running
    <2>3. NULL \notin sessions
      BY <1>s, NullAssumption DEF TypeOK, Session
    <2>4. SessionsOf(u)'
      BY <1>s, <2>1, <2>3 DEF Sound, SessionsOf
    <2>5. QED
      BY <2>2, <2>4 DEF Sound
  <1>8. CASE WorkerFree(t)
    BY <1>8, <1>s DEF WorkerFree, Sound, Owned, Listed, SessionsOf, Pinged, Running, TypeOK
  <1>9. QED
    BY <1>1, <1>2, <1>3, <1>4, <1>5, <1>6, <1>7, <1>8

LEMMA PingerStep ==
  ASSUME IInv, NEW t \in Token, Pinger(t)
  PROVE  SoundNext
  <1>1. CASE PingerCheck(t)
    <2>1. stale' # "claimant"
          /\ (stale' = "none" => stale = "none" /\ t \in live /\ Obj(t) = t)
      BY <1>1, OtherTouch DEF PingerCheck
    <2>2. pinger[t] = "check"
          /\ UNCHANGED <<live, table, claimed, sptr, sessions, est, welcomed, reaper, worker>>
          /\ \A u \in Token : pinger[u] = "none" <=> pinger'[u] = "none"
      BY <1>1 DEF PingerCheck, memory, IInv, TypeOK
    <2>3. QED
      BY <2>1, <2>2 DEF SoundNext, IInv, Sound, Owned, Listed, SessionsOf, Pinged, Running
  <1>2. CASE PingerSend(t)
    <2>1. stale' # "claimant" /\ (stale' = "none" => stale = "none")
      BY <1>2 DEF PingerSend, TouchSession, IInv
    <2>2. UNCHANGED <<live, table, claimed, sptr, sessions, est, welcomed, reaper, worker>>
          /\ \A u \in Token : pinger[u] = "none" <=> pinger'[u] = "none"
      BY <1>2 DEF PingerSend, memory, IInv, TypeOK
    <2>3. QED
      BY <2>1, <2>2 DEF SoundNext, IInv, Sound, Owned, Listed, SessionsOf, Pinged, Running
  <1>3. QED
    BY <1>1, <1>2 DEF Pinger

(* A restarted process has no client, no thread and no session. *)
LEMMA DieStep == IInv /\ Die => SoundNext
  BY DEF Die, SoundNext, IInv, TypeOK, Sound, Owned, Listed, SessionsOf, Pinged, Running

LEMMA NextIInv == IInv /\ [Next]_vars => IInv'
  <1> SUFFICES ASSUME IInv, [Next]_vars PROVE IInv'
    OBVIOUS
  <1>1. TypeOK'
    BY TypeStep DEF IInv
  <1>2. SoundNext
    <2>1. CASE UNCHANGED vars
      BY <2>1, SoundFrame DEF vars, SoundNext, IInv
    <2>2. QED
      BY <2>1, MainStep, ReaperStep, WorkerStep, PingerStep, DieStep DEF Next
  <1>3. QED
    BY <1>1, <1>2 DEF IInv, SoundNext

LEMMA Invariance == Spec => []IInv
  BY InitIInv, NextIInv, PTL DEF Spec

-----------------------------------------------------------------------------
(* Every variable keeps its type, whatever memory the threads reach. *)
THEOREM Typing == Spec => []TypeOK
  <1>1. IInv => TypeOK
    BY DEF IInv
  <1>2. QED
    BY <1>1, Invariance, PTL

(* client->mutex is an ownership lock: neither live_or_die after its        *)
(* trylock (client.c 87-92) nor client_run (client.c 97-151) is ever the    *)
(* first thread to follow a pointer to freed memory, however the handlers,  *)
(* the other clients and the ping threads interleave.                       *)
THEOREM ClaimIsOwnership == Spec => []ClaimantNeverFirstStale
  <1>1. IInv => ClaimantNeverFirstStale
    BY DEF IInv, ClaimantNeverFirstStale
  <1>2. QED
    BY <1>1, Invariance, PTL

(* wIRCd_clients never lists a freed client: client.c 88 before 92, 134     *)
(* before 147, on every path that frees.                                    *)
THEOREM TableIsSound == Spec => []ListedIsLive
  <1>1. IInv => ListedIsLive
    BY DEF IInv, TypeOK, ListedIsLive, Sound, Listed
  <1>2. QED
    BY <1>1, Invariance, PTL

(* handle_event_connect starts at most one ping thread for a client, over   *)
(* all the sessions its worker tries.                                       *)
THEOREM OnePingThread == Spec => []PingerOnce
  <1>1. IInv => PingerOnce
    BY DEF IInv, PingerOnce, Sound, Pinged
  <1>2. QED
    BY <1>1, Invariance, PTL

(* client_run destroys each session it creates exactly once before it frees *)
(* the client.                                                              *)
THEOREM SessionsBalanced == Spec => []SessionsDestroyedOnce
  <1>1. IInv => SessionsDestroyedOnce
    BY DEF IInv, SessionsDestroyedOnce, Sound, SessionsOf
  <1>2. QED
    BY <1>1, Invariance, PTL

=============================================================================
