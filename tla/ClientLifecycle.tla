--------------------------- MODULE ClientLifecycle ---------------------------
(***************************************************************************)
(* The life of a wIRCd client object, and of the IRC sessions it owns,     *)
(* across the threads that hold a pointer to it:                           *)
(*   - the main thread, which runs the Luna handlers one after the other   *)
(*     (client_init, client_connect, process_command,                      *)
(*     process_subscription): each looks the client up in the hash table   *)
(*     and then uses the pointer it found;                                 *)
(*   - the "live or die" thread of the client, started by client_init;     *)
(*   - the worker thread (client_run), started by client_connect;          *)
(*   - the ping thread (ping_server), started by the first welcome.        *)
(*                                                                         *)
(* A token names one client_init call.  addr[t] is the heap block that     *)
(* call allocated; a block is reused once its client has been freed.  A    *)
(* thread never tests whether its pointer is still good, so Obj(t) is the  *)
(* client that a pointer to t's block really reaches now.                  *)
(*                                                                         *)
(* A step through a pointer to freed memory is undefined behaviour.  Here  *)
(* the process either dies (Die, upstart then restarts it) or the thread   *)
(* goes on with whatever the block holds, and "stale" remembers who did so *)
(* first.                                                                  *)
(***************************************************************************)
EXTENDS Naturals, FiniteSets

CONSTANTS Token,        \* the session tokens the hub hands out (bound)
          Block,        \* heap blocks the allocator may return (bound)
          MaxRetries,   \* max_retries of main.c
          NoToken,      \* main thread: no client in hand
          NULL          \* a null pointer

ASSUME RetriesAssumption == MaxRetries \in Nat
ASSUME NoTokenAssumption == NoToken \notin Token
ASSUME NullAssumption == NULL \notin Token \X (0..MaxRetries)

(* The session object client_run of t creates on its n-th retry. *)
Session == Token \X (0..MaxRetries)

VARIABLES
  main,       \* the handler the main thread is in: step, client, session pointer
  live,       \* clients allocated and not freed
  addr,       \* addr[t]: the block calloc gave to client t, NULL before
  table,      \* tokens in wIRCd_clients
  claimed,    \* clients whose mutex is locked (nothing ever unlocks it)
  sptr,       \* client->session
  sessions,   \* session objects created and not destroyed
  est,        \* clients whose "estabilshed" is set
  welcomed,   \* workers whose current session has motd_received set
  retry,      \* the worker's local retry counter
  reaper,     \* the live_or_die thread of each client
  worker,     \* the client_run thread of each client
  pinger,     \* the ping_server thread of each client
  psess,      \* the session pointer a ping thread is about to send on
  stale       \* who first went through a pointer to freed memory

vars == <<main, live, addr, table, claimed, sptr, sessions, est, welcomed,
          retry, reaper, worker, pinger, psess, stale>>

threads == <<reaper, worker, pinger, retry, welcomed, psess>>
memory  == <<live, addr, table, claimed, sptr, sessions, est>>

ReaperPC == {"none", "failed", "asleep", "awake", "claimed", "unlisted", "gone"}
WorkerPC == {"none", "create", "connecting", "connected", "decide", "reset",
             "remove", "destroy", "free", "gone"}
PingerPC == {"none", "check", "send", "gone"}
MainPC   == {"idle", "connect", "command", "use", "subscribe"}
Toucher  == {"none", "connect", "command", "subscribe", "reaper", "pinger",
             "claimant"}

Idle == [pc |-> "idle", tok |-> NoToken, sess |-> NULL]

(* The client a pointer to t's block reaches: t while it is allocated, then *)
(* whoever was given the block since, else what is left of t.               *)
Obj(t) == IF t \in live \/ \A u \in live : addr[u] # addr[t]
          THEN t
          ELSE CHOOSE u \in live : addr[u] = addr[t]

Garbage(t) == Obj(t) \notin live

(* Thread "who" goes through its pointer to client t. *)
Touch(t, who) ==
  stale' = IF t \in live \/ stale # "none" THEN stale ELSE who

TouchSession(s, who) ==
  stale' = IF s \in sessions \/ stale # "none" THEN stale ELSE who

Init ==
  /\ main = Idle
  /\ live = {} /\ table = {} /\ claimed = {} /\ sessions = {} /\ est = {}
  /\ addr = [t \in Token |-> NULL]
  /\ sptr = [t \in Token |-> NULL]
  /\ welcomed = {}
  /\ retry = [t \in Token |-> 0]
  /\ reaper = [t \in Token |-> "none"]
  /\ worker = [t \in Token |-> "none"]
  /\ pinger = [t \in Token |-> "none"]
  /\ psess = [t \in Token |-> NULL]
  /\ stale = "none"

-----------------------------------------------------------------------------
(* The main thread. *)

(* client_init: allocate, list, start live_or_die.  If pthread_create fails *)
(* the failure is logged and the client has no reaper.                      *)
ClientInit(t, b) ==
  /\ main = Idle
  /\ reaper[t] = "none"
  /\ \A u \in live : addr[u] # b
  /\ live' = live \cup {t}
  /\ addr' = [addr EXCEPT ![t] = b]
  /\ table' = table \cup {t}
  /\ \E r \in {"asleep", "failed"} : reaper' = [reaper EXCEPT ![t] = r]
  /\ UNCHANGED <<main, claimed, sptr, sessions, est, welcomed, retry, worker,
                 pinger, psess, stale>>

(* The handlers' g_hash_table_lookup: the pointer found is kept, the table  *)
(* is not looked at again.  A token that is not listed is answered with an  *)
(* error and changes nothing.                                               *)
Lookup(t, op) ==
  /\ main = Idle
  /\ t \in table
  /\ main' = [pc |-> op, tok |-> t, sess |-> NULL]
  /\ UNCHANGED <<memory, threads, stale>>

(* client_connect, the mutex is already taken: "Expired sessionToken". *)
ConnectExpired ==
  LET t == main.tok IN
  /\ main.pc = "connect"
  /\ Obj(t) \in claimed \/ Garbage(t)
  /\ Touch(t, "connect")
  /\ main' = Idle
  /\ UNCHANGED <<memory, threads>>

(* client_connect takes the mutex and cancels live_or_die (its sleep is the *)
(* only cancellation point), then either rejects the request (no server, no *)
(* nick) or cannot start the thread, and the mutex stays locked; or starts  *)
(* client_run.                                                              *)
ConnectClaim(start) ==
  LET t == main.tok
      o == Obj(t) IN
  /\ main.pc = "connect"
  /\ o \notin claimed \/ Garbage(t)
  /\ Touch(t, "connect")
  /\ claimed' = claimed \cup {o}
  /\ reaper' = IF reaper[o] = "asleep" THEN [reaper EXCEPT ![o] = "gone"]
                                       ELSE reaper
  /\ IF start THEN /\ worker' = [worker EXCEPT ![o] = "create"]
                   /\ retry' = [retry EXCEPT ![o] = 0]
              ELSE UNCHANGED <<worker, retry>>
  /\ main' = Idle
  /\ UNCHANGED <<live, addr, table, sptr, sessions, est, welcomed, pinger,
                 psess>>

(* process_command reads client->session to pass it to irc_cmd_*. *)
CommandArgument ==
  LET t == main.tok IN
  /\ main.pc = "command"
  /\ Touch(t, "command")
  /\ main' = [pc |-> "use", tok |-> t, sess |-> sptr[Obj(t)]]
  /\ UNCHANGED <<memory, threads>>

(* irc_cmd_* reads and writes the session.  With a null pointer it cannot   *)
(* return: only Die is left.                                                *)
CommandUse ==
  /\ main.pc = "use"
  /\ main.sess # NULL
  /\ TouchSession(main.sess, "command")
  /\ main' = Idle
  /\ UNCHANGED <<memory, threads>>

(* process_subscription writes the message into the client. *)
SubscribeStore ==
  /\ main.pc = "subscribe"
  /\ Touch(main.tok, "subscribe")
  /\ main' = Idle
  /\ UNCHANGED <<memory, threads>>

-----------------------------------------------------------------------------
(* live_or_die. *)

ReaperWake(t) ==
  /\ reaper[t] = "asleep"
  /\ reaper' = [reaper EXCEPT ![t] = "awake"]
  /\ UNCHANGED <<main, memory, worker, pinger, retry, welcomed, psess, stale>>

(* Mutant: live_or_die does not test its trylock. *)
ReaperClaimUntested(t) ==
  /\ reaper[t] = "awake"
  /\ Touch(t, "reaper")
  /\ claimed' = claimed \cup {Obj(t)}
  /\ reaper' = [reaper EXCEPT ![t] = "claimed"]
  /\ UNCHANGED <<main, live, addr, table, sptr, sessions, est, worker, pinger,
                 retry, welcomed, psess>>

ReaperClaim(t) ==
  /\ reaper[t] = "awake"
  /\ Obj(t) \notin claimed \/ Garbage(t)
  /\ Touch(t, "reaper")
  /\ claimed' = claimed \cup {Obj(t)}
  /\ reaper' = [reaper EXCEPT ![t] = "claimed"]
  /\ UNCHANGED <<main, live, addr, table, sptr, sessions, est, worker, pinger,
                 retry, welcomed, psess>>

ReaperGiveUp(t) ==
  /\ reaper[t] = "awake"
  /\ Obj(t) \in claimed \/ Garbage(t)
  /\ Touch(t, "reaper")
  /\ reaper' = [reaper EXCEPT ![t] = "gone"]
  /\ UNCHANGED <<main, memory, worker, pinger, retry, welcomed, psess>>

ReaperRemove(t) ==
  /\ reaper[t] = "claimed"
  /\ Touch(t, "claimant")
  /\ table' = table \ {Obj(t)}
  /\ reaper' = [reaper EXCEPT ![t] = "unlisted"]
  /\ UNCHANGED <<main, live, addr, claimed, sptr, sessions, est, worker,
                 pinger, retry, welcomed, psess>>

(* Mutant: live_or_die unlists the client but does not free it. *)
ReaperFreeForgotten(t) ==
  /\ reaper[t] = "unlisted"
  /\ Touch(t, "claimant")
  /\ reaper' = [reaper EXCEPT ![t] = "gone"]
  /\ UNCHANGED <<main, memory, worker, pinger, retry, welcomed, psess>>

ReaperFree(t) ==
  /\ reaper[t] = "unlisted"
  /\ ~Garbage(t)
  /\ Touch(t, "claimant")
  /\ live' = live \ {Obj(t)}
  /\ reaper' = [reaper EXCEPT ![t] = "gone"]
  /\ UNCHANGED <<main, addr, table, claimed, sptr, sessions, est, worker,
                 pinger, retry, welcomed, psess>>

-----------------------------------------------------------------------------
(* client_run. *)

WorkerGoes(t, pc) == worker' = [worker EXCEPT ![t] = pc]

(* irc_create_session, then irc_connect: a connection that cannot be begun  *)
(* makes irc_run return at once, which is WorkerRunEnds from "connecting".  *)
WorkerCreate(t) ==
  /\ worker[t] = "create"
  /\ Touch(t, "claimant")
  /\ \/ /\ sptr' = [sptr EXCEPT ![Obj(t)] = NULL]
        /\ WorkerGoes(t, "remove")
        /\ UNCHANGED <<sessions, welcomed>>
     \/ /\ sptr' = [sptr EXCEPT ![Obj(t)] = <<t, retry[t]>>]
        /\ sessions' = sessions \cup {<<t, retry[t]>>}
        /\ welcomed' = welcomed \ {t}
        /\ WorkerGoes(t, "connecting")
  /\ UNCHANGED <<main, live, addr, table, claimed, est, reaper, pinger, retry,
                 psess>>

WorkerConnected(t) ==
  /\ worker[t] = "connecting"
  /\ WorkerGoes(t, "connected")
  /\ UNCHANGED <<main, memory, reaper, pinger, retry, welcomed, psess, stale>>

(* Any line from the server ends in process_event, which sets estabilshed.  *)
WorkerEvent(t) ==
  /\ worker[t] = "connected"
  /\ Touch(t, "claimant")
  /\ est' = est \cup {Obj(t)}
  /\ UNCHANGED <<main, live, addr, table, claimed, sptr, sessions, threads>>

(* The first 376 or 422 of a session: handle_event_connect starts the ping  *)
(* thread (the result of pthread_create is ignored), then process_event.    *)
WorkerWelcome(t) ==
  /\ worker[t] = "connected"
  /\ t \notin welcomed
  /\ Touch(t, "claimant")
  /\ welcomed' = welcomed \cup {t}
  /\ est' = est \cup {Obj(t)}
  /\ \E p \in {"check", pinger[Obj(t)]} :
       pinger' = [pinger EXCEPT ![Obj(t)] = p]
  /\ UNCHANGED <<main, live, addr, table, claimed, sptr, sessions, reaper,
                 worker, retry, psess>>

(* irc_run returns: the connection failed, the peer closed it, select       *)
(* failed, or a handler disconnected.                                       *)
WorkerRunEnds(t) ==
  /\ worker[t] \in {"connecting", "connected"}
  /\ WorkerGoes(t, "decide")
  /\ UNCHANGED <<main, memory, reaper, pinger, retry, welcomed, psess, stale>>

(* Mutant: client_run retries although the session was established. *)
WorkerDecideAlwaysRetries(t) ==
  /\ worker[t] = "decide"
  /\ Touch(t, "claimant")
  /\ sessions' = sessions \ {sptr[Obj(t)]}
  /\ WorkerGoes(t, "reset")
  /\ UNCHANGED <<main, live, addr, table, claimed, sptr, est, reaper, pinger,
                 retry, welcomed, psess>>

WorkerDecide(t) ==
  /\ worker[t] = "decide"
  /\ Touch(t, "claimant")
  /\ IF Obj(t) \in est
     THEN WorkerGoes(t, "remove") /\ UNCHANGED sessions
     ELSE /\ sessions' = sessions \ {sptr[Obj(t)]}
          /\ WorkerGoes(t, "reset")
  /\ UNCHANGED <<main, live, addr, table, claimed, sptr, est, reaper, pinger,
                 retry, welcomed, psess>>

(* Mutant: client->session is not cleared after irc_destroy_session. *)
WorkerRetryKeepsPointer(t) ==
  /\ worker[t] = "reset"
  /\ Touch(t, "claimant")
  /\ IF retry[t] + 1 <= MaxRetries
     THEN WorkerGoes(t, "create") /\ retry' = [retry EXCEPT ![t] = @ + 1]
     ELSE WorkerGoes(t, "remove") /\ UNCHANGED retry
  /\ UNCHANGED <<main, memory, reaper, pinger, welcomed, psess, sptr>>

(* Mutant: retry is not counted. *)
WorkerRetryUncounted(t) ==
  /\ worker[t] = "reset"
  /\ Touch(t, "claimant")
  /\ sptr' = [sptr EXCEPT ![Obj(t)] = NULL]
  /\ WorkerGoes(t, "create")
  /\ UNCHANGED <<main, live, addr, table, claimed, sessions, est, reaper,
                 pinger, welcomed, psess, retry>>

WorkerRetry(t) ==
  /\ worker[t] = "reset"
  /\ Touch(t, "claimant")
  /\ sptr' = [sptr EXCEPT ![Obj(t)] = NULL]
  /\ IF retry[t] + 1 <= MaxRetries
     THEN WorkerGoes(t, "create") /\ retry' = [retry EXCEPT ![t] = @ + 1]
     ELSE WorkerGoes(t, "remove") /\ UNCHANGED retry
  /\ UNCHANGED <<main, live, addr, table, claimed, sessions, est, reaper,
                 pinger, welcomed, psess>>

WorkerRemove(t) ==
  /\ worker[t] = "remove"
  /\ Touch(t, "claimant")
  /\ table' = table \ {Obj(t)}
  /\ WorkerGoes(t, "destroy")
  /\ UNCHANGED <<main, live, addr, claimed, sptr, sessions, est, reaper,
                 pinger, retry, welcomed, psess>>

(* Mutant: client_run returns without freeing the client. *)
WorkerDestroyReturns(t) ==
  /\ worker[t] = "destroy"
  /\ Touch(t, "claimant")
  /\ sessions' = sessions \ {sptr[Obj(t)]}
  /\ WorkerGoes(t, "gone")
  /\ UNCHANGED <<main, live, addr, table, claimed, sptr, est, reaper, pinger,
                 retry, welcomed, psess>>

WorkerDestroy(t) ==
  /\ worker[t] = "destroy"
  /\ Touch(t, "claimant")
  /\ sessions' = sessions \ {sptr[Obj(t)]}
  /\ WorkerGoes(t, "free")
  /\ UNCHANGED <<main, live, addr, table, claimed, sptr, est, reaper, pinger,
                 retry, welcomed, psess>>

WorkerFree(t) ==
  /\ worker[t] = "free"
  /\ ~Garbage(t)
  /\ Touch(t, "claimant")
  /\ live' = live \ {Obj(t)}
  /\ WorkerGoes(t, "gone")
  /\ UNCHANGED <<main, addr, table, claimed, sptr, sessions, est, reaper,
                 pinger, retry, welcomed, psess>>

-----------------------------------------------------------------------------
(* ping_server: nothing ever clears client->ping_server, so the loop ends   *)
(* only when the memory that held the flag happens to read 0.               *)

PingerCheck(t) ==
  /\ pinger[t] = "check"
  /\ Touch(t, "pinger")
  /\ \/ /\ pinger' = [pinger EXCEPT ![t] = "send"]
        /\ psess' = [psess EXCEPT ![t] = sptr[Obj(t)]]
     \/ Garbage(t) /\ pinger' = [pinger EXCEPT ![t] = "gone"] /\ UNCHANGED psess
  /\ UNCHANGED <<main, memory, reaper, worker, retry, welcomed>>

PingerSend(t) ==
  /\ pinger[t] = "send"
  /\ psess[t] # NULL
  /\ TouchSession(psess[t], "pinger")
  /\ pinger' = [pinger EXCEPT ![t] = "check"]
  /\ psess' = [psess EXCEPT ![t] = NULL]
  /\ UNCHANGED <<main, memory, reaper, worker, retry, welcomed>>

-----------------------------------------------------------------------------
(* A thread is about to go through a pointer to freed memory, through a     *)
(* null session pointer, or client_connect to cancel a live_or_die thread   *)
(* that was never created: the process may be killed.  upstart respawns it, *)
(* with no client; tokens are not handed out twice.                         *)
Dangling ==
  \/ main.pc = "connect" /\ main.tok \notin claimed /\ reaper[main.tok] = "failed"
  \/ main.pc \in {"connect", "command", "subscribe"} /\ main.tok \notin live
  \/ main.pc = "use" /\ main.sess \notin sessions
  \/ \E t \in Token \ live :
       \/ reaper[t] \in {"awake", "claimed", "unlisted"}
       \/ worker[t] \notin {"none", "gone"}
       \/ pinger[t] = "check"
  \/ \E t \in Token : pinger[t] = "send" /\ psess[t] \notin sessions

Die ==
  /\ Dangling
  /\ main' = Idle
  /\ live' = {} /\ table' = {} /\ claimed' = {} /\ sessions' = {} /\ est' = {}
  /\ sptr' = [t \in Token |-> NULL]
  /\ welcomed' = {}
  /\ retry' = [t \in Token |-> 0]
  /\ reaper' = [t \in Token |-> IF reaper[t] = "none" THEN "none" ELSE "gone"]
  /\ worker' = [t \in Token |-> "none"]
  /\ pinger' = [t \in Token |-> "none"]
  /\ psess' = [t \in Token |-> NULL]
  /\ stale' = "none"
  /\ UNCHANGED addr

Main ==
  \/ \E t \in Token, b \in Block : ClientInit(t, b)
  \/ \E t \in Token, op \in {"connect", "command", "subscribe"} : Lookup(t, op)
  \/ ConnectExpired
  \/ \E start \in BOOLEAN : ConnectClaim(start)
  \/ CommandArgument \/ CommandUse
  \/ SubscribeStore

Reaper(t) ==
  \/ ReaperWake(t) \/ ReaperClaim(t) \/ ReaperGiveUp(t)
  \/ ReaperRemove(t) \/ ReaperFree(t)

Worker(t) ==
  \/ WorkerCreate(t) \/ WorkerConnected(t)
  \/ WorkerEvent(t) \/ WorkerWelcome(t) \/ WorkerRunEnds(t)
  \/ WorkerDecide(t) \/ WorkerRetry(t)
  \/ WorkerRemove(t) \/ WorkerDestroy(t) \/ WorkerFree(t)

Pinger(t) == PingerCheck(t) \/ PingerSend(t)

Next ==
  \/ Main
  \/ \E t \in Token : Reaper(t) \/ Worker(t) \/ Pinger(t)
  \/ Die

Spec == Init /\ [][Next]_vars

(* The scheduler runs a thread that can run, sleep(60) and usleep return,   *)
(* and the TCP stack gives up a connection that does not come about.        *)
(* Nothing makes the server of an established connection say or end         *)
(* anything, so WorkerEvent, WorkerWelcome and the end of a connected       *)
(* irc_run are not fair, and neither is any request of the applications.    *)
WorkerOwn(t) ==
  \/ WorkerCreate(t)
  \/ worker[t] = "connecting" /\ WorkerRunEnds(t)
  \/ WorkerDecide(t) \/ WorkerRetry(t)
  \/ WorkerRemove(t) \/ WorkerDestroy(t) \/ WorkerFree(t)

FairSpec ==
  /\ Spec
  /\ \A t \in Token : WF_vars(Reaper(t)) /\ WF_vars(WorkerOwn(t))

-----------------------------------------------------------------------------
(* Properties. *)

TypeOK ==
  /\ main \in [pc : MainPC, tok : Token \cup {NoToken},
              sess : Session \cup {NULL}]
  /\ live \in SUBSET Token /\ table \in SUBSET Token
  /\ claimed \in SUBSET Token /\ est \in SUBSET Token
  /\ welcomed \in SUBSET Token
  /\ addr \in [Token -> Block \cup {NULL}]
  /\ sptr \in [Token -> Session \cup {NULL}]
  /\ psess \in [Token -> Session \cup {NULL}]
  /\ sessions \in SUBSET Session
  /\ retry \in [Token -> 0..MaxRetries]
  /\ reaper \in [Token -> ReaperPC]
  /\ worker \in [Token -> WorkerPC]
  /\ pinger \in [Token -> PingerPC]
  /\ stale \in Toucher
  /\ main.pc = "idle" <=> main.tok = NoToken

(* Taking client->mutex makes a thread the only one that may free the       *)
(* client: the thread that holds it (live_or_die after its trylock, or the  *)
(* worker client_connect started) never is the first to follow a pointer to *)
(* freed memory, so it frees the client once and while it is allocated.     *)
ClaimantNeverFirstStale == stale # "claimant"

(* Both threads that free a client take it out of wIRCd_clients first, so a *)
(* lookup never returns a client that is already freed.                     *)
ListedIsLive == stale = "none" => table \subseteq live

(* A client gets at most one ping thread: a worker that may still see the   *)
(* first welcome of a session has not started one, in this session or in    *)
(* one it gave up before.                                                   *)
PingerOnce ==
  stale = "none" =>
    \A t \in Token :
      (\/ worker[t] \in {"create", "connecting", "reset"}
       \/ worker[t] = "connected" /\ t \notin welcomed) => pinger[t] = "none"

(* client_run destroys exactly the sessions it created: the one it destroys *)
(* still exists, and no session is left when it frees the client.           *)
SessionsDestroyedOnce ==
  stale = "none" =>
    \A t \in Token :
      /\ worker[t] = "decide" => sptr[t] \in sessions
      /\ worker[t] = "destroy" => sptr[t] \in sessions \cup {NULL}
      /\ worker[t] \in {"create", "reset", "free", "gone"} =>
           \A n \in 0..MaxRetries : <<t, n>> \notin sessions

(* A client nobody connects does not stay: unless client_connect takes its  *)
(* mutex first, live_or_die takes it, and then frees the client.            *)
UnclaimedIsReaped ==
  \A t \in Token :
    /\ reaper[t] = "asleep" ~> \/ t \notin live
                               \/ t \in claimed /\ reaper[t] = "gone"
    /\ reaper[t] = "claimed" ~> t \notin live

(* A worker does not retry for ever: either it reaches the server, or it    *)
(* gives up and the client is gone from the table and from memory.          *)
WorkerConnectsOrFrees ==
  \A t \in Token :
    worker[t] = "create" ~> worker[t] = "connected" \/ t \notin live

(* Once the run of a session that got an answer is over the client is       *)
(* freed, whatever the main thread does meanwhile.                          *)
FinishedIsFreed ==
  \A t \in Token : worker[t] = "decide" /\ t \in est ~> t \notin live

(* libircclient.h asks of every irc_cmd_ call "An initiated and connected   *)
(* session": the session pointer process_command passes is not null.  It is *)
(* null for a command looked up before the worker has created a session, so *)
(* that this is not kept.                                                   *)
CommandHasSession == main.pc = "use" => main.sess # NULL

(* libircclient.h on irc_destroy_session: "After calling this function, you *)
(* should not use this session object anymore."  The ping thread does not.  *)
PingerSessionAlive ==
  \A t \in Token : pinger[t] = "send" => psess[t] \in sessions

=============================================================================
