---------------------------------- MODULE Dcc ----------------------------------
(***************************************************************************)
(* The list of DCC sessions of one irc_session_t.  The worker walks it     *)
(* twice in each turn of irc_run: before select, to drop what is finished  *)
(* or timed out and to watch the sockets, and after it, to serve them.     *)
(* Another thread of the application invites, accepts, declines and        *)
(* destroys.  mutex_dcc guards the list, and the worker gives it up around *)
(* every callback; operations of the other thread are one step each, since *)
(* they hold the mutex throughout.  What the sessions transfer is in       *)
(* DccTransfer: here any of its outcomes may come.                         *)
(*                                                                         *)
(* A session is the number of its creation.  Nothing is assumed of what    *)
(* the code leaves open in its windows without the mutex: spoiled says     *)
(* that one of them was hit.                                               *)
(***************************************************************************)
EXTENDS Naturals, Sequences

CONSTANT MaxSessions  \* bound: DCC sessions created

ASSUME BoundAssumption == MaxSessions \in Nat

Id == 1..MaxSessions
Nobody == 0
Mode == {"CHAT", "SENDFILE", "RECVFILE"}
Waiting == {"INIT", "LISTENING", "CONNECTING"}
Linked == {"CONNECTED", "CONFIRM_SIZE"}

VARIABLES
  list,      \* dcc_sessions, the head first
  last,      \* dcc_last_id: sessions created so far
  state,     \* of each session: its state, kept by the memory when freed
  mode,      \* dccmode
  open,      \* sock is a descriptor, not -1
  hasCb,     \* cb is set
  late,      \* sessions older than dcc_timeout
  freed,     \* how often each session was freed
  lock,      \* the worker has locked mutex_dcc
  pc,        \* where the worker is
  cur,       \* the session it is at
  next,      \* the dcc_next it saved before a callback
  why,       \* what the callback it is in was called for
  inset,     \* what select found readable
  outset,    \* what select found writable
  app,       \* the session the other thread is inviting to, or Nobody
  told,      \* sessions whose end the worker has begun to tell
  spoiled    \* a window of the code was hit

sessions == <<list, last, state, mode, open, hasCb, freed>>
worker == <<lock, pc, cur, next, why, inset, outset, told>>
vars == <<sessions, worker, late, app, spoiled>>

Init ==
  /\ list = <<>> /\ last = 0
  /\ state = [s \in Id |-> "none"] /\ mode = [s \in Id |-> "CHAT"]
  /\ open = [s \in Id |-> FALSE] /\ hasCb = [s \in Id |-> FALSE]
  /\ late = {} /\ freed = [s \in Id |-> 0]
  /\ lock = FALSE /\ pc = "top" /\ cur = Nobody /\ next = Nobody /\ why = "data"
  /\ inset = {} /\ outset = {} /\ told = {}
  /\ app = Nobody /\ spoiled = FALSE

Members(l) == {l[i] : i \in 1..Len(l)}
First(l) == IF l = <<>> THEN Nobody ELSE l[1]

(* The next pointer of a session, Nobody at the end.  That of a session     *)
(* which is no longer in the list is read from freed memory.                *)
Following(s) ==
  IF \E i \in 1..(Len(list) - 1) : list[i] = s
  THEN list[1 + CHOOSE i \in 1..(Len(list) - 1) : list[i] = s]
  ELSE Nobody

(* The list with a session unlinked from it. *)
Without(s) ==
  IF s \in Members(list)
  THEN LET at == CHOOSE i \in 1..Len(list) : list[i] = s
       IN  SubSeq(list, 1, at - 1) \o SubSeq(list, at + 1, Len(list))
  ELSE list

(* libirc_remove_dcc_session, n times over. *)
Remove(s, n) ==
  /\ list' = Without(s)
  /\ open' = [open EXCEPT ![s] = FALSE]
  /\ freed' = [freed EXCEPT ![s] = @ + n]

(* Mutant: the socket is left open. *)
DestroyKeepsSocket(s) ==
  /\ state' = [state EXCEPT ![s] = "REMOVED"]
  /\ UNCHANGED open

(* libirc_dcc_destroy_nolock *)
Destroy(s) ==
  /\ open' = [open EXCEPT ![s] = FALSE]
  /\ state' = [state EXCEPT ![s] = "REMOVED"]

(* libirc_new_dcc_session *)
Create(s, st, m) ==
  /\ last' = s
  /\ list' = <<s>> \o list
  /\ state' = [state EXCEPT ![s] = st]
  /\ mode' = [mode EXCEPT ![s] = m]
  /\ open' = [open EXCEPT ![s] = TRUE]

-----------------------------------------------------------------------------
(* The worker: callbacks. *)

(* The worker gives the mutex up and calls; a callback counts as begun from *)
(* here on.  Before select it keeps the successor in dcc_next.              *)
Call(w) ==
  /\ pc' = IF hasCb[cur] THEN "call" ELSE "crashed"
  /\ why' = w
  /\ lock' = FALSE
  /\ next' = IF pc = "pre" THEN Following(cur) ELSE Nobody
  /\ told' = IF w \in {"timeout", "finished", "received", "failed"} THEN told \cup {cur} ELSE told
  /\ UNCHANGED <<cur, inset, outset>>

(* To the next session of the list, after select. *)
Advance ==
  /\ cur' = Following(cur)
  /\ pc' = "in"
  /\ UNCHANGED <<next, why, inset, outset, told>>

-----------------------------------------------------------------------------
(* The worker: libirc_dcc_add_descriptors. *)

Begin ==
  /\ pc = "top" /\ ~lock
  /\ lock' = TRUE /\ pc' = "pre" /\ cur' = First(list)
  /\ UNCHANGED <<sessions, next, why, inset, outset, late, app, spoiled, told>>

(* Mutant: requests are not timed out. *)
TimedOutButRequests == state[cur] \in Waiting \ {"INIT"} /\ cur \in late

TimedOut == state[cur] \in Waiting /\ cur \in late

Timeout ==
  /\ pc = "pre" /\ cur # Nobody /\ TimedOut /\ state[cur] # "INIT"
  /\ Call("timeout")
  /\ UNCHANGED <<sessions, late, app, spoiled>>

(* A request nobody answered in time is dropped without a word. *)
DropRequest ==
  /\ pc = "pre" /\ cur # Nobody /\ TimedOut /\ state[cur] = "INIT"
  /\ Remove(cur, 1)
  /\ cur' = Following(cur)
  /\ UNCHANGED <<last, state, mode, hasCb, lock, pc, next, why, inset, outset, late, app, spoiled, told>>

FileEnds ==
  /\ pc = "pre" /\ cur # Nobody /\ state[cur] = "CONNECTED" /\ mode[cur] = "SENDFILE"
  /\ Call("finished")
  /\ UNCHANGED <<sessions, late, app, spoiled>>

(* Mutant: the successor is read from the session that was freed. *)
CleanUpStays ==
  /\ pc = "pre" /\ cur # Nobody /\ state[cur] = "REMOVED"
  /\ Remove(cur, 1)
  /\ UNCHANGED <<last, state, mode, hasCb, lock, pc, cur, next, why, inset, outset, late, app, spoiled, told>>

(* Mutant: the removed session is skipped, but stays in the list. *)
CleanUpForgets ==
  /\ pc = "pre" /\ cur # Nobody /\ state[cur] = "REMOVED"
  /\ cur' = Following(cur)
  /\ UNCHANGED <<sessions, lock, pc, next, why, inset, outset, late, app, spoiled, told>>

CleanUp ==
  /\ pc = "pre" /\ cur # Nobody /\ state[cur] = "REMOVED"
  /\ Remove(cur, 1)
  /\ cur' = Following(cur)
  /\ UNCHANGED <<last, state, mode, hasCb, lock, pc, next, why, inset, outset, late, app, spoiled, told>>

Keep ==
  /\ pc = "pre" /\ cur # Nobody /\ ~TimedOut /\ state[cur] # "REMOVED"
  /\ cur' = Following(cur)
  /\ UNCHANGED <<sessions, lock, pc, next, why, inset, outset, late, app, spoiled, told>>

WatchedIn == {s \in Members(list) :
  state[s] \in {"LISTENING", "CONNECTED"} \/ (state[s] = "CONFIRM_SIZE" /\ mode[s] = "SENDFILE")}

WatchedOut == {s \in Members(list) :
  \/ state[s] = "CONNECTING"
  \/ state[s] = "CONNECTED" /\ mode[s] # "RECVFILE"
  \/ state[s] = "CONFIRM_SIZE" /\ mode[s] = "RECVFILE"}

Select ==
  /\ pc = "pre" /\ cur = Nobody
  /\ inset' \in SUBSET WatchedIn /\ outset' \in SUBSET WatchedOut
  /\ lock' = FALSE /\ pc' = "selected"
  /\ UNCHANGED <<sessions, cur, next, why, late, app, spoiled, told>>

-----------------------------------------------------------------------------
(* The worker: libirc_dcc_process_descriptors. *)

BeginWalk ==
  /\ pc = "selected" /\ ~lock
  /\ lock' = TRUE /\ pc' = "in" /\ cur' = First(list)
  /\ UNCHANGED <<sessions, next, why, inset, outset, late, app, spoiled, told>>

(* The answer to an invitation, or to a connect of ours.  Only a chat is    *)
(* told, and it is told of a failure too.                                   *)
Answered ==
  \/ state[cur] = "LISTENING" /\ cur \in inset
  \/ state[cur] = "CONNECTING" /\ cur \in outset

Succeeds ==
  /\ pc = "in" /\ cur # Nobody /\ Answered
  /\ state' = [state EXCEPT ![cur] = "CONNECTED"]
  /\ IF mode[cur] = "CHAT" THEN Call("connected")
     ELSE pc' = "out" /\ UNCHANGED <<lock, cur, next, why, inset, outset, told>>
  /\ spoiled' = (spoiled \/ cur = app)
  /\ UNCHANGED <<list, last, mode, open, hasCb, freed, late, app>>

FailsChat ==
  /\ pc = "in" /\ cur # Nobody /\ Answered /\ mode[cur] = "CHAT"
  /\ Call("failed")
  /\ spoiled' = (spoiled \/ cur = app)
  /\ UNCHANGED <<sessions, late, app>>

FailsFile ==
  /\ pc = "in" /\ cur # Nobody /\ Answered /\ mode[cur] # "CHAT"
  /\ Destroy(cur)
  /\ Advance
  /\ spoiled' = (spoiled \/ cur = app)
  /\ UNCHANGED <<list, last, mode, hasCb, freed, lock, late, app>>

Readable == pc = "in" /\ cur # Nobody /\ state[cur] \in Linked /\ cur \in inset

RecvFails ==
  /\ Readable
  /\ Call("failed")
  /\ UNCHANGED <<sessions, late, app, spoiled>>

(* All or a part of an acknowledgement. *)
RecvConfirm ==
  /\ Readable /\ state[cur] = "CONFIRM_SIZE"
  /\ \E st \in Linked : state' = [state EXCEPT ![cur] = st]
  /\ pc' = "out"
  /\ UNCHANGED <<list, last, mode, open, hasCb, freed, lock, cur, next, why, inset, outset, late, app, spoiled, told>>

(* A sender gets no data while it is CONNECTED: DccTransfer's NoAbort. *)
RecvData ==
  /\ Readable /\ state[cur] = "CONNECTED" /\ mode[cur] # "SENDFILE"
  /\ Call("data")
  /\ UNCHANGED <<sessions, late, app, spoiled>>

NothingIn ==
  /\ pc = "in" /\ cur # Nobody /\ ~Answered /\ ~Readable
  /\ pc' = "out"
  /\ UNCHANGED <<sessions, lock, cur, next, why, inset, outset, late, app, spoiled, told>>

Writable == pc = "out" /\ state[cur] \in Linked /\ cur \in outset

SendFails ==
  /\ Writable
  /\ Call("failed")
  /\ UNCHANGED <<sessions, late, app, spoiled>>

SendChunk ==
  /\ Writable /\ state[cur] = "CONNECTED" /\ mode[cur] = "SENDFILE"
  /\ state' = [state EXCEPT ![cur] = "CONFIRM_SIZE"]
  /\ Call("sent")
  /\ UNCHANGED <<list, last, mode, open, hasCb, freed, late, app, spoiled>>

(* The acknowledgement is sent, and the file is not complete. *)
SendConfirm ==
  /\ Writable /\ state[cur] = "CONFIRM_SIZE" /\ mode[cur] = "RECVFILE"
  /\ state' = [state EXCEPT ![cur] = "CONNECTED"]
  /\ Advance
  /\ UNCHANGED <<list, last, mode, open, hasCb, freed, lock, late, app, spoiled>>

Received ==
  /\ Writable /\ state[cur] = "CONFIRM_SIZE" /\ mode[cur] = "RECVFILE"
  /\ Call("received")
  /\ UNCHANGED <<sessions, late, app, spoiled>>

(* Nothing to send, all or a part of a chat's text, a part of an            *)
(* acknowledgement.                                                         *)
Pass ==
  /\ pc = "out" /\ ~(Writable /\ state[cur] = "CONNECTED" /\ mode[cur] = "SENDFILE")
  /\ Advance
  /\ UNCHANGED <<sessions, lock, late, app, spoiled>>

(* The mutex is unlocked here, whoever has it. *)
EndWalk ==
  /\ pc = "in" /\ cur = Nobody
  /\ lock' = FALSE /\ pc' = "irc" /\ inset' = {} /\ outset' = {}
  /\ UNCHANGED <<sessions, cur, next, why, late, app, spoiled, told>>

-----------------------------------------------------------------------------
(* The worker: after a callback. *)

(* The memory just freed is looked at once more: a session destroyed in the *)
(* meantime is removed a second time.                                       *)
AfterTimeout ==
  /\ pc = "call" /\ why = "timeout" /\ ~lock
  /\ Remove(cur, IF state[cur] = "REMOVED" THEN 2 ELSE 1)
  /\ lock' = TRUE /\ pc' = "pre" /\ cur' = next /\ next' = Nobody
  /\ UNCHANGED <<last, state, mode, hasCb, why, inset, outset, late, app, spoiled, told>>

AfterFinished ==
  /\ pc = "call" /\ why = "finished" /\ ~lock
  /\ Remove(cur, 1)
  /\ state' = [state EXCEPT ![cur] = "REMOVED"]
  /\ lock' = TRUE /\ pc' = "pre" /\ cur' = next /\ next' = Nobody
  /\ UNCHANGED <<last, mode, hasCb, why, inset, outset, late, app, spoiled, told>>

(* Mutant: a failed session is left as it is. *)
AfterFailedForgets ==
  /\ pc = "call" /\ why = "failed" /\ ~lock
  /\ lock' = TRUE
  /\ Advance
  /\ UNCHANGED <<sessions, late, app, spoiled>>

AfterFailed ==
  /\ pc = "call" /\ why = "failed" /\ ~lock
  /\ Destroy(cur)
  /\ lock' = TRUE
  /\ Advance
  /\ UNCHANGED <<list, last, mode, hasCb, freed, late, app, spoiled>>

AfterConnected ==
  /\ pc = "call" /\ why = "connected" /\ ~lock
  /\ lock' = TRUE /\ pc' = "out"
  /\ UNCHANGED <<sessions, cur, next, why, inset, outset, late, app, spoiled, told>>

AfterSent ==
  /\ pc = "call" /\ why = "sent" /\ ~lock
  /\ lock' = TRUE
  /\ Advance
  /\ UNCHANGED <<sessions, late, app, spoiled>>

AfterChat ==
  /\ pc = "call" /\ why = "data" /\ (mode[cur] = "CHAT" \/ state[cur] = "REMOVED") /\ ~lock
  /\ lock' = TRUE /\ pc' = "out"
  /\ UNCHANGED <<sessions, cur, next, why, inset, outset, late, app, spoiled, told>>

(* A file's session is seen not to be REMOVED ... *)
Check ==
  /\ pc = "call" /\ why = "data" /\ mode[cur] = "RECVFILE" /\ state[cur] # "REMOVED"
  /\ pc' = "checked"
  /\ UNCHANGED <<sessions, lock, cur, next, why, inset, outset, late, app, spoiled, told>>

(* ... and then its state is overwritten, both without the mutex. *)
Confirm ==
  /\ pc = "checked" /\ ~lock
  /\ state' = [state EXCEPT ![cur] = "CONFIRM_SIZE"]
  /\ lock' = TRUE /\ pc' = "out"
  /\ UNCHANGED <<list, last, mode, open, hasCb, freed, cur, next, why, inset, outset, late, app, spoiled, told>>

(* The mutex is not taken again: the worker walks on without it. *)
AfterReceived ==
  /\ pc = "call" /\ why = "received"
  /\ Destroy(cur)
  /\ Advance
  /\ UNCHANGED <<list, last, mode, hasCb, freed, lock, late, app, spoiled>>

-----------------------------------------------------------------------------
(* The worker: the rest of a turn of irc_run. *)

Request(m) ==
  /\ pc = "irc" /\ ~lock /\ last < MaxSessions
  /\ Create(last + 1, "INIT", m)
  /\ pc' = "top"
  /\ UNCHANGED <<hasCb, freed, lock, cur, next, why, inset, outset, late, app, spoiled, told>>

NoRequest ==
  /\ pc = "irc"
  /\ pc' = "top"
  /\ UNCHANGED <<sessions, lock, cur, next, why, inset, outset, late, app, spoiled, told>>

(* The IRC connection is over: irc_destroy_session removes what is left. *)
End ==
  /\ pc = "top" /\ app = Nobody
  /\ list' = <<>>
  /\ open' = [s \in Id |-> open[s] /\ s \notin Members(list)]
  /\ freed' = [s \in Id |-> freed[s] + IF s \in Members(list) THEN 1 ELSE 0]
  /\ pc' = "over"
  /\ UNCHANGED <<last, state, mode, hasCb, lock, cur, next, why, inset, outset, late, app, spoiled, told>>

(* A session ages.  One created while the other thread is in an invitation  *)
(* is not late before that call returns, nor is the one it invites to.      *)
Expire(s) ==
  /\ s \in Members(list) \ late /\ state[s] \in Waiting /\ (app = Nobody \/ s < app)
  /\ late' = late \cup {s}
  /\ UNCHANGED <<sessions, worker, app, spoiled>>

-----------------------------------------------------------------------------
(* The application: from another thread, or from a callback. *)

Free == ~lock /\ pc \notin {"crashed", "over"}

(* The worker is in its walk without the mutex, after a file was received. *)
Unguarded == ~lock /\ pc \in {"in", "out"}

AppDestroys(s) ==
  /\ Free /\ s \in Members(list) /\ s # app
  /\ Destroy(s)
  /\ spoiled' = \/ spoiled \/ Unguarded
                \/ s = cur /\ (pc = "checked" \/ (pc = "call" /\ why = "timeout"))
  /\ UNCHANGED <<list, last, mode, hasCb, freed, worker, late, app>>

AppAccepts(s) ==
  /\ Free /\ s \in Members(list) /\ state[s] = "INIT"
  /\ hasCb' = [hasCb EXCEPT ![s] = TRUE]
  /\ \/ state' = [state EXCEPT ![s] = "CONNECTING"] /\ UNCHANGED open
     \/ Destroy(s)
  /\ spoiled' = (spoiled \/ Unguarded)
  /\ UNCHANGED <<list, last, mode, freed, worker, late, app>>

AppDeclines(s) ==
  /\ Free /\ s \in Members(list) /\ state[s] = "INIT"
  /\ Destroy(s)
  /\ spoiled' = (spoiled \/ Unguarded)
  /\ UNCHANGED <<list, last, mode, hasCb, freed, worker, late, app>>

(* irc_dcc_chat and irc_dcc_sendfile: the session is in the list before the *)
(* request is sent, and gets its callback afterwards.                       *)
Invite(m) ==
  /\ Free /\ app = Nobody /\ last < MaxSessions
  /\ Create(last + 1, "LISTENING", m)
  /\ app' = last + 1
  /\ spoiled' = (spoiled \/ Unguarded)
  /\ UNCHANGED <<hasCb, freed, worker, late>>

InviteSucceeds ==
  /\ app # Nobody /\ open[app] /\ pc # "crashed"
  /\ hasCb' = [hasCb EXCEPT ![app] = TRUE]
  /\ app' = Nobody
  /\ UNCHANGED <<list, last, state, mode, open, freed, worker, late, spoiled>>

(* The socket is closed before the mutex is taken. *)
InviteFails ==
  /\ app # Nobody /\ open[app] /\ pc # "crashed"
  /\ open' = [open EXCEPT ![app] = FALSE]
  /\ UNCHANGED <<list, last, state, mode, hasCb, freed, worker, late, app, spoiled>>

InviteUnlinks ==
  /\ app # Nobody /\ ~open[app] /\ Free
  /\ Remove(app, 1)
  /\ app' = Nobody
  /\ spoiled' = (spoiled \/ Unguarded)
  /\ UNCHANGED <<last, state, mode, hasCb, worker, late>>

-----------------------------------------------------------------------------

AddDescriptors == Begin \/ Timeout \/ DropRequest \/ FileEnds \/ CleanUp \/ Keep \/ Select

ProcessDescriptors ==
  \/ BeginWalk \/ Succeeds \/ FailsChat \/ FailsFile \/ RecvFails \/ RecvConfirm \/ RecvData
  \/ NothingIn \/ SendFails \/ SendChunk \/ SendConfirm \/ Received \/ Pass \/ EndWalk

AfterCall ==
  \/ AfterTimeout \/ AfterFinished \/ AfterFailed \/ AfterConnected \/ AfterSent \/ AfterChat
  \/ Check \/ Confirm \/ AfterReceived

Turn == AddDescriptors \/ ProcessDescriptors \/ AfterCall \/ NoRequest

Application ==
  \/ \E s \in Id : AppDestroys(s) \/ AppAccepts(s) \/ AppDeclines(s)
  \/ \E m \in {"CHAT", "SENDFILE"} : Invite(m)
  \/ InviteSucceeds \/ InviteFails \/ InviteUnlinks

Next ==
  \/ Turn \/ Application \/ End
  \/ \E m \in {"CHAT", "RECVFILE"} : Request(m)
  \/ \E s \in Id : Expire(s)

Spec == Init /\ [][Next]_vars

(* irc_run goes round, callbacks return, an invitation that was begun       *)
(* returns, and time passes.                                                *)
Fairness ==
  /\ WF_vars(Turn)
  /\ WF_vars(InviteSucceeds) /\ SF_vars(InviteUnlinks)
  /\ \A s \in Id : WF_vars(Expire(s))

FairSpec == Spec /\ Fairness

-----------------------------------------------------------------------------
(* Properties. *)

TypeOK ==
  /\ list \in Seq(Id) /\ last \in 0..MaxSessions
  /\ state \in [Id -> {"none", "REMOVED"} \cup Waiting \cup Linked] /\ mode \in [Id -> Mode]
  /\ open \in [Id -> BOOLEAN] /\ hasCb \in [Id -> BOOLEAN] /\ freed \in [Id -> Nat]
  /\ late \subseteq Id /\ told \subseteq Id /\ inset \subseteq Id /\ outset \subseteq Id
  /\ lock \in BOOLEAN /\ spoiled \in BOOLEAN
  /\ pc \in {"top", "pre", "selected", "in", "out", "irc", "call", "checked", "crashed", "over"}
  /\ cur \in Id \cup {Nobody} /\ next \in Id \cup {Nobody} /\ app \in Id \cup {Nobody}
  /\ why \in {"timeout", "finished", "connected", "data", "sent", "received", "failed"}

(* Destroying a session at any moment, as irc_dcc_destroy's documentation   *)
(* allows, frees it once.  This is violated.                                *)
FreedOnce == \A s \in Id : freed[s] <= 1

(* Unless a window was hit, no session is freed twice, the worker's walk is *)
(* never at a session that was freed nor about to go to one, and it never   *)
(* calls a callback that is not set.  The windows are: a peer answers an    *)
(* invitation before the call that sent it has returned; another thread     *)
(* destroys a session while its timeout is told, or just after a received   *)
(* piece was; another thread uses the list while the worker walks on        *)
(* without the mutex after a complete file.                                 *)
MemorySafe ==
  ~spoiled =>
    /\ FreedOnce
    /\ pc \notin {"top", "selected", "irc", "over"} /\ cur # Nobody => freed[cur] = 0
    /\ pc = "call" /\ why \in {"timeout", "finished"} /\ next # Nobody => freed[next] = 0
    /\ pc # "crashed"

(* Descriptors: what is in the list and alive has its socket, which select  *)
(* and FD_ISSET need, and what is removed has closed it.  The invitation    *)
(* that is failing is the exception.                                        *)
SocketsMatch ==
  ~spoiled =>
    \A s \in Id \ {app} :
      open[s] <=> s \in Members(list) /\ state[s] # "REMOVED"

(* The last word: once the worker has begun to tell an application that a   *)
(* session timed out, failed or is complete, or the session was destroyed,  *)
(* it begins no callback of that session any more.                          *)
Over(s) == s \in told \/ state[s] = "REMOVED" \/ freed[s] > 0

LastWord == [][ pc # "call" /\ pc' = "call" => spoiled \/ ~Over(cur) ]_vars

Excused == spoiled \/ pc = "crashed"

(* What is destroyed is freed, as long as irc_run goes round. *)
RemovedIsFreed == \A s \in Id : state[s] = "REMOVED" ~> freed[s] > 0 \/ Excused

(* No session waits for its peer for ever: it is answered or dropped. *)
WaitingEnds == \A s \in Id : state[s] \in Waiting ~> state[s] \notin Waiting \/ freed[s] > 0 \/ Excused

=============================================================================
