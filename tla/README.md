# wIRCd in TLA+

wIRCd (`src/*.c`) is an IRC daemon for webOS. Applications talk to it over the
Luna bus: they ask for a client (`client_init`), connect it to a server
(`client_connect`), subscribe to its events and send it commands. The daemon
runs each client on a vendored, patched `libircclient`
(`src/libircclient/src`), which owns the socket, the two line buffers and the
parsing of the protocol.

This directory models that program in TLA+, checks the models with TLC on small
instances, and proves most of their safety properties with TLAPS for every value
of their constants. Each definition that stands for code is translated from the
lines `PROJECT.json` gives for it under `map`.

## 1. The system

### Threads

| thread | started by | code | lives until |
|---|---|---|---|
| main loop | `main` | the bus handlers, one after the other | the process ends |
| reaper (`live_or_die`), one per client | `client_init` | `client.c:84-95` | 60 s later, or cancelled by `client_connect` |
| worker (`client_run`), one per client | `client_connect` | `client.c:97-151`, and `irc_run` with all event handlers | the connection is over; it frees the client |
| pinger (`ping_server`), one per connected client | `handle_event_connect` | `events.c:100-109` | never told to stop |

All of them share the client object by plain pointers. There are three locks:
`client->mutex`, which is only ever tried and never unlocked (whoever gets it
owns the release of the client); `client->ping_mutex`, which one thread locks
and another unlocks; and the session's `mutex_session`, around the outgoing
buffer. The table `wIRCd_clients`, `client->session`, the subscription slots,
and `session->state`, `sock` and `nick` are shared without a lock.

### Components, their state and what makes them correct

| component | state | operations | correct when |
|---|---|---|---|
| client lifecycle (`client.c`) | table of clients, client objects, mutex, session pointer, retry counter | `client_init`, `client_connect`, `process_command`, `live_or_die`, `client_run`, `ping_server` | exactly one thread frees a client, once; nobody follows a pointer to what is freed; every client is reaped or connected; retries end |
| subscriptions (`subscriptions.c`) and event delivery (`events.c`) | one message slot per kind of event, message references | `process_subscription`, `process_event`, `unrefMessages` | a reply goes to a live message; references are balanced; no event falls between two subscribers |
| ping/pong (`events.c`, `client.c`) | `ping_mutex`, time stamp | `ping_server`, command `ping`, PONG handler | one PING out at a time; the time reported is its own; the pinging goes on |
| session engine (`libircclient.c`) | `state`, `sock`, the socket | `irc_connect`, `irc_run`, `irc_disconnect`, `irc_destroy_session` | registration at most once; a dead connection ends `irc_run`; a disconnect ends it at any point; the socket is closed |
| outgoing buffer | bytes, offset, mutex | `irc_send_raw`, the flush in `irc_process_select_descriptors` | whole lines, in order, no overrun, eventually sent |
| incoming buffer | bytes, offset | the receive half of `irc_process_select_descriptors` | each line once, whole, in order; the end of the stream is not confused with a full buffer |
| line dispatch | `nick`, `motd_received` | `libirc_process_incoming_data` | a line is cut where the protocol cuts it; the right event for each line; every PING answered; our own nick is tracked |
| command handlers (`client.c:245-487`, `irc_cmd_*`) | none of their own | nineteen commands | each call answered as it went; the line sent is the one asked for |
| DCC (`dcc.c`) | list of DCC sessions, `mutex_dcc`, their sockets and buffers | chat, send, accept, decline, destroy, timeouts; transfer of files | each session is freed once, with its socket; its end is the last the application hears of it; nobody is told of a success before the file has arrived; nothing waits for ever |
| colors (`colors.c`) | none | mIRC's codes to tags, to nothing, and tags to codes | a text looks the same before and after; what is counted is what is written |
| CTCP replies, sockets, errors, luna service (`utils.c`, `sockets.c`, `errors.c`, ...) | none | wrappers and tables | |
| `main`, packaging | main loop | registration, options, install scripts, upstart's `respawn` | |

### How they interact

The bus handlers look a client up in the table and use the pointer they found;
`client_connect` starts the worker; the worker runs `irc_run`, which moves
bytes between the socket and the two buffers, and calls the dispatcher for each
line; the dispatcher calls the daemon's handlers, which reply to the message in
the slot of the event; commands append a line to the outgoing buffer, from the
main loop; the pinger does so from its own thread. A command `disconnect` closes
the session's socket under the worker's feet. When `irc_run` returns the worker
retries if no line ever came, else it unlists, unreferences, destroys and frees.
If the process dies upstart starts it again, with no client.

The daemon registers no DCC callback, so that a request of a peer is parsed and
dropped, and it calls no color function. Both are parts of the library with a
documented interface, and are modelled as the library offers them: DCC with an
application that calls from any thread, the colors by themselves.

### What is hard

The hazards are listed in `PROJECT.json`, each at its line and with the
properties that would catch it. The main ones: lookups that outlive the client;
two owners of a client at the end of its first minute; a ping thread nobody
stops; a buffer that three threads append to and one flushes in pieces; lines
cut by TCP anywhere; `irc_disconnect` against `irc_connect` and `irc_run` with
no lock; a semaphore made of a mutex that a lost PONG never gives back; changes
of nick that cross with lines that use the old one; a list of DCC sessions that
is walked while callbacks and other threads change it; acknowledgements that TCP
cuts and joins; quotes, backslashes, spaces and colons that each of JSON, IRC and
CTCP treats in its own way.

## 2. The modules

`MC<module>.tla` extends each module for TLC (`MCTexts` the modules about texts);
`<module>Proofs.tla` holds its theorems. Three modules of proofs are about two
machines each: `BufferProofs` about the two buffers of a session, `SessionProofs`
about `Dispatch` and `IrcSession`, the lines and the life of one `irc_session_t`,
`EventProofs` about `EventDelivery` and `PingPong`, what `events.c` does for its
subscribers and for the pinger. So that both machines can be extended together, the
definitions of `IncomingBuffer` begin with `Read`, those of `IrcSession` with
`Engine` and those of `PingPong` with `Ping`, where the other machine's have the
plain name. What the two buffers share (bytes, lines, CR and LF, the capacity) is in
`Buffers`.

### ClientLifecycle

The client object and everyone who holds a pointer to it. A `Token` is one
`client_init`; `addr[t]` is the heap block it was given, and a block is given
again once its client is freed, so that `Obj(t)` is what a pointer to client `t`
really reaches now. `main` is the handler the main loop is in, between its
lookup and its use of the pointer. `reaper`, `worker` and `pinger` are the
program counters of a client's threads. `stale` records which thread first went
through a pointer to freed memory. From then on the thread may go on with
whatever the block holds, or the process may die (`Die`) and be respawned;
nothing is assumed of memory that was freed.

`ConnectClaim(start)` is all of `client_connect` after its trylock: with
`start = FALSE` it stands for the refusals after it (no server, no nick, no
thread), which leave the mutex locked. `WorkerCreate` to `WorkerRetry` is the
loop of `client_run`, `WorkerRemove`, `WorkerDestroy`, `WorkerFree` its end.
The operations on the hash table are atomic steps: what GLib does when two
threads are inside it is not in this repository.

### OutgoingBuffer and LineChannel

`LineChannel` is what the outgoing half of a session promises: `Accept` appends
a whole line, `Transmit(n)` moves a prefix to the wire. `OutgoingBuffer` is the
code: `irc_send_raw` in five steps (test of the state and formatting outside
the mutex, then lock, test of the room, `strcpy`, line ending and unlock) by any
set of senders, and `irc_run`'s flush in four (is there a line, lock, send any
part, `memmove`). `ImplementsChannel` is the refinement, with the bytes accepted
and unsent (`Unsent`) as the abstract queue.

### IncomingBuffer

The server says lines; TCP delivers their bytes in pieces of any length; `Recv`
takes what there is, up to the room left; `Process` finds a CR LF, hands over
the line and moves the rest to the front. `incoming` is the buffer, `parsed`
and `dispatched` what was handed over, `net` what is on its way.

### IrcSession

One session from `irc_create_session` to `irc_destroy_session`. Each step is one
access to `state` or `sock`, which no lock protects, or one system call. `main`
is the main loop inside `irc_disconnect`, which can start whenever the session
exists. Of the buffers it keeps what decides anything: `queued`, a line waits to be
sent, and `full`, a text without CR LF has left no room in the incoming one, so that
`AddSet` does not watch the socket for input any more (`libircclient.c:374`).
`unread` is what the server has said and `recv` not yet returned (at most
`MaxUnread` reads of it); each `Read` may fill the buffer. The kernel is
`Reported`, what select says of a descriptor; `FD_ISSET` of -1 is undefined and
returns either answer. `EINTR` is left out: the daemon installs no signal handler.

### PingPong

`ping_mutex` used as a semaphore: taken by the pinger or the main loop, given
back by the worker when the PONG comes. A PING carries the value of the stamp it
was sent with, so that the property can compare it with the stamp the handler
reads. The server keeps the protocol: it answers or refuses a PING once, and
says no PONG unasked.

### Dispatch

What `libirc_process_incoming_data` makes of each line. The server and one other
user are the environment: the server accepts, refuses or announces nicks, other
lines are said at any time. Each line carries `mine`, the nick the server knew us
by when it said the line; it is no part of the text, and is what the properties
compare `session->nick` with. `Starts` and `StartsFold` are the results of the
`strncmp` and `strncasecmp` of the code on nicks, as relations. The connect
event, PING and its PONG, and the drop of a PONG for want of room are modelled.
How a line is cut into words is in `Lines`.

### EventDelivery

Slots, messages and references. The bus holds one reference while a handler
runs, `process_subscription` takes another one and stores the message,
`process_event` reads the slot and replies, `unrefMessages` drops the slots'
references in any order at the end of the worker. `since`, `upto` and `got`
record from which event to which one a message was in its slot, and which it was
sent.

### Lines, Commands, Conversation

`Lines` is the parser (`Parse`: prefix, command, parameters, the CTCP frame), what
the dispatch makes of the parameters (`Told`), and the two ends of the daemon:
`ToJson`, the reply `process_event` writes, and `Unescaped`, what
`process_command` makes of the text it is given. `Connects` is the numeric that is
told as `CONNECT` first, the first 376 or 422 since `irc_connect`
(`libircclient.c:500`); its handler copies the prefix (`events.c:115`), so that
without one it is a `Crash`. `Commands` is every command: which
fields it reads (`ReadFields`, `ReadText`), the line its `irc_cmd_` function formats
(`Format`) and the reply (`Command`). A text is a sequence of characters; what is
never taken apart, a name or a command, is one character. Where the code goes
beyond the end of a line it finds what the stack held (`Beyond`), and where it
goes through a null pointer the event is `Crash`.

`Conversation` puts two daemons and a server together: an application asks for a
command with any choice of its parameters, its daemon sends a line, the server
passes it on behind the sender's prefix or says a line of its own, and the second
daemon tells its application. The properties compare what was asked, what the
line means to a server (`Spellings`, the protocol's grammar, stated without the
code's operators) and what a reader of JSON makes of the reply (`ReadJson`).
`motd` is `motd_received` of the second daemon; `welcome` is what the server knows
of it, that it has ended its message of the day on this connection. After each line
the connection may end and the next begin, and after a crash it does (`Settle`).

### Colors

The conversion from control characters to tags as a recursive function over the
positions of the text, with the mask of open tags and the background as its state,
and run twice as the code runs it: the first pass counts, the second writes, with
what the first left in the mask and the background. A background of 0, white, is
not written (`Ground`). `ToMirc` is the search for brackets. A text with tags is
typed from whole tags and from single characters, brackets among them, that are
neither a control character nor the name of a tag (`TagAssumption`). `Shown` and
`Read` are the reference: how a text looks, character by character, by mIRC's rules
and by those of the header. `Texts` joins `Conversation` and `Colors`, which share
nothing, into one state machine for TLC.

### Dcc

The list of DCC sessions, `mutex_dcc` (`lock`) and who changes them: the worker,
which walks the list before `select` (`AddDescriptors`) and after it
(`ProcessDescriptors`), and another thread, or a callback, that invites, accepts,
declines and destroys (`Application`). The worker unlocks around each callback
(`Call`) and goes on with what it kept: `cur`, or `next`, the successor it read
before. A session is the number of its creation; `freed` counts, so that a second
`free` is seen; `state` stays readable in what was freed, as the code reads it. `told`
is what the application was told the end of. `spoiled` is set when one of the
windows the code leaves is hit (see 3); nothing is said of what comes after.

### DccTransfer and FileCopy

`FileCopy` is what a transfer promises: bytes arrive in order, each side hears once
how it ended, and of a success only when all has arrived. `DccTransfer` is the code
of both ends over one connection: chunks, four bytes of acknowledgement that
travel as two halves, so that TCP can cut them, accept, connect, timeouts, resets,
and each side's end at any time. `ImplementsCopy` is the refinement, with what the
receiver was given as the bytes copied.

## 3. What is checked

| run | bounds | properties |
|---|---|---|
| `client_alone` | 1 client, 1 block, 2 retries | `ClaimantNeverFirstStale`: who has the mutex is never the first on freed memory. `PingerOnce`: one ping thread over all retries. `SessionsDestroyedOnce`: each session created is destroyed, once. `UnclaimedIsReaped`, `WorkerConnectsOrFrees`, `FinishedIsFreed`: clients do not stay |
| `outgoing` | capacity 8, 2 senders, 3 lines | `NoOverflow`, `ImplementsChannel`, `LinesAreSent` |
| `incoming` | capacity 5, 3 lines | `InOrder`: no line cut, joined, lost or repeated. `ClosedByServer`: a receive into no room never passes for the end of the stream. `EveryLineProcessed`: a line that fits is processed |
| `session` | at most 2 reads' worth of text under way | `RegisteredOnce`, `DisconnectLeaves`, `ConnectDecided`. `EndLeaves`: what the server said before the end is read, then the end is found and `irc_run` left, unless the buffer is full |
| `pingpong` | 2 senders, 4 times | `OneReason`: the mutex is locked for exactly one reason. `StampIsOwn`: the round trip reported is that PING's. `KeepAlive` |
| `dispatch` | 2 spellings of our nick and two others, 2 lines said, 1 nick asked for after the first | `NickFollows`: `session->nick` is what the server knew us by, line by line. `RightEvent`, `PongsOwed`, `PingsAnswered` |
| `events` | 2 kinds, 3 subscriptions, 2 events of each kind | `ReplyIsLive`, `NotOverdrawn`, `NoGap` |
| `texts` | texts of 4 characters out of 6 (3 in the server's own lines), 3 parameters, 4 characters in a CTCP frame; color texts of 5 pieces | `SentAsAsked`: the line says what the application asked, and it hears of success if and only if the line was queued. `RelayedAsAsked`: the other application is told what was asked. `ToldAsSaid`: a server's line is told as it was meant, and `CONNECT` with the first end of the message of the day on a connection, and no other line. `ConvertedFits`: the second pass writes what the first counted. `FormatsKept`, `TagsKept`: a text looks the same before and after |
| `dcc` | 2 DCC sessions | `MemorySafe`: no session is freed twice or walked over after it was freed, no callback is called that is not set. `SocketsMatch`: exactly the living sessions have a socket. `LastWord`: after its end an application hears no more of a session. `RemovedIsFreed`, `WaitingEnds` |
| `dcc_transfer` | 5 bytes in chunks of 2 | `ImplementsCopy`, `NoAbort`: no data comes to a sender that does not expect it. `TransferEnds` |
| `ping_after_destroy`, `dcc_destroyed` | as `client_alone` and `dcc` | violated: see below |

That the variables have their types is proved (section 4) where there are proofs
and is otherwise stated as `TypeOK`. Every property has a mutant of the code's model,
written before the definition it replaces, with which TLC finds it violated.

Why the bounds are enough: the threads of different clients meet only through
freed blocks, and the safety properties with any number of clients and blocks are
proved; three lines and a buffer of eight bytes make a full buffer, a line cut
at each byte and two lines in the buffer at once; three subscriptions to two kinds
make two subscribers follow each other on one slot with another one beside; a
nick asked for after the first and two lines said let each of them overtake the
other. The session and the ping protocol have no bound on their runs; text of two
reads under way when the server ends the connection is one read that may fill the
buffer and one that is then never made. A text has
one plain character and each that JSON, IRC or CTCP treats specially, and four
of them make each pair of these, with something around it; three
parameters and four given reach the limit of parameters, and four characters
are less than a frame can hold. Colors have one digit or two, in range and beyond
it. Two DCC sessions precede, follow and outlive each other in the list, and the
walk keeps pointers to no more than two. Five bytes make a whole, a last and a
half chunk, and two acknowledgements under way at once.

### Where code and documents differ

Two runs find a statement of the repository violated:

- `ping_after_destroy`: the pinger goes on with a destroyed session
  (`events.c:105`).
- `dcc_destroyed`: a DCC session destroyed from the callback that tells of its
  timeout, or by another thread meanwhile, is freed twice (`dcc.c:127`, `156`);
  the header says that it may be destroyed at any moment, even from callbacks. It
  goes on to say that one should not destroy what is finished; the callback is how
  an application learns of that, and another thread has not been told.

Four other statements that the code does not keep are in the modules as
properties that no run checks:

- `CommandHasSession`: a command to a client that has no session passes a
  null pointer to the library (`client.c:342`), which asks for "an initiated and
  connected session".
- `NothingLeftOpen`: `irc_disconnect` overwrites the socket `irc_connect` has just
  stored (`libircclient.c:1063`); nothing closes it.
- `NickSaved`: the nick of another user that begins with ours is taken for
  ours (`libircclient.c:522`; `MCDispatch` has the nicks that show it).
- `PrivateIsPrivate`: after the first nick was refused, `session->nick` stays
  that one, and private messages give the channel event (`libircclient.c:612`).

Met on the way, with no document that says otherwise, and stated in the
properties' comments as what they except:

- A text without CR LF that fills the incoming buffer stops the reading for good
  (`EveryLineProcessed`), and the server's end as well is then not noticed while there is
  nothing to send: `irc_run` stays (`EndLeaves`).
- A lone line feed stays in the outgoing buffer until the next line
  (`LinesAreSent`); `irc_run` gives up a connection after five seconds of waiting
  (`ConnectDecided`); a client whose connect was refused for a missing parameter
  stays for good (`UnclaimedIsReaped`); overwritten subscriptions keep a
  reference (`NotOverdrawn`); a lost PING stops the pinging (`KeepAlive`).
- Commands (`SentAsAsked`): the parameter `command` is read into `server`
  (`client.c:277`), so that `raw` sends the text of a null pointer; `ping` and
  `disconnect` do not reply what became of them; a message without text is sent
  empty; a call without `sessionToken` gets no reply.
- Escapes (`RelayedAsAsked`): of the fields only `text` has its escapes undone, and
  those of quotes only; the reply escapes quotes only. Between two daemons of this
  kind the two omissions cancel; others see backslashes doubled, and a backslash of
  theirs makes broken JSON. Quotes in a topic, a reason or a key arrive garbled. An
  action that is longer than `ctcp_buf` is cut.
- Lines (`ToldAsSaid`): parameters after the tenth are dropped; a second space
  between words makes an empty parameter; a command without parameters and a
  prefix without a command are read beyond their end; a NOTICE with one parameter,
  a NICK without a prefix, a MODE of ours without a mode, and the first 376 or 422
  of a connection without a prefix go through a null pointer; numerics lose the
  zeros they begin with.
- Colors (`ConvertedFits`, `FormatsKept`, `TagsKept`): the background is not reset
  between the passes (`colors.c:124`), so that the second may write more than the
  first counted; background 0 is lost, a background outlives a reset, a color
  without a number and one out of range are dropped; `[/COLOR]` becomes a
  reset, which ends the formats too; after a `[` without a `]` the search leaves the
  text (the bytes copied from there come behind the terminator).
- DCC (`spoiled`): a session destroyed while its timeout is told, or in the moment
  between the look at its state and the assignment to it after a received chunk
  (`dcc.c:365`); the list used by another thread while the worker goes on unlocked
  after a complete file (`dcc.c:472`); an invitation answered before the call that
  sent it has stored its callback (`dcc.c:642`, `865`).
- Transfers (`ImplementsCopy`, `TransferEnds`): a sender that gets two
  acknowledgements in one `recv` waits for good (`dcc.c:331`); a chunk that arrives
  in pieces ends the transfer with an error; a failed `fread` is told as a success
  (`dcc.c:139`); a failed accept or connect of a file is told to nobody.

### Fairness

- `ClientLifecycle`: the reaper and the worker's own steps are weakly fair: the
  scheduler runs them, `sleep` and `usleep` return, and `select` has a timeout,
  so that a connection that does not come about is given up. The server's events
  and the applications' calls are not fair.
- `OutgoingBuffer`: `irc_run` goes round, the kernel makes a watched socket
  writable (the server reads), and a thread that waits for `mutex_session` gets
  it in the end (strong fairness of the lock steps). Nobody is obliged to send.
- `IncomingBuffer`: `irc_run` goes round; the network delivers what was sent.
- `IrcSession`: the worker goes on, and the main loop finishes a disconnect it
  has begun. Nothing is assumed of the network.
- `PingPong`: a sender that has the mutex goes on, the pinger wakes, the server
  answers or refuses, the worker handles.
- `Dispatch`: the worker handles the lines it has; the server reads what it is
  sent.
- `Dcc`: `irc_run` goes round and callbacks return (`Turn`); an invitation that was
  begun returns, its last step by getting the mutex in the end (strong fairness);
  a session that waits gets older than its timeout. Applications and peers are not
  fair.
- `DccTransfer`: both loops go round, the network delivers what was sent and
  connects, a session that waits for its peer is timed out. The applications'
  destroys, the reset and the failures of the file are not fair.
- `Texts` states no fairness: it has safety properties only.

Runs with `CHECK_DEADLOCK FALSE` are those of systems that do stop: the client
is freed, the session destroyed, the bounds used up.

## 4. What is proved

All proofs are for every value of the constants, from the named assumptions of
the modules (capacities and bounds are naturals, the free lock is no thread, there is
a kind of events, a buffer holds at least one byte, the names of channel and server
are no nicks, a nick begins with itself; those of the texts are given below).

- `ClientLifecycleProofs`: `Typing`, `ClaimIsOwnership`, `TableIsSound`,
  `OnePingThread`, `SessionsBalanced`. The inductive invariant says, as long as
  nothing is stale, for each client (`Sound`): a client that the reaper has
  claimed or whose worker runs is allocated and claimed, and not both (`Owned`);
  it is listed until its owner unlists it (`Listed`); the session its pointer
  names is the one in existence, and only at the steps where it must be
  (`SessionsOf`); a ping thread exists only once the session was established, after
  which there is no retry (`Pinged`). None of the four properties is inductive
  alone: that the owner's pointer is good needs that nobody else frees the
  client, which needs that there is one owner.
- `BufferProofs`, of the outgoing buffer: `Typing`, `BufferBound`, `SendIsFront`,
  `Refinement`. The invariant ties the lock to the program counters (who is between
  lock and unlock has it), which makes the room tested still there at the copy, and
  what was sent still the front at the shift. The refinement maps `EndLine` to
  `Accept`, `Send` to `Transmit`, and everything else to a stutter.
- `BufferProofs`, of the incoming buffer: `ReadTyping`, `AbortUnreachable`,
  `EndIsTheEnd`, `LinesInOrder`. The invariant says that what was processed, the
  buffer and the network together continue the lines said, and where the next line
  ends. That no line has a CR LF inside (`EndAssumption`) is what a line is.
- `SessionProofs`, of the dispatch of lines: `Typing`, `NickIsFollowed`, `EventsAreRight`,
  `OneConnectEvent`, `PongsBalanced`. The invariant follows our nick through the
  lines that wait: each NICK line of ours turns the nick known before it into the
  one known after it, and no other line changes it.
- `SessionProofs`, of the engine: `EngineTyping`, `RegistersOnce`. The state
  CONNECTING is set before `irc_run` is entered and never again; who finds it has
  not registered (`Once`), and `sock` is connected there (`Made`).
- `EventProofs`, of the delivery of events: `Typing`, `RepliesAreLive`, `ReferencesCovered`,
  `NoEventIsLost`. The invariant says that a message not yet stored is in no slot
  (`Fresh`), that a stored one is in no slot but its own (`OneSlot`), that the
  slots' references are kept until the worker has taken the client out of the
  table (`Kept`), and that what the worker is about to reply to still has the
  reference it had when the worker looked (`Found`). `ReplyIsLive` is not
  inductive without the last two, nor `NoGap` without the span of events of each
  message (`Span`).
- `EventProofs`, of ping and pong: `PingTyping`, `MutexIsSemaphore`, `RttIsOwn`. The semaphore's one
  owner is the invariant; that the stamp is the owner's follows from it.
- `DccProofs`: `Typing`, `WalkIsSafe`, `SocketsAreClosed`, `NoWordAfterTheLast`,
  for any number of DCC sessions. Each says
  something until a window is hit (`spoiled`), so the inductive invariant is
  `Types /\ (spoiled \/ Safe)`, and `Safe` is in two parts. `Store` is what is
  true of the sessions whoever runs: new ones go to the head of the list with a
  number above all others, so that the list is descending (`Sorted`); freed is who
  was created and is in no list (`Memory`); sockets go with states (`Sockets`); who
  waits in an invitation still waits, and those behind it in the list are older
  (`Inviting`). `Walking` is what the worker knows at each of its steps: `cur` is in
  the list, and the successor it kept over a callback is nobody or an older session,
  also in the list (`Walk`); whose callback runs has not been told of an end
  (`Telling`), and who was told is marked REMOVED or about to be (`Told`).
  `MemorySafe` is not inductive without all of these. The kept successor is good
  after the callback only if nobody freed it meanwhile: the worker alone unlinks,
  and another thread that gives up an invitation frees a session which, being the
  youngest that waits, cannot be one that is older than `cur`. That `cur` is freed
  once needs that only a session marked REMOVED is freed, which needs `Told`.
- `DccTransferProofs`: `Typing`, `AbortUnreachable`, `Refinement`. The halves of
  acknowledgements in the receiver's buffer, on their way and in the sender's buffer
  are one sequence (`Flow`); none is for more than was received, and none behind
  the first acknowledgement is for as little as that one (`Rising`). So the
  acknowledgement of all that was sent is the last, and a sender that has it is
  level with the receiver. The refinement of `FileCopy` follows, and that no
  acknowledgement comes unexpected.
- `ColorsProofs`: `CountedIsWritten`, `LooksAreKept`, `TagsLookTheSame`, for texts of
  every length. A conversion is a recursive function over the positions of a text.
  Without induction over data its values come from two arguments: such a function exists,
  and what holds at 0 and goes over from each position to the next holds at all,
  because the least position where it failed would have one before it (`Upwards`,
  from the well-foundedness of the naturals). For `CountedIsWritten` the two
  passes, which begin with different backgrounds, are in states that differ in
  nothing else (`Alike`) until the first color that brings a background, and are the
  same from there; with no such color the second begins like the first. For
  `LooksAreKept`, `Matches` relates three runs at each position: the pass, the tags
  written so far as a reader reads them, and what mIRC shows. Open formats are the
  formats shown; with an open color the background kept is the one shown; without
  one nothing is shown and a background that is still kept (a reset leaves it) does
  no harm, because every color to come brings its own. This is where the exceptions
  of the property are used. That the text is longer than what is skipped after
  each color, and that no color begins in what is skipped (`Ahead`), is what makes
  a color at a position one that is applied. The proofs assume that the digits have
  naturals as values and that the control character of colors is not among them
  (`DigitAssumption`), and that no character is spelled like the first component of
  a tag in the result (`PieceAssumption`).

  `TagsLookTheSame` goes piece by piece. The search for brackets takes a text in
  strides, from one closing bracket to behind the next; but what is left of the result
  at a position outside of brackets is the next character and what is left behind it
  (`ToMircIs`, `PiecewiseLater`), and within brackets that enclose no tag likewise
  (`WithinCopies`), so that from the last piece backwards the result is what the pieces
  become, one after the other (`Images`, `ToMircImages`). That needs that no other
  bracket encloses a tag (`Harmless`), which is what the property says of brackets.
  Then the two readers are followed forward, one of the tags, one of their images at
  the offset of each piece (`Offsets`): what they have read agrees, the formats
  shown are those open, and without an open color both show the default colors
  (`Agree`, `ShowsPiece`, `ShowsImages`). The three exceptions of the property are
  used where they are due: a control character toggles, so that a format must not be
  opened twice; `[/COLOR]` ends everything, so that nothing else may be open; and a
  comma would be read as part of a color without background (`NoComma`). What is
  assumed of the table of colors is that a tag is one number of two digits or
  two of them with a comma, as `%02d` writes them, and of the texts that they consist
  of whole tags and of characters that are neither a control character nor the name
  of a tag (`TagAssumption`).

- `ConversationProofs`: `LinesSayWhatIsAsked`, `RelayTellsWhatIsAsked`,
  `ServersAreToldAsMeant`, for any characters, words and texts of any length. The
  inductive invariant (`Talk`) says what each variable was made from: the call, its
  fields before JSON, and that the line and the reply are what the command makes of
  them (`Called`); that a line under way is the line sent with its sender before it
  (`Passed`), or one of the server's own, word for word (`Own`); and that what was
  told is what the parser and the handler make of that line (`Handled`). `Welcomed`
  relates the two ends of a connection: the daemon has received the message of the
  day when the server has ended it, but for the line on its way, and a line passed
  on ends none, so that the first such line said is the first one parsed. The
  properties then follow from two chains of lemmas about the operators. The first
  goes from text to text: a string as JSON leaves it (`JsonString`), without its
  escaped quotes (`Unescaped`), is the text with its backslashes doubled; that with
  its quotes escaped (`Escaped`) is the string again; and a reader of JSON gets the
  text back from it (`ReadsBack`). A text without quotes takes the same way with
  nothing taken out, one without backslashes with nothing doubled. The second goes
  from parameters to the line and back (`ParseIs`): a line that spells a prefix, a
  command, words and perhaps a text is cut into exactly these, up to the limit of
  parameters, for every limit. `FormatReads` joins the two: for each of the commands
  the line it formats is such a spelling of what the call means. Each step through a
  text is shown for a text from the text without its last character (`ByPrefixes`),
  each step through a line from the words that are left.
  The proofs assume that a line can have three parameters and a CTCP message one
  character (`LimitAssumption`), and that the words of the server's own lines are
  words: not empty, with no space in them and no colon before them
  (`WordAssumption`).

Only model-checked:

- every liveness property (`UnclaimedIsReaped`, `WorkerConnectsOrFrees`,
  `FinishedIsFreed`, `LinesAreSent`, `EveryLineProcessed`, `DisconnectLeaves`,
  `EndLeaves`, `ConnectDecided`, `KeepAlive`, `PingsAnswered`, `RemovedIsFreed`,
  `WaitingEnds`, `TransferEnds`), which the prover cannot reach.

Every safety property that a passing run checks, invariant, action property or
refinement, is proved for all values of the constants.

## 5. Not modelled

- The capacities of the texts: `text[len]`, `buf[1024]` of an event, the 29
  characters of a color tag. An overrun changes whatever the compiler put behind the
  array, and no statement about the text survives it.
- The lines of a DCC chat (`irc_dcc_msg`, the cutting at line ends in
  `libirc_dcc_process_descriptors`): in `Dcc` they are a callback or a step without
  one.
- The replies of `client_init` and `client_connect`.
- `libirc_event_ctcp_internal`: the daemon sets a handler of its own in its place,
  so that it is never reached. `irc_connect6` and `connection.c` are not compiled.
- Options, registration of the handlers, the system call wrappers, the tables of
  errors and numerics, the scripts: no state and no decision of their own.

## 6. Plan

Done, the most important behaviour first: `ClientLifecycle`,
`LineChannel`/`OutgoingBuffer`, `IncomingBuffer`, `IrcSession`, `PingPong`,
`Dispatch`, `EventDelivery` and their proofs; then `Lines`, `Commands`, `Conversation`,
`Colors`, `Dcc`, `DccTransfer`/`FileCopy`; and the proofs of
`IrcSession`, `DccTransfer`, `Dcc`, `Conversation` and `Colors`.

Left:

1. The lines of a DCC chat: a search of its own (`libirc_findcrorlf`), a callback
   after every `recv`, whether a line is complete or not.
2. A composition of `IrcSession` with the worker of `ClientLifecycle`, for the
   disconnect that is followed by a retry, and of two sessions for the descriptor
   that is closed by one and opened by the other.
