# A TLA+ model of distributed-memory

`dmserver` processes hold blocks of memory (128 bytes and a revision number
each). Applications linked with `libdm` map blocks to memory of their own, store
into it, and synchronise with five calls: `dm_block_map`, `dm_block_unmap`,
`dm_block_update`, `dm_block_write`, `dm_block_wait`. The protocol is optimistic:
a write carries the revision it was made from, and the server refuses it if the
block has moved on. This directory specifies that protocol from the code,
model-checks it with TLC, and proves its safety with TLAPS.

## 1. Inventory

| component | source | state | operations |
|---|---|---|---|
| client library | `src/src/client.cpp`, `block_local.cpp` | `blocks` (id → pointer, revision, valid flag), `sockets` (one per server) | `dm_init`, five `dm_block_*` calls |
| server handlers | `src/src/server.cpp`, `block_server.cpp`, `block.cpp` | `blocks` (revision, content, `mapped_clients`), one mutex, one condition variable per block, one thread per connection | MAP, UNMAP, UPDATE, WRITE, WAIT |
| messages | `src/src/message.cpp` | parsed document, block built on demand, two static maps | `emit`, `type`, `block` |
| connections | `src/src/socket/socket*.cpp` | a TCP socket, a 20 s time-out on the client's side | connect, accept, send, recv, close |
| secure socket | `src/src/socket/secure_socket.cpp` | session key | three-message handshake, packets with a length in front |
| configuration | `src/src/config.cpp` | servers and the blocks of each | `find`, `find_server_id_by_block_id` |
| server process | `src/src/dmserver.cpp`, `Server::start/stop` | listening socket | start, SIGINT |
| logger | `src/src/logger.cpp` | one output stream for all threads | `log` |
| reader tests | `src/test/reader` | text position per block | two processes over the library |

A client talks to a server over one TCP connection, strictly request then reply;
the server names the client by the connection's ip:port. Within a server, the
handler threads share the blocks under the mutex, and a WAIT sleeps on the
block's condition variable until a WRITE broadcasts. Clients never talk to each
other.

What is hard, and where (`PROJECT.json`, "hazards", has the lines):

- *Interleaving.* Two clients write from the same revision; a write falls between
  the test and the sleep of a WAIT; a woken thread finds another revision.
- *Staleness.* Every comparison uses a revision read some time ago; the client
  computes its new revision instead of being told; the valid flag and the
  revisions are two versions of the same fact.
- *Time-outs.* The client gives up after 20 s, and the server answers all the
  same: from then on the replies are one call late.
- *Partial failure.* `dm_block_map` installs the block before it asks; `dm_init` fails
  at the second of two servers; a `recv` returns a part of a packet.
- *Crashes.* A client dies in a call; a second `dm_init`; the server dies of
  SIGPIPE and restarts at revision 0.
- *Waiting.* Every client in `dm_block_wait`, a waiter whose client is gone, a
  handshake in the accept loop that nobody answers.
- *Outside the mutex.* The static maps of `Message`, the log stream, the pointer to
  the listening socket and the signal handler that deletes it, the locks of the C
  library that handler may find taken.

What makes each component correct: for the *server*, a write replaces exactly the
content it was made from, a revision number identifies a content, an UPDATE sends
the content exactly when the copy is older, a WAIT ends exactly when the block
differs. For the *client*, a call that returns 0 did what its documentation says,
a copy is never ahead of the server, an invalid copy can be updated. For *both*,
the associations agree. For the *threads*, a request takes effect as one step
and no wake-up is lost.

## 2. Modules

    Wire            messages, connections, the configuration as constants
      Client        libdm: calls, copies, time-out, exit
      Server        dmserver: a request handled as one step
      ServerThreads dmserver: mutex, condition variables, broadcast, wake-ups
    DMSystem        Client + Server: Spec, TimedSpec, the safety properties
      DMMemory      DMSystem implements SharedMemory (the refinement mapping)
      DMTimeouts    DMSystem with the time-out and who has had one
      DMRestart     DMSystem with servers that end and start again
    DMThreads       Client + ServerThreads, implements DMSystem
    SharedMemory    what the memory promises an application, without revisions,
                    messages or servers
      Readers       the reader test's two programs over SharedMemory
    Handshake       dm_init and the accept loop
    Framing         packets, short reads, time-outs in a packet, SIGPIPE
    MessageTables   the static maps of Message and the log, outside the mutex
    Lifecycle       start, stop and the SIGINT handler
    Configuration   the map of servers and the search in it
    MC...           instances for TLC, one for each module above that is run
    DMInvariant       the inductive invariant of DMSystem
    DMFaultInvariant  what is left of it with time-outs and restarts
    DMSystemProofs    theorems on DMSystem: types and safety; DMSystem implements
                      SharedMemory
    DMFaultProofs     theorems on DMTimeouts and DMRestart, and AssociationsAgree
    DMThreadsProofs   theorems on DMThreads; DMThreads implements DMSystem, and by
                      the theorems above SharedMemory
    DaemonProofs      theorems on Configuration and Lifecycle
    HandshakeProofs, FramingProofs, MessageTablesProofs, ReadersProofs
                      theorems on the modules they are named after

How they correspond to the code:

- **Connections.** `<<c, s, n>>` is the connection the n-th `dm_init` of client
  `c` opened to server `s`; it stands for the ip:port client id. `link` is its
  state, `req` and `rep` what travels in it, in order. The thread that serves a
  connection keeps the request at the head of `req` until it has answered, so a
  thread in `pthread_cond_wait` is a WAIT that cannot be answered yet.
- **Client.** `mapped` is the key set of `Client::blocks`, `local` its copies.
  The `Begin*` actions are a call up to `sock << req`, their guards the early
  returns; the `Return*` actions go from `sock >> req` to the return. Calls that
  return early change nothing and are no steps. `Timeout` is the -4 return.
  `Store` is the application writing into its own memory, `Exit` the process
  ending at any point. `NullBlock` is a dereference of the reference
  `Message::block()` returns when there is no block; the process dies.
  `base` is a history variable: the content the copy last had in common with the
  server; a WRITE carries it, and nothing depends on it.
- **Server.** The `Handle*` actions are the cases of `client_handler`, with
  the answer. An answer to a connection the client has closed is lost, and the
  thread ends or goes on to read the end of the connection, as `send` reports
  it or not. A handler that ends leaves the client in `mapped_clients`, as the
  code does. The mapped clients are a set: `BlockServer::map` never stores one
  twice.
- **ServerThreads.** `pc` is where each thread is. The critical sections are one
  step each, because the mutex is held throughout (their effects are visible
  only to threads that take it); what happens outside the mutex (the answer is
  sent after the unlock) and between the write and its broadcast are steps.
- **DMTimeouts.** `late` is a history variable: the pairs of a client and a server it
  has given up waiting for. A new process of that client starts without.
- **DMRestart.** `Crash(s)` takes the threads, the blocks and every unread request of
  server `s` with it, and the next process starts from the configuration file.
  Replies already sent stay readable. `Broken` is a call that finds its connection
  reset; a call that raises SIGPIPE instead is an `Exit`. `crossed` is a history
  variable: which copies were mapped before the server's last start.
- **SharedMemory, DMMemory.** A copy is *fresh* while nobody else has written its
  block since it was synchronised. A call takes effect once, between its beginning
  and its return: a write happens if the copy is fresh and is refused otherwise; an
  update makes it fresh; a wait is over when it is not. The mapping takes the effect
  of a call to be the server's handling of it, before the client has read the reply
  (`RevSoon`, `CopySoon`); `left` holds the writes of clients that died first.
- **Readers.** A program is a list of instructions: `put` a value, `take` one (the
  loop of wait and update), `clear` it, map, unmap. `Counted` is what the
  uninitialised counter of `count_spaces` may give. `GiveUp` is the -4 of a call
  that took 20 seconds, after which the program returns 1 in the middle of whatever
  it did; a write under way may then still take effect (`Late`). Where the programs
  do not look at the result (the clears and UNMAPs) the time-out is left out.
- **Handshake.** `step` is how far a connection is in M1, M2, M3; `talking` is whom an
  accept loop is shaking hands with. `Exit` closes a client's sockets, `Vanish` does
  not: the machine is gone and nobody says so. What is encrypted is understood by
  those who have the key. A thread ends when its client has closed (`ThreadEnds`) or
  when a request comes in parts (`ThreadDrops`: `short` are the connections it then
  closes under a running client); while it is in `pthread_cond_wait` (`asleep`) it does
  neither. `Sigpipe` is the second send to a client that has left, of M3 or of an
  answer: it ends the server with all its threads, its backlog and its listening
  socket. M1 is one send, which never raises the signal.
- **Framing.** A stream is a sequence of pieces: a length, then `Parts` pieces of text. A
  `recv` takes as many as have arrived. `expect` is what the receiver takes the next
  piece for; after a time-out inside a packet that is wrong, and stays so until the
  stream is empty. A send to an end that has closed may end its sender. A length that
  is read in part leaves the two ends as `RecvLength` and then `Timeout` or `Drop` do,
  and a garbage length for which there is no memory ends the client (`Exit`).
- **MessageTables.** `Program` lists the places where a thread touches a map, the log or
  the mutex, and `Follow` says which comes next: a WAIT builds its ACK before it takes
  the mutex, a request of no known type its NACK after the unlock, the others their
  answer under it. `Main` is the thread of the accept loop, which logs a failed
  handshake without the mutex and then with it. An access to a map or to the log is two
  steps, so that two threads can be inside together. Concurrent access to a `std::map` is undefined behaviour;
  the model follows what the insertions one by one leave readable.
- **Lifecycle.** A signal handler runs on top of the interrupted thread, which does
  nothing until it has returned, and it never does. `clock` is the lock in `ctime`,
  `heap` the one in `malloc` and `free`, which any thread may have at any moment and the
  handler needs for its `delete`, its strings and `exit`. What the use of a deleted
  socket does is left open, killing the process included (`Killed`).
- **Configuration.** `scan` is the loop over the map, which does not stop at the first
  match. `Owner` and `Hosted` of the other modules are `FindServer` and `Creates`.
- A block id the client's configuration does not have returns -1 and changes
  nothing; a block the client has and its server has not (`Hosted`) is modelled.

Faulty variants (`HandleWriteBlind`, `CritWaitOnce`, ...) stand before the action
they vary: plausible mistakes in that code, used to see that each property can be
broken. They are part of no specification.

## 3. Runs

Each cfg names its bounds. No run checks for deadlock: a system whose clients
have all exited, or that reaches the bounds, rightly stops.

| run | question | instance |
|---|---|---|
| `core` | coherence, no lost update, agreement on associations, and DMSystem implements SharedMemory | 2 clients, 1 block, 3 contents, revisions to 3 |
| `threads` | threads implement atomic handlers; no wake-up is lost; a wait returns after a write | 2 clients, revisions to 1 |
| `timeouts` | whom a late answer can confuse | 2 clients, 1 block, 2 contents, revisions to 2, one reply too late after another |
| `restart` | what survives the end of a server and of clients | 2 clients, 3 `dm_init` in all, 1 crash, revisions to 1 |
| `handshake` | who gets a thread, who can end a server, whether `dm_init` ends | 3 clients, 2 servers (up or down, either may end), one wrong passphrase, one missing key, a backlog of 2 |
| `framing` | order and fate of packets | 1 client, 4 calls, texts in 2 pieces |
| `lifecycle` | the listening socket, SIGINT and the locks it meets | 2 handler threads, 2 signals |
| `config` | client and server draw the same conclusion from one file | 3 servers, 2 blocks, 3 entries, errors |
| `readers` | the reader test gives the right output, for ever again, and why a program may fail | 3 rounds, 4 blocks |
| `tables` | races on the static maps and the log | 2 handler threads and the accept loop's, 2 requests each, 5 of the 8 message types |
| `stale_reply` | is a refused write reported? (no) | 2 clients, time-outs |
| `null_block` | is a missing block ever read? (yes) | 2 clients, time-outs |

Why the bounds are enough. Two clients suffice for every race between writers.
Revisions up to 3 let a client fall two behind, and up to 2 with a second WRITE under
way. Two contents besides zero make an overwritten content recognisable; zero matters
because a shallow block arrives as zero bytes. Blocks are independent in the server
and share only a connection in the client, and a client is in one call at a time; the
theorems of section 5 take any number of blocks, servers and `dm_init` calls. A block
its server does not have does no harm to the others by the same theorems.
`MaxQueue` is 1 where nothing times out, which is no restriction (the invariant says
one message per connection); in `timeouts` it keeps a client from sending a second
request while the first is unread, and the late answers are in `rep`, which has no
bound; 2 in the two runs that look for the counterexample. `MaxRev` stops writes in
`BeginWrite`, `MaxInits` stops `dm_init`, `MaxStarts` bounds the `dm_init` of all
clients together, `MaxCrashes` the ends of one server, `MaxCalls`, `MaxRequests`,
`MaxSignals`, `MaxRounds`, `MaxEntries` and `Backlog` what their names say. In
`restart`, one crash with three `dm_init` lets one client map before it, after it, and
stay connected to the dead process while the other starts over. Two pieces of text
are the least that can be cut; four calls let a client lose its place, take garbage
for a length, and come back. The second request of a thread of `tables` is the one that
comes when the maps are filled; races are of two threads, and the theorems take any number.

What the properties of the less obvious runs say:

- `ConfusionIsLocal`, `OnTimeWritesSafe`: after a time-out a client's copies from that
  server may be wrong in every way (the two violation runs show how), and the
  client may overwrite what it has not seen. Every other copy is as before, and no
  client that was answered in time overwrites what it has not seen.
- `MappedSince*`: of a copy that is older than the server's process nothing can be
  said. Everything mapped since behaves as if the server had never ended, whatever
  the old copies' clients do.
- `SocketHasThread`: a running client has a thread behind each socket in its map, with two
  exceptions: a thread that got a part of a request has closed the socket, and a server
  that SIGPIPE has ended has no threads.
- `EndedByServed`: the client whose leaving ends a server is one that knew the secret; who
  has the wrong passphrase, or cannot make an M2, cannot do it.
- `InitEnds`: everything but a machine that vanishes in the handshake leaves the
  accept loop free again, or ends it, and the `dm_init` with it.
- `OneSigintSafe`: one SIGINT that comes to the thread of the accept loop never misuses
  the pointer. It takes two, or one to a handler thread while the accept loop goes on,
  or a `start()` that has not yet opened the socket or could not.
- `ClosedAtExit`: the process exits only with the listening socket closed.
- `SigintQuits`: SIGINT ends the server unless it finds the interrupted thread inside
  `ctime` or `malloc`. No other thread's work, and no other signal, can prevent it.
- `RacesOnlyWhileFilling`, `TypeReadOnceFilled`: the maps are unsafe only while a thread
  in its first request fills them.
- `LogExclusive`: two threads are in the log at once only if one announces its client or
  is the accept loop's in `SecureSocket::accept`; the rest of the log is under the mutex.
- `NoneFails`: a program of the reader test returns 1 only by its own time-out. No write
  of the two is refused because of the other, not even by what the other left under way.
- `RoundsEnd`: both programs end, and as long as both run they do so without a time-out.
- `ZeroSpacesFail`: if the uninitialised counter comes out as zero and reader1 ends well,
  reader2 waits in vain and returns 1. This is what makes the test fail now and then.

### What the code does that its documentation does not say

Two of these are runs that end in a counterexample; the others are exceptions that
stand in a property above, or in the description of an action.

- `stale_reply`: `dm_block_wait` times out; its answer arrives later; the next
  `dm_block_write`, made from an outdated copy, takes it for its own, returns 0,
  and the server refuses the write.
- `null_block`: the same, with `dm_block_update`: the late answer has no block.
- `dm_block_map` that the server refuses returns -5 and leaves the block mapped in the
  client (`ReturnMap`, `client.cpp:59`); so does one that times out.
- A client that is ahead of a restarted server takes the zero bytes of the shallow
  answer to its update for the content (`ReturnUpdate`, `Content`), and one whose
  revision the restarted server has reached overwrites what it has not seen. Both are
  behaviours of `restart`, of copies in `crossed`.
- The id of a client is its ip:port and stays in `mapped_clients` when its handler ends
  (`server.cpp:204`): a new process that the kernel gives the same port is refused
  its first `dm_block_map`. The models give every connection an id of its own.
- SIGPIPE, which nothing ignores, ends a server that answers a client that has gone
  (`Handshake!Sigpipe`, `Framing!Answer`, `DMRestart!Crash`) and a client whose server has
  gone (`Framing!Call`, an `Exit` in DMRestart). M3 to a client that has left the
  handshake does it too.
- The thread that gets a part of a request ends and closes the connection, and the
  client, which runs on, gets an error in its next call or dies of SIGPIPE
  (`Handshake!ThreadDrops`, `Framing!Drop`).
- The thread of a client that died in `dm_block_wait` sleeps until somebody writes the
  block, and for ever if nobody does (`Handshake!ThreadSleeps`, `server.cpp:180`).
- If all clients are in `dm_block_wait` only the receive time-out ends their calls.
- A machine that vanishes in its handshake keeps all later clients of that server in
  `dm_init` for ever (`Handshake!Mute`).
- A `dm_init` that threw leaves the sockets it opened in the map; a program that catches
  the exception and goes on dereferences the NULL that `sockets[id]` inserts for a
  server it did not reach (`client.cpp:52`). `Handshake` ends with the failure.
- `stop()` deletes `listen_socket` when it was never initialised (`start()` failed, or an
  early SIGINT) and under the accept loop that uses it (`Lifecycle!Delete`).
- SIGINT inside `ctime`, `malloc` or `free` stops the process without ending it
  (`Lifecycle!SelfLocked`).
- The first requests of two clients can race on the maps of `Message`, and a thread then
  takes a valid request for one of no type (`MessageTables!Filling`); a client is
  announced in the log without the mutex, and a handshake that fails is logged without it.
- `count_spaces` starts from an uninitialised int; when zero comes out the reader test fails
  by the time-out of reader2 (`ZeroSpacesFail`).

## 4. Fairness

- `DMThreads!Fairness`: a handler thread that can take a step takes one, and a client
  reads the reply that is there; both are the operating system's scheduling of runnable
  threads (weak fairness). Taking the mutex is strongly fair: others take and release it
  in between, and the model assumes `pthread_mutex_lock` starves nobody. POSIX does not
  promise it; implementations for threads of equal priority provide it in practice.
  Spurious wake-ups may happen and are never relied upon.
- `Framing!FairSpec`: threads run. Nothing is assumed of clients, their time-outs included.
- `Handshake!Fairness`: clients in `dm_init` and accept loops go on (weak). Nothing is
  assumed of the threads: `InitEnds` must not depend on what becomes of them.
- `Lifecycle!Spec`: a thread that is in malloc leaves it (weak); a thread at its entry in the
  log, and a signal handler, go on (strong, since others take and release the locks in
  between). `accept` and `recv` may wait for ever.
- `Readers!RSpec`: both programs run on and every call that can take effect does. The time-out
  is certain for a program that is left alone, which the kernel guarantees (`SO_RCVTIMEO`);
  while both run it may come or not, and nothing relies on it.

Nothing makes an application call the library, write, or exit, except in `Readers`, where
the programs are given. Safety properties need no fairness.

## 5. Proofs

`DMSystemProofs` first proves `TypeOK` for `TimedSpec`. It needs two facts beside the types:
a client in a call has made a `dm_init`, and a WRITE on its way is below `MaxRev`.

It then proves, for `Spec` (no time-outs) and for any number of clients,
servers, blocks, contents and `dm_init` calls, `Coherent`, `NeverAhead`,
`InvalidIsOutdated`, `NoFault` and the action property `NoLostUpdate`. None of them
is inductive: they speak of copies and blocks, and what a copy becomes was decided
when the server answered. `DMInvariant!Inductive` says what is in between:

- `ConnOK`: a connection carries at most one message, and only that of the call its
  client is in; one a dead client left behind carries at most its last request;
- `CallOK`, `ReplyOK`: the request is the call's, and the reply, once made, *agrees*
  with the block: its revision is not above the block's, and if equal, the content
  is the block's;
- `CopyOK`: the same of the local copies, and an invalid one is strictly older;
- `WriteOK`: a WRITE agrees with the block, even that of a client that has died;
- `AssocOK`: an association under the current connection is one the client has.

*Agrees* is preserved by everything other clients do because a block's revision only
grows (`Grows`, `AgreesGrows`). So a server step only has to show that its own answer
agrees (`AnswerFrame`, one lemma for each handler), and a client step only its own
copies and connections (`ClientFrame`; `SendFrame` for a call begun, `ReceiveFrame` for a
reply read). The assumptions are `WireAssumption` and `NoBlockAssumption`: well-formed
constants, nothing about their sizes.

`DMFaultProofs` does the same with time-outs and with servers that end and start again.
`Inductive` fails there at once, as it must: a connection then carries answers to calls that
are over, and the runs `stale_reply` and `null_block` show that the properties fail with it.
`DMFaultInvariant!FInv(L, X, C)` keeps of `Inductive` what is still true of everybody who has
not been hit: `L` holds the pairs of a client and a server it has not waited long enough for,
`X` the copies that owe nothing to the present process of their server, `C` the connections
of ended processes. Of the requests of late and dead clients it says nothing at all: whatever
they write only raises a revision, and `Agrees` survives that. A promise that a late or dead
client's WRITE was made from the block's content would not be kept. Every step of `DMSystem`
preserves `FInv(L, X, C)` whatever `L`, `X` and `C` are (`FClientFrame`, `FAnswerFrame`); a
time-out only adds to `L`, the end of a server only to `X` and `C`, a new MAP only takes from
`X`. With `L` = `late` and nothing else this gives `ConfusionIsLocal` and `OnTimeWritesSafe`,
with `X` = `crossed` and `C` = `cut` it gives `RestartTypeOK`, `MappedSinceCoherent` and
`MappedSinceWritesSafe`. After a restart the revisions begin at 0 again, so that `Grows` does
not hold in that step; it is why a copy from before must be in `X`.

The last part proves `AssociationsAgree`, and `MappedSinceAgree` of restarts. `AssocOK` is
one direction. The other is `Settled`: an association the client has is stored under one of
its open connections (`Stored`; not necessarily the current one, because of a second
`dm_init`) by the server's present process, unless the client's MAP has not been answered or
its UNMAP has been granted and the answer not read (`Unsettled`), or the copy is in `X`. A
handler takes an association away only from the connection that asked for it, and a client
closes its connections only with all its associations.

`DMThreadsProofs` proves for `DMThreads`, with any number of threads, that the mutex
excludes (`MutualExclusion`) and `NoLostWakeup`. The invariant says that the thread
between lock and unlock is the one `mutex` names, that `mutex` names a thread of its own
server, that a thread keeps the request it handles at the head of `req`, and that a
sleeping thread waits for a block of its own server. So whoever writes that block holds
the very mutex the sleeper released, and is at the broadcast until it has woken it.

Its second part proves that `DMThreads` implements `DMSystem`. The mapping leaves out
the request a thread has handled and not yet answered, and puts the answer in its place
(`SysReq`, `SysRep`). Taking the mutex, unlocking, broadcasting, waking up and sending are
stutters; a critical section is the handler. One step needs an invariant: a thread whose
`send` fails ends, and in `DMSystem` that is the end of a connection on which nothing is
left to read. It is so because a connection carries at most one message (`Carries`).

Its third part draws the conclusions. It instantiates `DMFaultProofs`, which has all theorems
on `DMSystem`, under the same mapping (`Atomic`; the variables of the two modules with faults
are constants there, and only theorems about `DMSystem!Spec` are taken from it). By
`ThreadsImplementSystem` a behaviour of the threads is one of `Atomic`, so the threads
implement `SharedMemory` (`ThreadsImplementMemory`), their copies are coherent, never ahead,
outdated if invalid, and no call reads a missing block (`ThreadsKeepCopies`), no update is
lost (`ThreadsLoseNoUpdate`), and clients between their calls agree with the servers
(`ThreadsAgree`). What these say of clients, copies and blocks is said of the threads' own
state, which the mapping leaves as it is. Only `NoLostUpdate` speaks of requests as `DMSystem`
sees them; `WritesUnderMutex` says it in the threads' variables: whoever changes a block is in its
critical section, has the mutex of the block's server, and a WRITE made from the content that
is there at that moment, although it may have waited for the mutex since before other writes.
`ThreadedTypes` is type correctness: what the mapping shows has the types of `DMSystem`, and the
request a thread has in its hand and the answers to clients that are gone, which it does not
show, keep theirs (`OwnTypes`).

The last part of `DMSystemProofs` proves that `DMSystem` implements `SharedMemory`: the promise itself, with
any number of clients, servers and blocks. The *view* of a client is what the mapping makes
of its state: the blocks it holds, its copies with the reply there is, its call. A step of a
client changes no view but its own (`OtherView`), an answer only that of the client answered
(`ServerOthers`, `ClientAnswered`). What remains is that comparing revisions is comparing
freshness. `Inductive` gives it: the revision a copy will have is not above the block's
(`SoonBounded`), so a write, which raises the block's revision, makes every other copy of
the block stale and every WRITE a dead client left of it impossible (`Overwritten`).

`HandshakeProofs` proves `TypeOK`, `Authenticated`, `SocketHasThread` and `EndedByServed` for
`Handshake!Spec`, with any number of clients and servers, in any order. The invariant follows a
connection: it is in the backlog at most once and only while queued, an accept loop is busy
with one that is at M1 or M2 (`QueueOK`), and from M3 on it has a thread unless its client has
closed it, the thread has, or the server has ended (`ConnOK`). A thread is started by the step
that accepts M2, which a client without the key never sends; what can raise SIGPIPE is a
connection at such an M2 or one with a thread. It assumes `HandshakeAssumption`: at least one
server, none twice in the order, well-formed `Wrong` and `NoKey`.

`FramingProofs` proves `TypeOK`, `HandledInOrder` and `TakenInOrder` for any number of clients,
calls and pieces of a text. What is in a stream is always `Orderly`: consecutive pieces of
consecutive messages, from anywhere to anywhere, because `recv` takes from the front and
`send` appends whole packets. Of the requests the invariant knows more (`Requests`): the next
piece is the one the thread takes it for, since a thread closes at its first error. Of the
replies it knows less (`Replies`), because a client goes on in the middle of a message:
what it has still to read is newer than every reply it has taken, and a length is followed
by the text it announces. So a call can miss a reply and never takes one twice or out of
order. It assumes `FramingAssumption`: a text has at least one piece.

`MessageTablesProofs` proves the four properties of `MessageTables`, for any number of handler
threads and of requests and any list of types. `PlaceOK` says what a thread has in each place
of its program, the mutex above all: whoever logs, except at the first place (the announcement
of a client, `SecureSocket::accept`), has it. The invariant says when a map is safe to look at: if it is not empty
then it is complete or somebody is filling it (`TableOK`), only threads in their first
request fill, with everything behind them in place (`FilledOK`), and a default stored among
the names is one a filler has still to overwrite (`NamesOK`). The tables the threads race on
are mutated under undefined behaviour; the theorems say how long that window is, not what
happens in it beyond lost or defaulted entries.

`DaemonProofs` begins with `Configuration`, for any number of servers, blocks and entries.
`FindServerLast` says what the search returns: the last server of the map that has the block,
and the empty id if there is none. The search is a recursive function, and the library's
induction theorems are out of reach; the proof takes the least place at which the claim would
fail (`LeastNat`, from the well-foundedness of `<`) and finds that it does not fail there. A
function that satisfies the recursion is given outright (`Closed`), so that the definition is
known to denote one (`ScanExists`). `OwnerHosts` follows in every state, whatever the map
holds. `LastEntryCounts` is proved of `ConfigSpec`: the invariant says that, until the file
turns out to have an error, the map has a server exactly if an entry names it, with the
blocks of the last one (`FromLast`). The assumption is `ConfigurationAssumption`: the ids are a
sequence without repetition, and none of them is the empty one.

The rest of `DaemonProofs` proves `OneSigintSafe` and `ClosedAtExit` for any number of threads
and signals. The signal handler never returns, so a thread it interrupts goes no further, and
before `start()` has opened the socket there is no other thread than main for it to run on
(`PlaceOK`); a handler past its delete leaves no live socket behind (`SignalOK`); and as long as
no signal has come but one to main that has not deleted yet (`Untouched`), the socket of a
started server is live (`SocketOK`).

`ReadersProofs` proves `OutputsAgree`, `CleanSlate` and `NoneFails` for `Readers!RSpec`, over
the abstract memory, for any number of rounds and whatever `count_spaces` returns. It has two
invariants. `ReadersInv` holds until a time-out ends a program, and no longer; both programs can
only end well, and another round begin, before that (`ReadersInvariant`). Three of
the four blocks are mailboxes (`Mails`): one program fills a block, by its instruction
`PutAt`, and the other empties it, by the one after `TakeAt`. The invariant marks a mailbox as
filled or emptied once that write has taken effect (`Filled`, `Emptied`) and says what it
holds: what the filler prints in between, zero otherwise (`MailOK`). The filler's copy is
fresh until the mailbox is emptied and the emptier's from when it has seen the value
(`FromOK`, `ToOK`), so the two never write a mailbox in each other's back and no write is
refused (`WriterIsFresh`), those whose result the programs ignore included. The text has
no mailbox: it is the size that tells reader2 that the text is there, because reader1 writes
it first (`TextOK`). When both have ended each mailbox was filled and emptied, so the next
round starts as the first did. After a time-out there is one program left, or none, and
`SurvivorInv` holds: what the survivor has still to fill nobody else writes, not even late
writes of the other, which are of mailboxes the other fills. So its own `put`s succeed; its
clears may be refused, which it does not notice. `TestInv`, the one or the other, is what
`NoneFails` is proved from. It assumes `ReadersAssumption`: the four blocks and two programs of
the test, and that counts and rounds are values a block can hold.

Only model-checked: liveness (`WaitReturns`, `InitEnds`, `ThreadsEnd`, `SigintQuits`, `RoundsEnd`,
`ZeroSpacesFail`), because the provers have neither fairness nor ENABLED.
Every other property of a run that passes is a theorem above, or a part of one.

## 6. What is not modelled

- *gtest*, vendored under `src/lib/gtest`, is about 26 700 of the repository's 29 200 lines of
  code. It is no part of the system, and the share of lines the map covers is small
  because of it; of the system's own sources the models leave out what follows.
- *Width of the revision*: an `int`, never near 2^31 under the bounds.
- *Text*: YAML of messages and of the configuration file, log levels and formats, command
  lines. A message has the keys `Message::emit` gives it; a document no client sends (an
  unknown type, a missing key in a request) is left out.
- *Ciphers*: RSA, the session key and AES are OpenSSL's.
- A client's send that blocks until its time-out in the middle of a packet; `accept`
  failing for want of descriptors; `getaddrinfo` with several addresses; a connection
  reset that discards requests of a dead client the server has not read (in DMSystem;
  `Framing!Exit` cuts the last one short).
- `Server::Server` asks whether `&config.find(id)` is NULL, which no reference is; with an
  id that is not in the file the behaviour is undefined and has no model.
- `is_valid()` of a socket is true from a successful `dm_init` to the destructor, so the
  -3 returns are unreachable and have no action.
- The unit tests and debug programs are straight-line drivers of one class, read for what
  they expect.

## 7. Plan

Done: the modules of section 2, the runs of section 3, the theorems of section 5.

Left: `DMThreads` with `Crash`, and `Framing` with two clients of one server.
