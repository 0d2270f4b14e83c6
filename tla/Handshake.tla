----------------------------- MODULE Handshake -----------------------------
(***************************************************************************)
(* How clients get their connections: dm_init opens one to every server,   *)
(* in the order of the configuration (client.cpp), each with the three     *)
(* messages of SecureSocket: a nonce (M1), the session key and the         *)
(* passphrase under the server's RSA key (M2), the session key back (M3).  *)
(* The server does its half inside the accept loop (server.cpp), one       *)
(* client after the other, and starts a thread only then.  No time-out is  *)
(* set on either side before the handshake is over.  A thread ends when it *)
(* cannot receive a whole request; while it waits on a condition it reads  *)
(* nothing.  The process ends, with all its threads, by the SIGPIPE of a   *)
(* send to a client that has left: nobody ignores that signal.             *)
(***************************************************************************)
EXTENDS Naturals, FiniteSets, SequencesExt

CONSTANTS
  Clients,
  Order,     \* the servers, in the order of the configuration
  Wrong,     \* <<client, server>>: the passphrase or the public key is wrong
  NoKey,     \* <<client, server>>: the client cannot make M2
  Nobody,    \* the accept loop is not in a handshake
  Backlog    \* connections the kernel keeps for the accept loop

Servers == Range(Order)
Conns == Clients \X Servers

ASSUME HandshakeAssumption ==
  /\ Order \in Seq(Servers) /\ Order # <<>> /\ IsInjective(Order)
  /\ Wrong \subseteq Conns /\ NoKey \subseteq Conns
  /\ Nobody \notin Clients /\ Backlog \in Nat \ {0}

VARIABLES
  up,       \* the servers that listen
  stage,    \* of a client: "off", "init", "ready", "failed", "gone"
  at,       \* the server dm_init is at
  step,     \* how far each connection is
  left,     \* connections the client has closed
  sockets,  \* what is in the clients' maps of sockets
  backlog,  \* what each accept loop has still to accept
  talking,  \* the client each accept loop is in a handshake with
  threads,  \* the handler threads
  asleep,   \* those in pthread_cond_wait
  short,    \* connections closed by their thread while the client had them open
  ended     \* the servers that SIGPIPE has ended

serverEnd == <<asleep, short, ended>>
vars == <<up, stage, at, step, left, sockets, backlog, talking, threads, serverEnd>>

TypeOK ==
  /\ up \subseteq Servers
  /\ stage \in [Clients -> {"off", "init", "ready", "failed", "gone"}]
  /\ at \in [Clients -> 1 .. Len(Order)]
  /\ step \in [Conns -> {"none", "queued", "M1", "M2", "M3", "open", "refused"}]
  /\ left \subseteq Conns /\ sockets \subseteq Conns /\ threads \subseteq Conns
  /\ asleep \subseteq threads /\ short \subseteq Conns /\ ended \subseteq Servers
  /\ backlog \in [Servers -> Seq(Clients)]
  /\ talking \in [Servers -> Clients \cup {Nobody}]

Init ==
  /\ up \in SUBSET Servers
  /\ stage = [c \in Clients |-> "off"] /\ at = [c \in Clients |-> 1]
  /\ step = [k \in Conns |-> "none"]
  /\ left = {} /\ sockets = {} /\ threads = {}
  /\ asleep = {} /\ short = {} /\ ended = {}
  /\ backlog = [s \in Servers |-> <<>>] /\ talking = [s \in Servers |-> Nobody]

Here(c) == <<c, Order[at[c]]>>
Now(c, x) == stage' = [stage EXCEPT ![c] = x]
Goes(k, x) == step' = [step EXCEPT ![k] = x]
clientOnly == <<up, backlog, talking, threads, serverEnd>>

-----------------------------------------------------------------------------
DmInit(c) ==
  /\ stage[c] = "off" /\ Now(c, "init")
  /\ UNCHANGED <<clientOnly, at, step, left, sockets>>

Connect(c) ==
  LET k == Here(c) IN
  /\ stage[c] = "init" /\ step[k] = "none"
  /\ k[2] \in up /\ Len(backlog[k[2]]) < Backlog
  /\ backlog' = [backlog EXCEPT ![k[2]] = Append(@, c)]
  /\ Goes(k, "queued")
  /\ UNCHANGED <<up, talking, threads, serverEnd, stage, at, left, sockets>>

\* An error closes the socket and dm_init throws: servers already connected
\* stay in the map of sockets, the others are not in it.
Fail(c) ==
  LET k == Here(c) IN
  /\ stage[c] = "init"
  /\ \/ step[k] = "none" /\ k[2] \notin up
     \/ step[k] \in {"queued", "M1"} /\ k \in NoKey
     \/ step[k] = "refused"
  /\ Now(c, "failed") /\ left' = left \cup {k}
  /\ UNCHANGED <<clientOnly, at, step, sockets>>

SendM2(c) ==
  /\ stage[c] = "init" /\ step[Here(c)] = "M1" /\ Here(c) \notin NoKey
  /\ Goes(Here(c), "M2")
  /\ UNCHANGED <<clientOnly, stage, at, left, sockets>>

\* Faulty variant: the loop goes past the last server.
ConnectedPastEnd(c) ==
  /\ Goes(Here(c), "open")
  /\ sockets' = sockets \cup {Here(c)}
  /\ at' = [at EXCEPT ![c] = @ + 1]
  /\ UNCHANGED <<clientOnly, left, stage>>
\* The socket goes into the map, and dm_init to the next server.
Connected(c) ==
  /\ Goes(Here(c), "open")
  /\ sockets' = sockets \cup {Here(c)}
  /\ IF at[c] = Len(Order) THEN Now(c, "ready") /\ UNCHANGED at
                           ELSE at' = [at EXCEPT ![c] = @ + 1] /\ UNCHANGED stage
  /\ UNCHANGED <<clientOnly, left>>
\* Faulty variant: the end of the connection is taken for M3.
ReceiveM3Unchecked(c) ==
  stage[c] = "init" /\ step[Here(c)] \in {"M3", "refused"} /\ Connected(c)
ReceiveM3(c) == stage[c] = "init" /\ step[Here(c)] = "M3" /\ Connected(c)

\* The process ends; the kernel closes its sockets.
Exit(c) ==
  /\ stage[c] \in {"init", "ready", "failed"} /\ Now(c, "gone")
  /\ left' = left \cup {k \in Conns : k[1] = c /\ step[k] # "none"}
  /\ UNCHANGED <<clientOnly, at, step, sockets>>

\* The client's machine is gone, and nothing tells the servers.
Vanish(c) ==
  /\ stage[c] \in {"init", "ready"} /\ Now(c, "gone")
  /\ UNCHANGED <<clientOnly, at, step, left, sockets>>

-----------------------------------------------------------------------------
\* accept() takes the oldest connection and sends M1.
Accept(s) ==
  /\ s \in up /\ talking[s] = Nobody /\ backlog[s] # <<>>
  /\ talking' = [talking EXCEPT ![s] = Head(backlog[s])]
  /\ backlog' = [backlog EXCEPT ![s] = Tail(@)]
  /\ Goes(<<Head(backlog[s]), s>>, "M1")
  /\ UNCHANGED <<up, stage, at, left, sockets, threads, serverEnd>>

\* Faulty variant: M2 is not checked.
AcceptM2Blind(s, k) ==
  /\ k = <<talking[s], s>> /\ k \in Conns /\ step[k] = "M2"
  /\ Goes(k, "M3") /\ threads' = threads \cup {k}
  /\ talking' = [talking EXCEPT ![s] = Nobody]
  /\ UNCHANGED <<up, stage, at, left, sockets, backlog, serverEnd>>
\* M2 is right: send M3 and start the thread.  M3 may go to a client that has
\* left, for the kernel does not know of it before the client's answers.
AcceptM2(s, k) ==
  /\ k = <<talking[s], s>> /\ k \in Conns /\ step[k] = "M2" /\ k \notin Wrong
  /\ Goes(k, "M3") /\ threads' = threads \cup {k}
  /\ talking' = [talking EXCEPT ![s] = Nobody]
  /\ UNCHANGED <<up, stage, at, left, sockets, backlog, serverEnd>>

\* Faulty variant: the socket of a client that is refused is not deleted.
RefuseKeeps(s, k) ==
  /\ k = <<talking[s], s>> /\ k \in Conns
  /\ \/ step[k] = "M2" /\ k \in Wrong \cup left
     \/ step[k] = "M1" /\ k \in left
  /\ talking' = [talking EXCEPT ![s] = Nobody]
  /\ UNCHANGED <<up, stage, at, step, left, sockets, backlog, threads, serverEnd>>
\* M2 is wrong, or the client has closed and M2 does not come or M3 cannot go
\* (an error of send(), where it is not SIGPIPE).
Refuse(s, k) ==
  /\ k = <<talking[s], s>> /\ k \in Conns
  /\ \/ step[k] = "M2" /\ k \in Wrong \cup left
     \/ step[k] = "M1" /\ k \in left
  /\ Goes(k, "refused")
  /\ talking' = [talking EXCEPT ![s] = Nobody]
  /\ UNCHANGED <<up, stage, at, left, sockets, backlog, threads, serverEnd>>

threadOnly == <<up, stage, at, step, left, sockets, backlog, talking, ended>>

\* The thread reads the end of the connection.
ThreadEnds(k) ==
  /\ k \in threads \ asleep /\ k \in left
  /\ threads' = threads \ {k}
  /\ UNCHANGED <<threadOnly, asleep, short>>

\* The thread gets a request in part: it ends and deletes the socket, though its
\* client runs.
ThreadDrops(k) ==
  /\ k \in threads \ asleep /\ k \in sockets \ left
  /\ threads' = threads \ {k} /\ short' = short \cup {k}
  /\ UNCHANGED <<threadOnly, asleep>>

\* A WAIT of the client, also when it has left in the meantime.
ThreadSleeps(k) ==
  /\ k \in threads \ asleep /\ k \in sockets
  /\ asleep' = asleep \cup {k}
  /\ UNCHANGED <<threadOnly, threads, short>>

\* A WRITE of another client: of the threads that wait some find the block
\* changed.
Broadcast(k) ==
  /\ k \in threads \ asleep /\ k \in sockets
  /\ \E woken \in SUBSET {j \in asleep : j[2] = k[2]} : asleep' = asleep \ woken
  /\ UNCHANGED <<threadOnly, threads, short>>

\* The process ends: the kernel closes its sockets, the listening one included.
\* An M3 that has arrived can still be read.
Killed(s) ==
  /\ up' = up \ {s} /\ ended' = ended \cup {s}
  /\ threads' = {k \in threads : k[2] # s} /\ asleep' = {k \in asleep : k[2] # s}
  /\ backlog' = [backlog EXCEPT ![s] = <<>>] /\ talking' = [talking EXCEPT ![s] = Nobody]
  /\ step' = [k \in Conns |-> IF k[2] = s /\ step[k] \in {"queued", "M1", "M2"}
                              THEN "refused" ELSE step[k]]
  /\ UNCHANGED <<stage, at, left, sockets, short>>

\* Faulty variant: M1 goes in two sends, too.
SigpipeAtM1(s, k) ==
  /\ k \in left /\ k[2] = s
  /\ \/ k = <<talking[s], s>> /\ step[k] \in {"M1", "M2"}
     \/ k \in (threads \ asleep) \cap sockets
  /\ Killed(s)
\* M3, or the answer to a request, goes to a client that has left, in two sends:
\* the kernel hears of it after the first, and the second raises SIGPIPE.
Sigpipe(s, k) ==
  /\ k \in left /\ k[2] = s
  /\ \/ k = <<talking[s], s>> /\ step[k] = "M2" /\ k \notin Wrong
     \/ k \in (threads \ asleep) \cap sockets
  /\ Killed(s)

-----------------------------------------------------------------------------
ClientStep(c) == Connect(c) \/ Fail(c) \/ SendM2(c) \/ ReceiveM3(c)
ServerStep(s) == Accept(s) \/ \E k \in Conns : AcceptM2(s, k) \/ Refuse(s, k)

Next ==
  \/ \E c \in Clients : DmInit(c) \/ ClientStep(c) \/ Exit(c) \/ Vanish(c)
  \/ \E s \in Servers : ServerStep(s)
  \/ \E k \in Conns : ThreadEnds(k) \/ ThreadDrops(k) \/ ThreadSleeps(k) \/ Broadcast(k)
  \/ \E s \in Servers, k \in Conns : Sigpipe(s, k)

\* Programs in dm_init and accept loops go on; nothing is assumed of the threads,
\* and dm_init is called, programs end and machines vanish, at will.
Fairness ==
  /\ \A c \in Clients : WF_vars(ClientStep(c))
  /\ \A s \in Servers : WF_vars(ServerStep(s))
Spec == Init /\ [][Next]_vars /\ Fairness

-----------------------------------------------------------------------------
\* A server has a thread only for clients that know its key and the passphrase,
\* whatever other clients the accept loop served before (secure_socket.cpp).
Authenticated == threads \cap (Wrong \cup NoKey) = {}

\* The two sides agree: behind every socket a running client has in its map there
\* is a thread that reads from it, or will, and nobody else is in the handshake
\* for it; unless that thread lost its place in a request, or the whole server
\* ended by the fault of another client (client.cpp, server.cpp).
SocketHasThread ==
  \A k \in sockets : stage[k[1]] # "gone" /\ k \notin short /\ k[2] \notin ended =>
    k \in threads /\ talking[k[2]] # k[1]

\* What ends a server is a client that left and knew the secret: none that has the
\* wrong passphrase or cannot make an M2 does, whatever it sends and whenever it
\* leaves (socket.cpp, secure_socket.cpp).
EndedByServed ==
  \A s \in ended : \E k \in left : k[2] = s /\ k \notin Wrong \cup NoKey /\ step[k] # "none"

\* The accept loop of s waits for the M2 of a client whose machine is gone.
Mute(s) ==
  LET k == <<talking[s], s>> IN
  talking[s] # Nobody /\ stage[talking[s]] = "gone" /\ k \notin left

\* Every dm_init ends, with all connections or with an exception, unless a client
\* that vanished in its handshake holds the accept loop dm_init needs: nothing
\* else, no refused client, none that ends and no server that ends, keeps the
\* others waiting.
InitEnds ==
  \A c \in Clients :
    stage[c] = "init" ~> stage[c] # "init" \/ Mute(Order[at[c]])
=============================================================================
