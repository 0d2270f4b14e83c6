---------------------------- MODULE ServerThreads ----------------------------
(***************************************************************************)
(* The handler threads of server.cpp at the grain of their mutex and       *)
(* condition variables.  Each server has one mutex, each block one         *)
(* condition variable; a thread takes the mutex, handles the request,      *)
(* releases the mutex and only then sends the answer.  Wake-ups may be     *)
(* spurious.                                                               *)
(*                                                                         *)
(* Where a thread is (pc):                                                 *)
(*   recv    in socket >> message                                     *)
(*   lock    in pthread_mutex_lock                                         *)
(*   crit    holds the mutex, request not handled yet                      *)
(*   cast    holds the mutex, about to broadcast                           *)
(*   asleep  in pthread_cond_wait, not woken                               *)
(*   woken   in pthread_cond_wait, wants the mutex back                    *)
(*   unlock  holds the mutex, request handled                              *)
(*   send    in socket << ack                                         *)
(*   done    ended                                                         *)
(***************************************************************************)
EXTENDS Wire

VARIABLES
  blocks, mappedClients,   \* as in Server
  pc,                      \* where each thread is
  ack,                     \* the answer it has ready
  mutex                    \* the thread that holds the mutex of each server

threadVars == <<blocks, mappedClients, pc, ack, mutex>>

NoThread == <<>>

ThreadsTypeOK ==
  /\ blocks \in [Blocks -> [rev : Revs, data : Data]]
  /\ mappedClients \in [Blocks -> SUBSET Conns]
  /\ pc \in [Conns -> {"recv", "lock", "crit", "cast", "asleep", "woken",
                       "unlock", "send", "done"}]
  /\ ack \in [Conns -> Reply]
  /\ mutex \in [Servers -> Conns \cup {NoThread}]

ThreadsInit ==
  /\ blocks = [b \in Blocks |-> [rev |-> 0, data |-> Zero]]
  /\ mappedClients = [b \in Blocks |-> {}]
  /\ pc = [k \in Conns |-> "recv"]
  /\ ack = [k \in Conns |-> Nack]
  /\ mutex = [s \in Servers |-> NoThread]

Goto(k, from, to) == pc[k] = from /\ pc' = [pc EXCEPT ![k] = to]

\* A whole request has been received.
Recv(k) ==
  /\ req[k] # <<>> /\ Goto(k, "recv", "lock")
  /\ UNCHANGED <<blocks, mappedClients, ack, mutex, wireVars>>

\* The end of the connection has been received.
RecvEnd(k) ==
  /\ req[k] = <<>> /\ link[k] = "closed" /\ Goto(k, "recv", "done")
  /\ UNCHANGED <<blocks, mappedClients, ack, mutex, wireVars>>

\* pthread_mutex_lock returns, or pthread_cond_wait with the mutex.
Lock(k) ==
  /\ mutex[k[2]] = NoThread
  /\ mutex' = [mutex EXCEPT ![k[2]] = k]
  /\ Goto(k, "lock", "crit") \/ Goto(k, "woken", "crit")
  /\ UNCHANGED <<blocks, mappedClients, ack, wireVars>>

Handling(k, type, next, answer) ==
  /\ Goto(k, "crit", next)
  /\ Head(req[k]).type = type
  /\ ack' = [ack EXCEPT ![k] = answer]
  /\ UNCHANGED <<mutex, wireVars>>

CritMap(k) ==
  LET m == Head(req[k])
      new == Found(k, m.id) /\ k \notin mappedClients[m.id] IN
  /\ Handling(k, "MAP", "unlock", IF new THEN FullAck(m.id, blocks[m.id]) ELSE Nack)
  /\ mappedClients' = [b \in Blocks |->
       IF new /\ b = m.id THEN mappedClients[b] \cup {k} ELSE mappedClients[b]]
  /\ UNCHANGED blocks

CritUnmap(k) ==
  LET m == Head(req[k])
      known == Found(k, m.id) /\ k \in mappedClients[m.id] IN
  /\ Handling(k, "UNMAP", "unlock", IF known THEN PlainAck ELSE Nack)
  /\ mappedClients' = [b \in Blocks |->
       IF known /\ b = m.id THEN mappedClients[b] \ {k} ELSE mappedClients[b]]
  /\ UNCHANGED blocks

CritUpdate(k) ==
  LET m == Head(req[k])
      b == blocks[m.id] IN
  /\ Handling(k, "UPDATE", "unlock",
       IF ~Found(k, m.id) THEN Nack
       ELSE IF m.rev < b.rev THEN FullAck(m.id, b) ELSE ShallowAck(m.id, b))
  /\ UNCHANGED <<blocks, mappedClients>>

CritWrite(k) ==
  LET m == Head(req[k])
      current == Found(k, m.id) /\ blocks[m.id].rev = m.rev IN
  /\ Handling(k, "WRITE", "cast", IF current THEN PlainAck ELSE Nack)
  /\ blocks' = [b \in Blocks |->
       IF current /\ b = m.id THEN [rev |-> m.rev + 1, data |-> Content(m)]
       ELSE blocks[b]]
  /\ UNCHANGED mappedClients

\* The threads of k's server in the wait set of block b.
Asleep(k, b) ==
  {w \in Conns : w[2] = k[2] /\ pc[w] = "asleep" /\ Head(req[w]).id = b}

\* Faulty variant: no call at all.
BroadcastNone(k) ==
  /\ Goto(k, "cast", "unlock")
  /\ UNCHANGED <<blocks, mappedClients, ack, mutex, wireVars>>

\* pthread_cond_broadcast, after a refused WRITE too.
Broadcast(k) ==
  LET asleep == Asleep(k, Head(req[k]).id) IN
  /\ pc[k] = "cast"
  /\ pc' = [w \in Conns |-> IF w = k THEN "unlock"
                            ELSE IF w \in asleep THEN "woken" ELSE pc[w]]
  /\ UNCHANGED <<blocks, mappedClients, ack, mutex, wireVars>>

\* Faulty variant: if in place of while, a woken thread does not look again.
CritWaitOnce(k) ==
  LET m == Head(req[k]) IN
  \/ /\ Handling(k, "WAIT", "unlock", PlainAck)
     /\ ~(Found(k, m.id) /\ blocks[m.id].rev = m.rev) \/ ack[k] = PlainAck
     /\ UNCHANGED <<blocks, mappedClients>>
  \/ /\ Goto(k, "crit", "asleep") /\ m.type = "WAIT" /\ ack[k] # PlainAck
     /\ Found(k, m.id) /\ blocks[m.id].rev = m.rev
     /\ ack' = [ack EXCEPT ![k] = PlainAck]
     /\ mutex' = [mutex EXCEPT ![k[2]] = NoThread]
     /\ UNCHANGED <<blocks, mappedClients, wireVars>>

\* The test of the while loop: pthread_cond_wait, or out of the loop.
CritWait(k) ==
  LET m == Head(req[k]) IN
  \/ /\ Handling(k, "WAIT", "unlock", PlainAck)
     /\ ~(Found(k, m.id) /\ blocks[m.id].rev = m.rev)
     /\ UNCHANGED <<blocks, mappedClients>>
  \/ /\ Goto(k, "crit", "asleep") /\ m.type = "WAIT"
     /\ Found(k, m.id) /\ blocks[m.id].rev = m.rev
     /\ mutex' = [mutex EXCEPT ![k[2]] = NoThread]
     /\ UNCHANGED <<blocks, mappedClients, ack, wireVars>>

\* pthread_cond_wait may return without a broadcast.
SpuriousWakeup(k) ==
  /\ Goto(k, "asleep", "woken")
  /\ UNCHANGED <<blocks, mappedClients, ack, mutex, wireVars>>

Unlock(k) ==
  /\ Goto(k, "unlock", "send")
  /\ mutex' = [mutex EXCEPT ![k[2]] = NoThread]
  /\ UNCHANGED <<blocks, mappedClients, ack, wireVars>>

\* To a connection the client has closed the answer is lost, and the thread
\* ends if send reports the error.
SendAck(k) ==
  /\ \/ /\ link[k] = "open" /\ Goto(k, "send", "recv")
        /\ rep' = [rep EXCEPT ![k] = Append(@, ack[k])]
     \/ /\ link[k] # "open" /\ UNCHANGED rep
        /\ Goto(k, "send", "recv") \/ Goto(k, "send", "done")
  /\ req' = [req EXCEPT ![k] = Tail(@)]
  /\ ack' = [ack EXCEPT ![k] = Nack]
  /\ UNCHANGED <<blocks, mappedClients, mutex, link>>

Critical(k) ==
  CritMap(k) \/ CritUnmap(k) \/ CritUpdate(k) \/ CritWrite(k) \/ CritWait(k)

\* What the thread does without waiting for another one.
Proceed(k) ==
  Recv(k) \/ RecvEnd(k) \/ Critical(k) \/ Broadcast(k) \/ Unlock(k) \/ SendAck(k)

ThreadStep(k) == Proceed(k) \/ Lock(k) \/ SpuriousWakeup(k)
=============================================================================
