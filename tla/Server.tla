------------------------------- MODULE Server -------------------------------
(***************************************************************************)
(* dmserver: server.cpp and block_server.cpp.  One thread per connection   *)
(* reads a request, handles it under the server's mutex and answers.  Here *)
(* a handler is one step; ServerThreads gives the mutex and the condition  *)
(* variables, and implements this module.  The message a thread is         *)
(* handling stays at the head of req until its answer is sent, so a thread *)
(* blocked in pthread_cond_wait is a WAIT at the head that cannot be       *)
(* answered yet.                                                           *)
(***************************************************************************)
EXTENDS Wire

VARIABLES
  blocks,          \* Server::blocks: revision and content of each block
  mappedClients,   \* BlockServer::mapped_clients of each block
  thread           \* handler thread of each connection: running or ended

serverVars == <<blocks, mappedClients, thread>>

ServerTypeOK ==
  /\ blocks \in [Blocks -> [rev : Revs, data : Data]]
  /\ mappedClients \in [Blocks -> SUBSET Conns]
  /\ thread \in [Conns -> {"recv", "done"}]

\* A new BlockServer has revision 0, zeroed memory and no clients.
ServerInit ==
  /\ blocks = [b \in Blocks |-> [rev |-> 0, data |-> Zero]]
  /\ mappedClients = [b \in Blocks |-> {}]
  /\ thread = [k \in Conns |-> "recv"]

Serving(k, type) ==
  thread[k] = "recv" /\ req[k] # <<>> /\ Head(req[k]).type = type

\* socket << ack.  To a connection the client has closed the answer is
\* lost, and the thread ends if send reports the error.
Answer(k, ack) ==
  /\ req' = [req EXCEPT ![k] = Tail(@)]
  /\ UNCHANGED link
  /\ \/ /\ link[k] = "open" /\ UNCHANGED thread
        /\ rep' = [rep EXCEPT ![k] = Append(@, ack)]
     \/ /\ link[k] # "open" /\ UNCHANGED rep
        /\ thread' \in {thread, [thread EXCEPT ![k] = "done"]}

HandleMap(k) ==
  LET m == Head(req[k]) IN
  /\ Serving(k, "MAP")
  /\ IF Found(k, m.id) /\ k \notin mappedClients[m.id]
     THEN /\ mappedClients' = [mappedClients EXCEPT ![m.id] = @ \cup {k}]
          /\ Answer(k, FullAck(m.id, blocks[m.id]))
     ELSE Answer(k, Nack) /\ UNCHANGED mappedClients
  /\ UNCHANGED blocks

\* Faulty variant for the mutants: ACK without erasing the client.
HandleUnmapKeeps(k) ==
  /\ Serving(k, "UNMAP")
  /\ Answer(k, PlainAck)
  /\ UNCHANGED <<blocks, mappedClients>>

HandleUnmap(k) ==
  LET m == Head(req[k]) IN
  /\ Serving(k, "UNMAP")
  /\ IF Found(k, m.id) /\ k \in mappedClients[m.id]
     THEN /\ mappedClients' = [mappedClients EXCEPT ![m.id] = @ \ {k}]
          /\ Answer(k, PlainAck)
     ELSE Answer(k, Nack) /\ UNCHANGED mappedClients
  /\ UNCHANGED blocks

\* Faulty variants: the revision comparison the wrong way round; an ACK of the
\* first form, without a block, to a client that is up to date.
HandleUpdateSwapped(k) ==
  LET m == Head(req[k])
      b == blocks[m.id] IN
  /\ Serving(k, "UPDATE")
  /\ Answer(k, IF ~Found(k, m.id) THEN Nack
               ELSE IF b.rev < m.rev THEN FullAck(m.id, b)
               ELSE ShallowAck(m.id, b))
  /\ UNCHANGED <<blocks, mappedClients>>
HandleUpdateBare(k) ==
  LET m == Head(req[k])
      b == blocks[m.id] IN
  /\ Serving(k, "UPDATE")
  /\ Answer(k, IF ~Found(k, m.id) THEN Nack
               ELSE IF m.rev < b.rev THEN FullAck(m.id, b)
               ELSE PlainAck)
  /\ UNCHANGED <<blocks, mappedClients>>

HandleUpdate(k) ==
  LET m == Head(req[k])
      b == blocks[m.id] IN
  /\ Serving(k, "UPDATE")
  /\ Answer(k, IF ~Found(k, m.id) THEN Nack
               ELSE IF m.rev < b.rev THEN FullAck(m.id, b)
               ELSE ShallowAck(m.id, b))
  /\ UNCHANGED <<blocks, mappedClients>>

\* Faulty variants: the revision is not checked; add_revision is forgotten.
HandleWriteBlind(k) ==
  LET m == Head(req[k]) IN
  /\ Serving(k, "WRITE")
  /\ IF Found(k, m.id)
     THEN /\ blocks' = [blocks EXCEPT ![m.id] = [rev |-> @.rev + 1, data |-> Content(m)]]
          /\ Answer(k, PlainAck)
     ELSE Answer(k, Nack) /\ UNCHANGED blocks
  /\ UNCHANGED mappedClients
HandleWriteSameRevision(k) ==
  LET m == Head(req[k]) IN
  /\ Serving(k, "WRITE")
  /\ IF Found(k, m.id) /\ blocks[m.id].rev = m.rev
     THEN /\ blocks' = [blocks EXCEPT ![m.id].data = Content(m)]
          /\ Answer(k, PlainAck)
     ELSE Answer(k, Nack) /\ UNCHANGED blocks
  /\ UNCHANGED mappedClients

HandleWrite(k) ==
  LET m == Head(req[k]) IN
  /\ Serving(k, "WRITE")
  /\ IF Found(k, m.id) /\ blocks[m.id].rev = m.rev
     THEN /\ blocks' = [blocks EXCEPT ![m.id] =
                          [rev |-> m.rev + 1, data |-> Content(m)]]
          /\ Answer(k, PlainAck)
     ELSE Answer(k, Nack) /\ UNCHANGED blocks
  /\ UNCHANGED mappedClients

\* The loop around pthread_cond_wait ends when the revisions differ.
HandleWait(k) ==
  LET m == Head(req[k]) IN
  /\ Serving(k, "WAIT")
  /\ ~(Found(k, m.id) /\ blocks[m.id].rev = m.rev)
  /\ Answer(k, PlainAck)
  /\ UNCHANGED <<blocks, mappedClients>>

\* recv reports the end of the connection: the thread ends, and the client
\* stays in mapped_clients.
Disconnect(k) ==
  /\ thread[k] = "recv" /\ req[k] = <<>> /\ link[k] = "closed"
  /\ thread' = [thread EXCEPT ![k] = "done"]
  /\ UNCHANGED <<blocks, mappedClients, wireVars>>

ServerStep(k) ==
  \/ HandleMap(k) \/ HandleUnmap(k) \/ HandleUpdate(k)
  \/ HandleWrite(k) \/ HandleWait(k) \/ Disconnect(k)
=============================================================================
