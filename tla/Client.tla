------------------------------- MODULE Client -------------------------------
(***************************************************************************)
(* libdm: client.cpp and block_local.cpp.  A client is one single-threaded *)
(* process.  Each dm_block_* call is two steps: up to the request being    *)
(* sent (the early returns are the guards), and from the reply to the      *)
(* return.  A call that returns early changes nothing and is no step.      *)
(***************************************************************************)
EXTENDS Wire

VARIABLES
  mapped,   \* the keys of Client::blocks
  local,    \* Client::blocks: the local copy of each mapped block
  call,     \* the library call the client is in
  gen,      \* number of dm_init calls made
  base      \* history: content last shared with the server, per local copy

clientVars == <<mapped, local, call, gen, base>>

Copy == [id : Blocks, rev : Revs, data : Data, valid : BOOLEAN]
\* BlockLocal(b, address), the memory there holding d.
NewCopy(b, d) == [id |-> b, rev |-> 0, data |-> d, valid |-> TRUE]
NoCopy(b) == NewCopy(b, Zero)   \* stands for an unmapped block

Off == [op |-> "OFF", id |-> NoBlock]      \* no process, or before dm_init
Idle == [op |-> "IDLE", id |-> NoBlock]    \* in application code
Fault == [op |-> "FAULT", id |-> NoBlock]  \* died of a null dereference

ClientTypeOK ==
  /\ mapped \in [Clients -> SUBSET Blocks]
  /\ local \in [Clients -> [Blocks -> Copy]]
  /\ call \in [Clients -> [op : Calls, id : Blocks] \cup {Off, Idle, Fault}]
  /\ gen \in [Clients -> 0 .. MaxInits]
  /\ base \in [Clients -> [Blocks -> Data]]

ClientInit ==
  /\ mapped = [c \in Clients |-> {}]
  /\ local = [c \in Clients |-> [b \in Blocks |-> NoCopy(b)]]
  /\ call = [c \in Clients |-> Off]
  /\ gen = [c \in Clients |-> 0]
  /\ base = [c \in Clients |-> [b \in Blocks |-> Zero]]

Busy(c) == call[c].op \in Calls
Alive(c) == Busy(c) \/ call[c] = Idle

\* *sockets[config.find_server_id_by_block_id(b)]
Sock(c, b) == <<c, Owner[b], gen[c]>>

SetCopy(c, b, l) == local' = [local EXCEPT ![c][b] = l]

Reset(c) ==
  /\ mapped' = [mapped EXCEPT ![c] = {}]
  /\ local' = [local EXCEPT ![c] = [b \in Blocks |-> NoCopy(b)]]
  /\ base' = [base EXCEPT ![c] = [b \in Blocks |-> Zero]]

CloseAll(c) ==
  /\ link' = [k \in Conns |-> IF k[1] = c /\ link[k] = "open" THEN "closed" ELSE link[k]]
  /\ rep' = [k \in Conns |-> IF k[1] = c THEN <<>> ELSE rep[k]]

\* Connects to every server.  A second call in the same process replaces the
\* sockets, leaks the old ones and keeps the local blocks.
DmInit(c) ==
  /\ call[c] \in {Off, Idle} /\ gen[c] < MaxInits
  /\ gen' = [gen EXCEPT ![c] = @ + 1]
  /\ link' = [k \in Conns |-> IF k[1] = c /\ k[3] = gen[c] + 1 THEN "open" ELSE link[k]]
  /\ call' = [call EXCEPT ![c] = Idle]
  /\ UNCHANGED <<mapped, local, base, req, rep>>

\* The application stores into the memory of a local copy.
Store(c, b, d) ==
  /\ call[c] = Idle /\ b \in mapped[c]
  /\ SetCopy(c, b, [local[c][b] EXCEPT !.data = d])
  /\ UNCHANGED <<mapped, call, gen, base, wireVars>>

\* The process exits or is killed, whatever it was doing.
Exit(c) ==
  /\ Alive(c)
  /\ call' = [call EXCEPT ![c] = Off]
  /\ Reset(c) /\ CloseAll(c)
  /\ UNCHANGED <<gen, req>>

Send(c, op, b, m) ==
  /\ Len(req[Sock(c, b)]) < MaxQueue
  /\ req' = [req EXCEPT ![Sock(c, b)] = Append(@, m)]
  /\ call' = [call EXCEPT ![c] = [op |-> op, id |-> b]]
  /\ UNCHANGED <<gen, link, rep>>

\* dm_block_map(b, address): the memory at address holds some content d.
BeginMap(c, b, d) ==
  /\ call[c] = Idle /\ b \notin mapped[c]
  /\ mapped' = [mapped EXCEPT ![c] = @ \cup {b}]
  /\ SetCopy(c, b, NewCopy(b, d))
  /\ base' = [base EXCEPT ![c][b] = d]
  /\ Send(c, "MAP", b, ShallowRequest("MAP", NewCopy(b, d)))

BeginUnmap(c, b) ==
  /\ call[c] = Idle /\ b \in mapped[c]
  /\ Send(c, "UNMAP", b, ShallowRequest("UNMAP", local[c][b]))
  /\ UNCHANGED <<mapped, local, base>>

BeginUpdate(c, b) ==
  /\ call[c] = Idle /\ b \in mapped[c]
  /\ Send(c, "UPDATE", b, ShallowRequest("UPDATE", local[c][b]))
  /\ UNCHANGED <<mapped, local, base>>

BeginWrite(c, b) ==
  /\ call[c] = Idle /\ b \in mapped[c] /\ local[c][b].valid
  /\ local[c][b].rev < MaxRev
  /\ Send(c, "WRITE", b, WriteRequest(local[c][b], base[c][b]))
  /\ UNCHANGED <<mapped, local, base>>

BeginWait(c, b) ==
  /\ call[c] = Idle /\ b \in mapped[c] /\ local[c][b].valid
  /\ Send(c, "WAIT", b, ShallowRequest("WAIT", local[c][b]))
  /\ UNCHANGED <<mapped, local, base>>

-----------------------------------------------------------------------------
\* The reply read by sock >> req, and what every return does.
Ack(c) == Head(rep[Sock(c, call[c].id)])

Receive(c, op) ==
  LET k == Sock(c, call[c].id) IN
  /\ call[c].op = op /\ rep[k] # <<>>
  /\ rep' = [rep EXCEPT ![k] = Tail(@)]
  /\ call' = [call EXCEPT ![c] = Idle]
  /\ UNCHANGED <<gen, link, req>>

\* ack.block() of a reply without a block is a null reference.
NullBlock(c, op) ==
  /\ call[c].op = op /\ rep[Sock(c, call[c].id)] # <<>>
  /\ Ack(c).type = "ACK" /\ Ack(c).block = NoBlock
  /\ call' = [call EXCEPT ![c] = Fault]
  /\ Reset(c) /\ CloseAll(c)
  /\ UNCHANGED <<gen, req>>

\* blocks[id] = ack.block(): Block::operator= copies id, revision and data.
Install(c, b, blk, valid) ==
  /\ SetCopy(c, b, [id |-> blk.id, rev |-> blk.rev, data |-> Content(blk), valid |-> valid])
  /\ base' = [base EXCEPT ![c][b] = Content(blk)]

ReturnMap(c) ==
  LET b == call[c].id IN
  \/ /\ Receive(c, "MAP")
     /\ \/ Ack(c).type = "NACK" /\ UNCHANGED <<local, base>>
        \/ /\ Ack(c).type = "ACK" /\ Ack(c).block # NoBlock
           /\ Install(c, b, Ack(c).block, local[c][b].valid)
     /\ UNCHANGED mapped
  \/ NullBlock(c, "MAP")

ReturnUnmap(c) ==
  LET b == call[c].id IN
  /\ Receive(c, "UNMAP")
  /\ IF Ack(c).type = "NACK"
     THEN UNCHANGED <<mapped, local, base>>
     ELSE /\ mapped' = [mapped EXCEPT ![c] = @ \ {b}]
          /\ SetCopy(c, b, NoCopy(b))
          /\ base' = [base EXCEPT ![c][b] = Zero]

\* Faulty variant: the new content does not make the copy valid.
ReturnUpdateStillInvalid(c) ==
  LET b == call[c].id IN
  /\ Receive(c, "UPDATE")
  /\ IF /\ Ack(c).type = "ACK" /\ Ack(c).block # NoBlock
        /\ local[c][b].rev # Ack(c).block.rev
     THEN Install(c, b, Ack(c).block, local[c][b].valid)
     ELSE UNCHANGED <<local, base>>
  /\ UNCHANGED mapped

\* The copy is replaced, and made valid, only if the revisions differ.
ReturnUpdate(c) ==
  LET b == call[c].id IN
  \/ /\ Receive(c, "UPDATE")
     /\ \/ Ack(c).type = "NACK" /\ UNCHANGED <<local, base>>
        \/ /\ Ack(c).type = "ACK" /\ Ack(c).block # NoBlock
           /\ IF local[c][b].rev # Ack(c).block.rev
              THEN Install(c, b, Ack(c).block, TRUE)
              ELSE UNCHANGED <<local, base>>
     /\ UNCHANGED mapped
  \/ NullBlock(c, "UPDATE")

\* Faulty variant: the type of the answer is not looked at.
ReturnWriteUnchecked(c) ==
  LET b == call[c].id IN
  /\ Receive(c, "WRITE")
  /\ SetCopy(c, b, [local[c][b] EXCEPT !.rev = @ + 1])
  /\ base' = [base EXCEPT ![c][b] = local[c][b].data]
  /\ UNCHANGED mapped

ReturnWrite(c) ==
  LET b == call[c].id IN
  /\ Receive(c, "WRITE")
  /\ IF Ack(c).type = "NACK"
     THEN SetCopy(c, b, [local[c][b] EXCEPT !.valid = FALSE]) /\ UNCHANGED base
     ELSE /\ SetCopy(c, b, [local[c][b] EXCEPT !.rev = @ + 1])
          /\ base' = [base EXCEPT ![c][b] = local[c][b].data]
  /\ UNCHANGED mapped

ReturnWait(c) ==
  LET b == call[c].id IN
  /\ Receive(c, "WAIT")
  /\ IF Ack(c).type = "NACK"
     THEN UNCHANGED local
     ELSE SetCopy(c, b, [local[c][b] EXCEPT !.valid = FALSE])
  /\ UNCHANGED <<mapped, base>>

\* recv gives up after TCP_TIMEOUT seconds: the call returns -4, and whatever
\* the server answers later stays in the socket.
Timeout(c) ==
  /\ Busy(c) /\ rep[Sock(c, call[c].id)] = <<>>
  /\ call' = [call EXCEPT ![c] = Idle]
  /\ UNCHANGED <<mapped, local, gen, base, wireVars>>

Begin(c) ==
  \E b \in Blocks :
     \/ \E d \in Data : BeginMap(c, b, d) \/ Store(c, b, d)
     \/ BeginUnmap(c, b) \/ BeginUpdate(c, b)
     \/ BeginWrite(c, b) \/ BeginWait(c, b)

Return(c) ==
  \/ ReturnMap(c) \/ ReturnUnmap(c) \/ ReturnUpdate(c)
  \/ ReturnWrite(c) \/ ReturnWait(c)

ClientStep(c) == DmInit(c) \/ Exit(c) \/ Begin(c) \/ Return(c)
=============================================================================
