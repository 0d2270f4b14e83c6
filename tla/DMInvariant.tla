---------------------------- MODULE DMInvariant ----------------------------
(***************************************************************************)
(* The inductive invariant behind the safety properties of DMSystem.       *)
(* Without time-outs a connection carries one message at a time, in one    *)
(* direction: the request of the call its client is in, or the answer to   *)
(* it.  What the answer says was true of the server's block when it was    *)
(* made, and since then the block can only have got a higher revision.     *)
(***************************************************************************)
EXTENDS DMSystem

\* The call of c runs over connection k.
Engaged(c, k) == Busy(c) /\ k = Sock(c, call[c].id)

\* rev and content of something copied from block b: not ahead of the block,
\* and the same content if the same revision.
Agrees(rev, content, b) ==
  rev <= blocks[b].rev /\ (rev = blocks[b].rev => content = blocks[b].data)

\* A connection before it is opened, while it is open, and after.
ConnOK(k) ==
  LET c == k[1] IN
  /\ k[3] > gen[c] => link[k] = "new" /\ \A b \in Blocks : k \notin mappedClients[b]
  /\ link[k] = "new" => req[k] = <<>> /\ thread[k] = "recv"
  /\ link[k] = "open" => /\ Alive(c) /\ thread[k] = "recv"
                         /\ ~Engaged(c, k) => req[k] = <<>> /\ rep[k] = <<>>
  /\ link[k] # "open" => rep[k] = <<>>
  /\ k[3] = gen[c] /\ Alive(c) => link[k] = "open"
  /\ req[k] # <<>> => Tail(req[k]) = <<>>

\* The WRITE in a connection: its writer may be dead.
WriteOK(k) ==
  LET m == Head(req[k]) IN
  req[k] # <<>> /\ m.type = "WRITE" =>
    /\ m.data # NoData
    /\ m.id \in Hosted => Agrees(m.rev, m.base, m.id)

\* The copies of a client in application code or in a call.
CopyOK(c, b) ==
  LET l == local[c][b] IN
  /\ l.id = b
  /\ Alive(c) /\ b \in Held(c) =>
       /\ Agrees(l.rev, base[c][b], b)
       /\ ~l.valid => l.rev < blocks[b].rev

\* The current connection's association: not before MAP, nor after UNMAP.
AssocOK(c, b) ==
  LET k == Sock(c, b) IN
  Alive(c) /\ k \in mappedClients[b] =>
    /\ b \in mapped[c]
    /\ call[c] = [op |-> "MAP", id |-> b] => req[k] = <<>>
    /\ call[c] = [op |-> "UNMAP", id |-> b] /\ rep[k] # <<>> => Head(rep[k]).type = "NACK"

\* The request of the call c is in.
RequestOf(c) ==
  LET b == call[c].id IN
  IF call[c].op = "WRITE" THEN WriteRequest(local[c][b], base[c][b])
  ELSE ShallowRequest(call[c].op, local[c][b])

\* The answer to it.
ReplyOK(c, r) ==
  LET b == call[c].id
      l == local[c][b] IN
  /\ call[c].op \in {"MAP", "UPDATE"} /\ r.type = "ACK" =>
       /\ r.block # NoBlock /\ r.block.id = b
       /\ b \in Hosted /\ r.block.data # NoData => Agrees(r.block.rev, r.block.data, b)
       /\ r.block.data = NoData => call[c].op = "UPDATE" /\ (b \in Hosted => r.block.rev = l.rev)
  /\ call[c].op = "MAP" /\ b \in Hosted => r.type = "ACK"
  /\ call[c].op = "WRITE" /\ b \in Hosted =>
       IF r.type = "ACK" THEN Agrees(l.rev + 1, l.data, b) ELSE l.rev < blocks[b].rev
  /\ call[c].op = "WAIT" /\ b \in Hosted /\ r.type = "ACK" => l.rev < blocks[b].rev

CallOK(c) ==
  LET b == call[c].id
      k == Sock(c, b) IN
  /\ ~Alive(c) => mapped[c] = {}
  /\ Busy(c) => /\ b \in mapped[c]
                /\ call[c].op \in {"MAP", "WRITE", "WAIT"} => local[c][b].valid
                /\ \/ /\ req[k] # <<>> /\ rep[k] = <<>>
                      /\ Head(req[k]) = RequestOf(c)
                   \/ /\ req[k] = <<>> /\ rep[k] # <<>> /\ Tail(rep[k]) = <<>>
                      /\ ReplyOK(c, Head(rep[k]))

-----------------------------------------------------------------------------
\* What TypeOK needs to be inductive, with time-outs too: a client in a call
\* has sockets, and what is being written is below the bound on revisions.
BoundedRequest == {m \in Request : m.type = "WRITE" => m.rev < MaxRev}

TypeInv ==
  /\ TypeOK
  /\ req \in [Conns -> Seq(BoundedRequest)]
  /\ \A c \in Clients :
       /\ Alive(c) => gen[c] > 0
       /\ call[c].op = "WRITE" => local[c][call[c].id].rev < MaxRev

Inductive ==
  /\ TypeInv
  /\ \A k \in Conns : ConnOK(k) /\ WriteOK(k)
  /\ \A c \in Clients :
       CallOK(c) /\ \A b \in Blocks : CopyOK(c, b) /\ AssocOK(c, b)
  /\ NoFault
=============================================================================
