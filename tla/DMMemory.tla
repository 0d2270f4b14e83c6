------------------------------ MODULE DMMemory ------------------------------
(***************************************************************************)
(* DMSystem implements SharedMemory: revision numbers, replies and the     *)
(* clients' own bookkeeping amount to knowing whether a copy is fresh.  A  *)
(* call takes effect when the server handles it, so the mapping looks at a *)
(* copy as it will be once its client has read the reply that is there.    *)
(***************************************************************************)
EXTENDS DMSystem

Answered(c) == Busy(c) /\ rep[Sock(c, call[c].id)] # <<>>
Acked(c, ops, b) ==
  Answered(c) /\ call[c].op \in ops /\ call[c].id = b /\ Ack(c).type = "ACK"

HeldBlocks(c) ==
  {b \in mapped[c] \cap Hosted :
     /\ call[c] = [op |-> "MAP", id |-> b] => Answered(c)
     /\ ~Acked(c, {"UNMAP"}, b)}

\* Revision and content of the copy with the reply read.
RevSoon(c, b) ==
  CASE Acked(c, {"MAP", "UPDATE"}, b) -> Ack(c).block.rev
    [] Acked(c, {"WRITE"}, b) -> local[c][b].rev + 1
    [] OTHER -> local[c][b].rev

CopySoon(c, b) ==
  IF \/ Acked(c, {"MAP"}, b)
     \/ Acked(c, {"UPDATE"}, b) /\ Ack(c).block.rev # local[c][b].rev
  THEN Content(Ack(c).block)
  ELSE local[c][b].data

\* A call on a block its server does not have is no call on the memory.
Operation(c) ==
  LET b == call[c].id IN
  IF ~Busy(c) \/ b \notin Hosted THEN [state |-> "none"]
  ELSE [state |-> IF ~Answered(c) THEN "called"
                  ELSE IF Ack(c).type = "ACK" THEN "ok" ELSE "refused",
        name |-> call[c].op, id |-> b]

\* The WRITE a dead client left in connection k, if it can still succeed.
Orphan(k) ==
  LET m == Head(req[k]) IN
  /\ req[k] # <<>> /\ link[k] # "open"
  /\ m.type = "WRITE" /\ Found(k, m.id) /\ m.rev = blocks[m.id].rev

MemData == [b \in Hosted |-> blocks[b].data]
MemHeld == [c \in Clients |-> HeldBlocks(c)]
MemCopy == [c \in Clients |-> [b \in Hosted |->
              IF b \in HeldBlocks(c) THEN CopySoon(c, b) ELSE Zero]]
MemFresh == {f \in Clients \X Hosted :
               f[2] \in HeldBlocks(f[1]) /\ RevSoon(f[1], f[2]) = blocks[f[2]].rev}
MemOp == [c \in Clients |-> Operation(c)]
MemLeft == {[id |-> Head(req[k]).id, data |-> Content(Head(req[k]))] :
              k \in {x \in Conns : Orphan(x)}}

Memory ==
  INSTANCE SharedMemory WITH
    Blocks <- Hosted, mem <- MemData, held <- MemHeld, copy <- MemCopy,
    fresh <- MemFresh, op <- MemOp, left <- MemLeft

\* Applications see a memory in which every call takes effect at one instant,
\* a write exactly if nobody has written the block since the writer's copy was
\* synchronised: comparing revisions in the server (server.cpp) and advancing
\* them on both sides (client.cpp) amounts to that.
ImplementsMemory == Memory!Spec
=============================================================================
