-------------------------- MODULE DMFaultInvariant --------------------------
(***************************************************************************)
(* What is left of DMInvariant when calls time out and servers end.  The   *)
(* parameters say who has been hit: L holds <<c, s>> if a call of c has    *)
(* given up waiting for server s, X holds <<c, b>> if c's copy of b owes   *)
(* nothing to the present process of its server, C holds the connections   *)
(* whose server process has ended.  About everybody else the invariant     *)
(* says what DMInvariant says; the requests of late or dead clients are    *)
(* not constrained, because whatever they write only raises revisions.     *)
(***************************************************************************)
EXTENDS DMInvariant

Prompt(L, c, b) == <<c, Owner[b]>> \notin L
Intact(L, X, c, b) == Prompt(L, c, b) /\ <<c, b>> \notin X

FConn(L, C, k) ==
  LET c == k[1] IN
  /\ k[3] > gen[c] => link[k] = "new" /\ \A b \in Blocks : k \notin mappedClients[b]
  /\ link[k] = "new" => req[k] = <<>> /\ rep[k] = <<>> /\ thread[k] = "recv" /\ k \notin C
  /\ link[k] = "open" => Alive(c) /\ (thread[k] = "recv" \/ k \in C)
  /\ link[k] = "open" /\ <<c, k[2]>> \notin L =>
       /\ ~Engaged(c, k) => req[k] = <<>> /\ rep[k] = <<>>
       /\ req[k] # <<>> => Tail(req[k]) = <<>>
  /\ link[k] # "open" => rep[k] = <<>>
  /\ k[3] = gen[c] /\ Alive(c) => link[k] = "open"
  /\ k \in C => thread[k] = "done"

FCopy(L, X, c, b) ==
  LET l == local[c][b] IN
  /\ Prompt(L, c, b) \/ ~Alive(c) => l.id = b
  /\ Intact(L, X, c, b) /\ Alive(c) /\ b \in Held(c) =>
       /\ Agrees(l.rev, base[c][b], b)
       /\ ~l.valid => l.rev < blocks[b].rev

FAssoc(L, c, b) == Prompt(L, c, b) => AssocOK(c, b)

\* Every answer to a MAP or an UPDATE has the block that was asked for.
FReply(X, c, r) ==
  /\ call[c].op \in {"MAP", "UPDATE"} /\ r.type = "ACK" =>
       r.block # NoBlock /\ r.block.id = call[c].id
  /\ <<c, call[c].id>> \notin X => ReplyOK(c, r)

FCall(L, X, C, c) ==
  LET b == call[c].id
      k == Sock(c, b) IN
  /\ ~Alive(c) => mapped[c] = {}
  /\ Busy(c) => /\ b \in mapped[c]
                /\ call[c].op \in {"MAP", "WRITE", "WAIT"} => local[c][b].valid
  /\ Busy(c) /\ Prompt(L, c, b) =>
       \/ req[k] # <<>> /\ rep[k] = <<>> /\ Head(req[k]) = RequestOf(c)
       \/ req[k] = <<>> /\ rep[k] # <<>> /\ Tail(rep[k]) = <<>> /\ FReply(X, c, Head(rep[k]))
       \/ req[k] = <<>> /\ rep[k] = <<>> /\ k \in C
  /\ call[c] = Fault => \E s \in Servers : <<c, s>> \in L

FInv(L, X, C) ==
  /\ TypeInv
  /\ \A k \in Conns : FConn(L, C, k)
  /\ \A c \in Clients :
       FCall(L, X, C, c) /\ \A b \in Blocks : FCopy(L, X, c, b) /\ FAssoc(L, c, b)
=============================================================================
