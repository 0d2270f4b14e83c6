---------------------------- MODULE SharedMemory ----------------------------
(***************************************************************************)
(* What the distributed memory promises its applications, without          *)
(* revisions, messages or servers.  A client works on copies of its own; a *)
(* copy is fresh while nobody else has written the block since the copy    *)
(* was last synchronised.  Each call takes effect in one step between its  *)
(* beginning and its return: a write happens if the copy is fresh and is   *)
(* refused otherwise, an update makes the copy fresh, a wait is over when  *)
(* the copy is no longer fresh.                                            *)
(***************************************************************************)
CONSTANTS Clients, Blocks, Data, Zero

VARIABLES
  mem,     \* the content of each block
  held,    \* the blocks each client has mapped
  copy,    \* the client's copies; Zero for a block it does not hold
  fresh,   \* <<c, b>>: nobody has written b behind the back of c's copy
  op,      \* the call each client is in, and its result once it took effect
  left     \* writes of clients that ended before theirs took effect

vars == <<mem, held, copy, fresh, op, left>>

Names == {"MAP", "UNMAP", "UPDATE", "WRITE", "WAIT"}
NoOp == [state |-> "none"]
Called(name, b) == [state |-> "called", name |-> name, id |-> b]
Over(name, b, result) == [state |-> result, name |-> name, id |-> b]

Init ==
  /\ mem = [b \in Blocks |-> Zero]
  /\ held = [c \in Clients |-> {}]
  /\ copy = [c \in Clients |-> [b \in Blocks |-> Zero]]
  /\ fresh = {}
  /\ op = [c \in Clients |-> NoOp]
  /\ left = {}

\* The application stores into its copy.
Store(c, b, d) ==
  /\ op[c] = NoOp /\ b \in held[c]
  /\ copy' = [copy EXCEPT ![c][b] = d]
  /\ UNCHANGED <<mem, held, fresh, op, left>>

Begin(c, name, b) ==
  /\ op[c] = NoOp
  /\ name = "MAP" <=> b \notin held[c]
  /\ op' = [op EXCEPT ![c] = Called(name, b)]
  /\ UNCHANGED <<mem, held, copy, fresh, left>>

Finish(c, name, b, result) ==
  /\ op[c] = Called(name, b)
  /\ op' = [op EXCEPT ![c] = Over(name, b, result)]

Map(c, b) ==
  /\ Finish(c, "MAP", b, "ok")
  /\ held' = [held EXCEPT ![c] = @ \cup {b}]
  /\ copy' = [copy EXCEPT ![c][b] = mem[b]]
  /\ fresh' = fresh \cup {<<c, b>>}
  /\ UNCHANGED <<mem, left>>

\* Refused to a client that has connected again since it mapped the block.
Unmap(c, b) ==
  \/ /\ Finish(c, "UNMAP", b, "ok")
     /\ held' = [held EXCEPT ![c] = @ \ {b}]
     /\ copy' = [copy EXCEPT ![c][b] = Zero]
     /\ fresh' = fresh \ {<<c, b>>}
     /\ UNCHANGED <<mem, left>>
  \/ /\ Finish(c, "UNMAP", b, "refused")
     /\ UNCHANGED <<mem, held, copy, fresh, left>>

\* What the application stored into a fresh copy stays there.
Update(c, b) ==
  /\ Finish(c, "UPDATE", b, "ok")
  /\ copy' = IF <<c, b>> \in fresh THEN copy ELSE [copy EXCEPT ![c][b] = mem[b]]
  /\ fresh' = fresh \cup {<<c, b>>}
  /\ UNCHANGED <<mem, held, left>>

\* Block b gets content d; only the copies in S stay fresh.
Overwrite(b, d, S) ==
  /\ mem' = [mem EXCEPT ![b] = d]
  /\ fresh' = {f \in fresh : f[2] # b} \cup S
  /\ left' = {w \in left : w.id # b}
  /\ UNCHANGED <<held, copy>>

Write(c, b) ==
  \/ /\ <<c, b>> \in fresh
     /\ Finish(c, "WRITE", b, "ok")
     /\ Overwrite(b, copy[c][b], {<<c, b>>})
  \/ /\ <<c, b>> \notin fresh
     /\ Finish(c, "WRITE", b, "refused")
     /\ UNCHANGED <<mem, held, copy, fresh, left>>

Wait(c, b) ==
  /\ <<c, b>> \notin fresh
  /\ Finish(c, "WAIT", b, "ok")
  /\ UNCHANGED <<mem, held, copy, fresh, left>>

Return(c) ==
  /\ op[c].state \in {"ok", "refused"}
  /\ op' = [op EXCEPT ![c] = NoOp]
  /\ UNCHANGED <<mem, held, copy, fresh, left>>

\* The client ends.  A write it was in may still take effect, once, as long
\* as the copy it was made from would be fresh.
Quit(c) ==
  /\ held' = [held EXCEPT ![c] = {}]
  /\ copy' = [copy EXCEPT ![c] = [b \in Blocks |-> Zero]]
  /\ fresh' = {f \in fresh : f[1] # c}
  /\ op' = [op EXCEPT ![c] = NoOp]
  /\ left' = left \cup {[id |-> b, data |-> copy[c][b]] :
                          b \in {x \in Blocks : /\ op[c] = Called("WRITE", x)
                                                /\ <<c, x>> \in fresh}}
  /\ UNCHANGED mem

LateWrite(w) == w \in left /\ Overwrite(w.id, w.data, {}) /\ UNCHANGED op

Step(c, b) ==
  \/ \E d \in Data : Store(c, b, d)
  \/ \E name \in Names : Begin(c, name, b)
  \/ Map(c, b) \/ Unmap(c, b) \/ Update(c, b) \/ Write(c, b) \/ Wait(c, b)

Next ==
  \/ \E c \in Clients : Return(c) \/ Quit(c) \/ \E b \in Blocks : Step(c, b)
  \/ \E w \in left : LateWrite(w)

Spec == Init /\ [][Next]_vars
=============================================================================
