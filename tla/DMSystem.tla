------------------------------ MODULE DMSystem ------------------------------
(***************************************************************************)
(* The distributed memory: clients and servers joined by their             *)
(* connections.  Spec has no time-outs: every reply reaches its call.      *)
(* TimedSpec adds the client's 20 second receive time-out.                 *)
(***************************************************************************)
EXTENDS Client, Server

vars == <<wireVars, serverVars, clientVars>>

Init == WireInit /\ ServerInit /\ ClientInit

Next ==
  \/ \E c \in Clients : ClientStep(c) /\ UNCHANGED serverVars
  \/ \E k \in Conns : ServerStep(k) /\ UNCHANGED clientVars

TimedNext ==
  \/ Next
  \/ \E c \in Clients : Timeout(c) /\ UNCHANGED serverVars

Spec == Init /\ [][Next]_vars
TimedSpec == Init /\ [][TimedNext]_vars

-----------------------------------------------------------------------------
\* Every variable stays in its set.
TypeOK == WireTypeOK /\ ServerTypeOK /\ ClientTypeOK

\* The copies a client may use: blocks it has mapped, once the MAP is over.
Held(c) == {b \in mapped[c] \cap Hosted : call[c] # [op |-> "MAP", id |-> b]}

\* A local copy with the server's revision derives from the server's content:
\* two versions of a block never share a revision number (client.cpp compares
\* nothing else, and neither does the server's WRITE handler).
Coherent ==
  \A c \in Clients : Alive(c) => \A b \in Held(c) :
    local[c][b].rev = blocks[b].rev => base[c][b] = blocks[b].data

\* No copy is ahead of the server: a dm_block_write that returned 0 wrote.
NeverAhead ==
  \A c \in Clients : Alive(c) => \A b \in Held(c) :
    local[c][b].rev <= blocks[b].rev

\* A copy marked invalid is outdated, so that dm_block_update, which looks at
\* the revisions only, replaces it and makes it valid again.
InvalidIsOutdated ==
  \A c \in Clients : Alive(c) => \A b \in Held(c) :
    ~local[c][b].valid => local[c][b].rev < blocks[b].rev

\* No call reads the block of a reply that has none.
NoFault == \A c \in Clients : call[c] # Fault

\* Between its calls, a client and the server agree on what is mapped: of the
\* blocks it has, the server has stored every association the client has, under
\* an open connection the client made by one of its dm_init calls, and under the
\* current connection it has no other.
AssociationsAgree ==
  \A c \in Clients : call[c] = Idle => \A b \in Hosted :
    /\ b \in mapped[c] => \E g \in 1 .. gen[c] :
         LET k == <<c, Owner[b], g>> IN k \in mappedClients[b] /\ link[k] = "open"
    /\ Sock(c, b) \in mappedClients[b] => b \in mapped[c]

\* A step changes a block only by a WRITE made from the content it replaces:
\* an outdated copy is never copied over the global one.
NoLostUpdate ==
  [][\A b \in Blocks : blocks'[b] # blocks[b] =>
       \E k \in Conns : /\ req[k] # <<>> /\ req'[k] = Tail(req[k])
                        /\ Head(req[k]).type = "WRITE" /\ Head(req[k]).id = b
                        /\ Head(req[k]).base = blocks[b].data]_vars

\* The server refuses only writes that dm_block_write has not reported done:
\* an outdated copy is not synchronised, and the call returns (client.h).
RefusedIsReported ==
  [][\A k \in Conns :
       LET m == Head(req[k]) IN
       (/\ req[k] # <<>> /\ m.type = "WRITE" /\ link[k] = "open"
        /\ req'[k] = Tail(req[k]) /\ blocks' = blocks)
         => local[k[1]][m.id].rev <= m.rev]_vars

\* dm_block_wait returns once the block it waits for has been written.
WaitReturns ==
  \A c \in Clients, b \in Hosted :
    (call[c] = [op |-> "WAIT", id |-> b] /\ local[c][b].rev # blocks[b].rev)
      ~> call[c] # [op |-> "WAIT", id |-> b]
=============================================================================
