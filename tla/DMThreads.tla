----------------------------- MODULE DMThreads -----------------------------
(***************************************************************************)
(* Clients and the threads of the servers.  This system implements         *)
(* DMSystem: a request takes effect in one step, inside the critical       *)
(* section of its thread.                                                  *)
(***************************************************************************)
EXTENDS Client, ServerThreads

vars == <<wireVars, threadVars, clientVars>>

Init == WireInit /\ ThreadsInit /\ ClientInit

Next ==
  \/ \E c \in Clients : ClientStep(c) /\ UNCHANGED threadVars
  \/ \E k \in Conns : ThreadStep(k) /\ UNCHANGED clientVars

Spec == Init /\ [][Next]_vars

\* Threads are scheduled, the mutex starves nobody, and a client reads the
\* reply that is there.  Nothing makes a spurious wake-up happen.
Fairness ==
  /\ \A k \in Conns : /\ WF_vars(Proceed(k) /\ UNCHANGED clientVars)
                      /\ SF_vars(Lock(k) /\ UNCHANGED clientVars)
  /\ \A c \in Clients : WF_vars(Return(c) /\ UNCHANGED threadVars)

FairSpec == Spec /\ Fairness

-----------------------------------------------------------------------------
\* A request that has been handled is answered, as far as DMSystem can see:
\* the answer is on its way, unless the client is gone.
Handled(k) == pc[k] \in {"cast", "unlock", "send"}

SysReq == [k \in Conns |-> IF Handled(k) THEN Tail(req[k]) ELSE req[k]]
SysRep == [k \in Conns |-> IF Handled(k) /\ link[k] = "open"
                           THEN Append(rep[k], ack[k]) ELSE rep[k]]
SysThread == [k \in Conns |-> IF pc[k] = "done" THEN "done" ELSE "recv"]

System ==
  INSTANCE DMSystem WITH req <- SysReq, rep <- SysRep, thread <- SysThread

\* The threads, their mutex and their critical sections behave as the atomic
\* handlers of DMSystem do.
ImplementsSystem == System!Spec

\* The same for what has to happen: a wait returns after a write.
WaitReturns == System!WaitReturns

\* No wake-up is lost: a thread sleeps only while its block has the revision
\* it was told, or while the writer that changed it still holds the mutex and
\* has not broadcast.
NoLostWakeup ==
  \A k \in Conns : pc[k] = "asleep" =>
    LET m == Head(req[k]) IN
    \/ blocks[m.id].rev = m.rev
    \/ LET w == mutex[k[2]] IN
         w # NoThread /\ pc[w] = "cast" /\ Head(req[w]).id = m.id
=============================================================================
