----------------------------- MODULE DMRestart -----------------------------
(***************************************************************************)
(* DMSystem with servers that end and start again.  A dmserver process     *)
(* ends of SIGINT, of any other signal, or of the SIGPIPE an answer to a   *)
(* client that has gone raises (nothing ignores it).  The next process has *)
(* empty blocks at revision 0, and knows nobody.  Clients notice at their  *)
(* next call, and reach the new process by another dm_init, which keeps    *)
(* the local blocks and their revisions.                                   *)
(***************************************************************************)
EXTENDS DMSystem

F == INSTANCE Functions

CONSTANTS
  MaxCrashes,   \* bound: deaths of one server
  MaxStarts     \* bound: dm_init calls of all clients together
ASSUME MaxCrashesAssumption == MaxCrashes \in Nat /\ MaxStarts \in Nat

VARIABLES
  crashes,   \* how often each server has ended
  cut,       \* connections whose server process has ended
  crossed    \* history: <<c, b>>, mapped when the server ended, or in a MAP
             \* that broke: the copy owes nothing to the present process

faultVars == <<crashes, cut, crossed>>
restartVars == <<vars, faultVars>>

FaultTypeOK ==
  /\ crashes \in [Servers -> 0 .. MaxCrashes]
  /\ cut \subseteq Conns
  /\ crossed \subseteq Clients \X Blocks

RestartInit ==
  /\ Init
  /\ crashes = [s \in Servers |-> 0] /\ cut = {} /\ crossed = {}

\* The process ends with its threads, the requests they were handling and
\* those they had not read, and a new one starts from the configuration file.
\* Replies already sent stay readable.
Crash(s) ==
  LET gone == {k \in Conns : k[2] = s /\ link[k] # "new"} IN
  /\ crashes[s] < MaxCrashes
  /\ crashes' = [crashes EXCEPT ![s] = @ + 1]
  /\ blocks' = [b \in Blocks |-> IF Owner[b] = s THEN [rev |-> 0, data |-> Zero]
                                 ELSE blocks[b]]
  /\ mappedClients' = [b \in Blocks |-> IF Owner[b] = s THEN {} ELSE mappedClients[b]]
  /\ thread' = [k \in Conns |-> IF k \in gone THEN "done" ELSE thread[k]]
  /\ req' = [k \in Conns |-> IF k \in gone THEN <<>> ELSE req[k]]
  /\ cut' = cut \cup gone
  /\ crossed' = crossed \cup {f \in Clients \X Blocks : Owner[f[2]] = s /\ f[2] \in mapped[f[1]]}
  /\ UNCHANGED <<link, rep, clientVars>>

\* recv returns 0 or ECONNRESET: the call returns -4, and what was sent is
\* lost.  A send that raises SIGPIPE instead is an Exit of the client.
Broken(c) ==
  LET k == Sock(c, call[c].id) IN
  /\ Busy(c) /\ rep[k] = <<>> /\ k \in cut
  /\ call' = [call EXCEPT ![c] = Idle]
  /\ req' = [req EXCEPT ![k] = <<>>]
  /\ crossed' = IF call[c].op = "MAP" THEN crossed \cup {<<c, call[c].id>>} ELSE crossed
  /\ UNCHANGED <<link, rep, mapped, local, gen, base, serverVars, crashes, cut>>

\* A copy that is unmapped, by its client or with it, has left the old
\* server's revision behind.
Forget ==
  /\ crossed' = {f \in crossed : f[2] \in mapped'[f[1]]}
  /\ UNCHANGED <<crashes, cut>>

StartsBounded == F!FoldFunction(+, 0, gen') <= MaxStarts

RestartNext ==
  \/ Next /\ Forget /\ StartsBounded
  \/ \E s \in Servers : Crash(s)
  \/ \E c \in Clients : Broken(c)

RestartSpec == RestartInit /\ [][RestartNext]_restartVars

-----------------------------------------------------------------------------
RestartTypeOK == TypeOK /\ FaultTypeOK

\* A copy mapped since its server's last start is as good as in a system whose
\* servers never end: at the server's revision it has the server's content, it
\* is not ahead, and invalid means outdated.
MappedSinceCoherent ==
  \A c \in Clients : Alive(c) => \A b \in Held(c) : <<c, b>> \notin crossed =>
    /\ local[c][b].rev = blocks[b].rev => base[c][b] = blocks[b].data
    /\ local[c][b].rev <= blocks[b].rev
    /\ ~local[c][b].valid => local[c][b].rev < blocks[b].rev

\* Such a copy never overwrites a content it was not made from.
MappedSinceWritesSafe ==
  [][\A b \in Blocks, k \in Conns :
       (/\ req[k] # <<>> /\ req'[k] = Tail(req[k]) /\ crashes' = crashes
        /\ Head(req[k]).type = "WRITE" /\ Head(req[k]).id = b
        /\ link[k] = "open" /\ <<k[1], b>> \notin crossed
        /\ blocks'[b] # blocks[b])
         => Head(req[k]).base = blocks[b].data]_restartVars

\* Between its calls a client agrees with the present server process on what it
\* has mapped since that process started (server.cpp, MAP and UNMAP handlers),
\* and a process never takes an association of the one before for its own.
MappedSinceAgree ==
  \A c \in Clients : call[c] = Idle => \A b \in Hosted :
    /\ b \in mapped[c] /\ <<c, b>> \notin crossed => \E g \in 1 .. gen[c] :
         LET k == <<c, Owner[b], g>> IN
         k \in mappedClients[b] /\ link[k] = "open" /\ k \notin cut
    /\ Sock(c, b) \in mappedClients[b] => b \in mapped[c]
=============================================================================
