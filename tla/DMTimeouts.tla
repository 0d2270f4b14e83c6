----------------------------- MODULE DMTimeouts -----------------------------
(***************************************************************************)
(* DMSystem with the client's receive time-out, which ends a call that     *)
(* nobody answers.  The answer may still come, and the next call on the    *)
(* connection reads it: here is what a late answer cannot do.              *)
(***************************************************************************)
EXTENDS DMSystem

VARIABLE late   \* history: <<c, s>>, a call of c has given up waiting for s

timeoutVars == <<vars, late>>

TimeoutsInit == Init /\ late = {}

\* A new process starts with no answer under way.
OnTime ==
  /\ Next
  /\ late' = {w \in late : call'[w[1]] # Off}

TooLate(c) ==
  /\ Timeout(c) /\ UNCHANGED serverVars
  /\ late' = late \cup {<<c, Owner[call[c].id]>>}

TimeoutsNext == OnTime \/ \E c \in Clients : TooLate(c)

TimeoutsSpec == TimeoutsInit /\ [][TimeoutsNext]_timeoutVars

-----------------------------------------------------------------------------
\* A time-out confuses the client that had it, about the blocks of the server
\* that was late, and nobody else: all other copies are coherent, not ahead and
\* invalid only when outdated, and no other client reads a missing block.
ConfusionIsLocal ==
  \A c \in Clients :
    /\ Alive(c) => \A b \in Held(c) : <<c, Owner[b]>> \notin late =>
         /\ local[c][b].rev = blocks[b].rev => base[c][b] = blocks[b].data
         /\ local[c][b].rev <= blocks[b].rev
         /\ ~local[c][b].valid => local[c][b].rev < blocks[b].rev
    /\ call[c] = Fault => \E s \in Servers : <<c, s>> \in late

\* A client that was never answered too late overwrites only the content its
\* copy was made from, whatever the confused ones have written before.
OnTimeWritesSafe ==
  [][\A b \in Blocks, k \in Conns :
       (/\ req[k] # <<>> /\ req'[k] = Tail(req[k])
        /\ Head(req[k]).type = "WRITE" /\ Head(req[k]).id = b
        /\ link[k] = "open" /\ <<k[1], k[2]>> \notin late
        /\ blocks'[b] # blocks[b])
         => Head(req[k]).base = blocks[b].data]_timeoutVars
=============================================================================
