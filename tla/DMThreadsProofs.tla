-------------------------- MODULE DMThreadsProofs --------------------------
(***************************************************************************)
(* No wake-up of pthread_cond_wait is lost, whatever the clients do and    *)
(* however many there are.  The invariant says who holds the mutex, that a *)
(* thread keeps the message it handles at the head of its connection, and  *)
(* that a sleeping thread waits for a block of its own server: only a      *)
(* thread that holds the mutex the sleeper will need can write it.  With   *)
(* what a connection carries, one message at most and that of the call its *)
(* client is in, every step of DMThreads is a step of DMSystem or leaves   *)
(* what DMSystem sees as it was.  So the theorems on DMSystem hold of the  *)
(* threads, and the threads implement SharedMemory.                        *)
(***************************************************************************)
EXTENDS DMThreads, TLAPS

Places == {"recv", "lock", "crit", "cast", "asleep", "woken", "unlock", "send", "done"}

ThreadsType ==
  /\ pc \in [Conns -> Places]
  /\ mutex \in [Servers -> Conns \cup {NoThread}]
  /\ \E S : req \in [Conns -> Seq(S)]

InHand == \A k \in Conns : pc[k] \notin {"recv", "done"} => req[k] # <<>>

Exclusive ==
  /\ \A k \in Conns : pc[k] \in {"crit", "cast", "unlock"} => mutex[k[2]] = k
  /\ \A s \in Servers : mutex[s] # NoThread => mutex[s][2] = s

\* The writer that holds k's mutex is about to broadcast to k.
ToBeWoken(k) ==
  LET w == mutex[k[2]] IN
  w # NoThread /\ pc[w] = "cast" /\ Head(req[w]).id = Head(req[k]).id

Waiting(k) ==
  LET m == Head(req[k]) IN
  Found(k, m.id) /\ (blocks[m.id].rev = m.rev \/ ToBeWoken(k))

ThreadsInv == ThreadsType /\ InHand /\ Exclusive /\ \A k \in Conns : pc[k] = "asleep" => Waiting(k)

-----------------------------------------------------------------------------
LEMMA ConnFacts ==
  ASSUME NEW k \in Conns
  PROVE  k[2] \in Servers /\ k # NoThread
  BY DEF Conns, NoThread

\* A client's step only adds requests behind those that are there.
LEMMA ClientAppends ==
  ASSUME ThreadsType, NEW c \in Clients, ClientStep(c)
  PROVE  /\ \E S : req' \in [Conns -> Seq(S)]
         /\ \A k \in Conns : req[k] # <<>> => req'[k] # <<>> /\ Head(req'[k]) = Head(req[k])
  <1>1. CASE req' = req
    BY <1>1 DEF ThreadsType
  <1>2. CASE \E op, b, m : Send(c, op, b, m)
    <2>1. PICK b, m : req' = [req EXCEPT ![Sock(c, b)] = Append(@, m)]
      BY <1>2 DEF Send
    <2>2. PICK S : req \in [Conns -> Seq(S)]
      BY DEF ThreadsType
    <2>. DEFINE T == S \cup {m}
    <2>3. \A s \in Seq(S) : /\ s \in Seq(T) /\ Append(s, m) \in Seq(T)
                            /\ s # <<>> => Append(s, m) # <<>> /\ Head(Append(s, m)) = Head(s)
      <3>1. \A s \in Seq(S) : s \in Seq(T)
        OBVIOUS
      <3>2. m \in T
        OBVIOUS
      <3>. HIDE DEF T
      <3>. QED BY <3>1, <3>2
    <2>4. \A k \in Conns : req'[k] = req[k] \/ req'[k] = Append(req[k], m)
      BY <2>1, <2>2
    <2>5. req' \in [Conns -> Seq(T)]
      BY <2>1, <2>2, <2>3
    <2>. QED BY <2>2, <2>3, <2>4, <2>5
  <1>. QED BY <1>1, <1>2
       DEF ClientStep, DmInit, Exit, Begin, BeginMap, Store, BeginUnmap, BeginUpdate, BeginWrite,
           BeginWait, Return, ReturnMap, ReturnUnmap, ReturnUpdate, ReturnWrite, ReturnWait,
           Receive, NullBlock, wireVars

LEMMA ClientKeeps ==
  ASSUME ThreadsInv, NEW c \in Clients, ClientStep(c), UNCHANGED threadVars
  PROVE  ThreadsInv'
  <1>1. /\ \E S : req' \in [Conns -> Seq(S)]
        /\ \A k \in Conns : req[k] # <<>> => req'[k] # <<>> /\ Head(req'[k]) = Head(req[k])
    BY ClientAppends DEF ThreadsInv
  <1>2. pc' = pc /\ mutex' = mutex /\ blocks' = blocks
    BY DEF threadVars
  <1>3. ThreadsType' /\ InHand' /\ Exclusive'
    BY <1>1, <1>2 DEF ThreadsInv, ThreadsType, InHand, Exclusive
  <1>4. ASSUME NEW k \in Conns, pc[k] = "asleep" PROVE Waiting(k)'
    <2>1. Waiting(k) /\ Head(req'[k]) = Head(req[k])
      BY <1>1, <1>4 DEF ThreadsInv, InHand
    <2>2. ToBeWoken(k) => ToBeWoken(k)'
      <3>. SUFFICES ASSUME ToBeWoken(k) PROVE ToBeWoken(k)'
        OBVIOUS
      <3>1. mutex[k[2]] \in Conns
        BY ConnFacts DEF ToBeWoken, ThreadsInv, ThreadsType
      <3>2. Head(req'[mutex[k[2]]]) = Head(req[mutex[k[2]]])
        BY <1>1, <3>1 DEF ToBeWoken, ThreadsInv, InHand
      <3>. QED BY <1>2, <2>1, <3>2 DEF ToBeWoken
    <2>. QED BY <1>2, <2>1, <2>2 DEF Waiting, Found
  <1>. QED BY <1>2, <1>3, <1>4 DEF ThreadsInv

-----------------------------------------------------------------------------
(* The steps of a thread. *)

\* A step that changes no block, no mutex and no message, and in which no
\* thread falls asleep nor moves from where it is about to broadcast.
LEMMA QuietStep ==
  ASSUME ThreadsInv, NEW k \in Conns, NEW from \in Places, NEW to \in Places, Goto(k, from, to),
         blocks' = blocks, mutex' = mutex, req' = req,
         from # "cast", to # "asleep", from \in {"recv", "done"} => req[k] # <<>> \/ to = "done",
         to \in {"crit", "cast", "unlock"} => from = "crit"
  PROVE  ThreadsInv'
  <1>1. pc' = [pc EXCEPT ![k] = to] /\ pc[k] = from
    BY DEF Goto
  <1>2. ThreadsType'
    BY <1>1 DEF ThreadsInv, ThreadsType
  <1>3. InHand' /\ Exclusive'
    BY <1>1 DEF ThreadsInv, ThreadsType, InHand, Exclusive
  <1>4. ASSUME NEW w \in Conns, pc'[w] = "asleep" PROVE Waiting(w)'
    <2>1. pc[w] = "asleep"
      BY <1>1, <1>4 DEF ThreadsInv, ThreadsType
    <2>2. \A x : x # NoThread /\ mutex[w[2]] = x /\ pc[x] = "cast" => pc'[x] = "cast"
      BY <1>1, ConnFacts DEF ThreadsInv, ThreadsType
    <2>. QED BY <2>1, <2>2 DEF ThreadsInv, Waiting, ToBeWoken, Found
  <1>. QED BY <1>2, <1>3, <1>4 DEF ThreadsInv

LEMMA LockKeeps ==
  ASSUME ThreadsInv, NEW k \in Conns, Lock(k)
  PROVE  ThreadsInv'
  <1>1. /\ mutex[k[2]] = NoThread /\ mutex' = [mutex EXCEPT ![k[2]] = k]
        /\ pc[k] \in {"lock", "woken"} /\ pc' = [pc EXCEPT ![k] = "crit"]
        /\ blocks' = blocks /\ req' = req
    BY DEF Lock, Goto, wireVars
  <1>2. k[2] \in Servers /\ k # NoThread
    BY ConnFacts
  <1>3. ThreadsType' /\ InHand'
    BY <1>1, <1>2 DEF ThreadsInv, ThreadsType, InHand, Places
  <1>4. Exclusive'
    BY <1>1, <1>2, ConnFacts DEF ThreadsInv, ThreadsType, Exclusive
  <1>5. ASSUME NEW w \in Conns, pc'[w] = "asleep" PROVE Waiting(w)'
    <2>1. pc[w] = "asleep" /\ Waiting(w)
      BY <1>1, <1>5 DEF ThreadsInv, ThreadsType
    <2>2. CASE w[2] = k[2]
      BY <1>1, <2>1, <2>2 DEF Waiting, ToBeWoken, Found
    <2>3. CASE w[2] # k[2]
      <3>1. mutex'[w[2]] = mutex[w[2]]
        BY <1>1, <2>3 DEF ThreadsInv, ThreadsType
      <3>2. pc[mutex[w[2]]] = "cast" => pc'[mutex[w[2]]] = "cast"
        BY <1>1 DEF ThreadsInv, ThreadsType
      <3>. QED BY <1>1, <2>1, <3>1, <3>2 DEF Waiting, ToBeWoken, Found
    <2>. QED BY <2>2, <2>3
  <1>. QED BY <1>3, <1>4, <1>5 DEF ThreadsInv

\* The mutex is released by a thread that has nothing to broadcast.
LEMMA ReleaseKeeps ==
  ASSUME ThreadsInv, NEW k \in Conns, NEW from \in {"crit", "unlock"}, NEW to \in {"asleep", "send"},
         Goto(k, from, to), mutex' = [mutex EXCEPT ![k[2]] = NoThread],
         blocks' = blocks, req' = req,
         to = "asleep" => LET m == Head(req[k]) IN Found(k, m.id) /\ blocks[m.id].rev = m.rev
  PROVE  ThreadsInv'
  <1>1. pc[k] = from /\ pc' = [pc EXCEPT ![k] = to] /\ mutex[k[2]] = k /\ k[2] \in Servers
    BY ConnFacts DEF Goto, ThreadsInv, Exclusive
  <1>2. ThreadsType' /\ InHand'
    BY <1>1 DEF ThreadsInv, ThreadsType, InHand, Places
  <1>3. Exclusive'
    BY <1>1, ConnFacts DEF ThreadsInv, ThreadsType, Exclusive
  <1>4. ASSUME NEW w \in Conns, pc'[w] = "asleep" PROVE Waiting(w)'
    <2>1. CASE w = k
      BY <1>1, <1>4, <2>1 DEF Waiting, Found, ThreadsInv, ThreadsType
    <2>2. CASE w # k
      <3>1. pc[w] = "asleep" /\ Waiting(w)
        BY <1>1, <1>4, <2>2 DEF ThreadsInv, ThreadsType
      <3>2. CASE w[2] = k[2]
        BY <1>1, <3>1, <3>2 DEF Waiting, ToBeWoken, Found
      <3>3. CASE w[2] # k[2]
        <4>1. mutex'[w[2]] = mutex[w[2]]
          BY <1>1, <3>3 DEF ThreadsInv, ThreadsType
        <4>2. pc[mutex[w[2]]] = "cast" => pc'[mutex[w[2]]] = "cast"
          BY <1>1 DEF ThreadsInv, ThreadsType
        <4>. QED BY <3>1, <4>1, <4>2 DEF Waiting, ToBeWoken, Found
      <3>. QED BY <3>2, <3>3
    <2>. QED BY <2>1, <2>2
  <1>. QED BY <1>2, <1>3, <1>4 DEF ThreadsInv

\* Whoever sleeps on the block that is written has the writer's mutex to wait for.
LEMMA WriteKeeps ==
  ASSUME ThreadsInv, NEW k \in Conns, CritWrite(k)
  PROVE  ThreadsInv'
  <1>. DEFINE m == Head(req[k])
  <1>1. /\ pc[k] = "crit" /\ pc' = [pc EXCEPT ![k] = "cast"] /\ mutex' = mutex /\ req' = req
        /\ mutex[k[2]] = k /\ k # NoThread
    BY ConnFacts DEF CritWrite, Handling, Goto, wireVars, ThreadsInv, Exclusive
  <1>2. \A b \in Blocks : blocks'[b] = blocks[b] \/ (b = m.id /\ Found(k, m.id))
    BY DEF CritWrite
  <1>3. ThreadsType' /\ InHand' /\ Exclusive'
    BY <1>1 DEF ThreadsInv, ThreadsType, InHand, Exclusive, Places
  <1>4. ASSUME NEW w \in Conns, pc'[w] = "asleep" PROVE Waiting(w)'
    <2>1. pc[w] = "asleep" /\ Waiting(w)
      BY <1>1, <1>4 DEF ThreadsInv, ThreadsType
    <2>2. Head(req[w]).id \in Blocks /\ Owner[Head(req[w]).id] = w[2]
      BY <2>1, WireAssumption DEF Waiting, Found
    <2>3. CASE blocks'[Head(req[w]).id] = blocks[Head(req[w]).id]
      <3>1. pc[mutex[w[2]]] = "cast" => pc'[mutex[w[2]]] = "cast"
        BY <1>1 DEF ThreadsInv, ThreadsType
      <3>. QED BY <1>1, <2>1, <2>3, <3>1 DEF Waiting, ToBeWoken, Found
    <2>4. CASE Head(req[w]).id = m.id /\ Found(k, m.id)
      <3>1. mutex'[w[2]] = k /\ pc'[k] = "cast"
        BY <1>1, <2>2, <2>4 DEF Found, ThreadsInv, ThreadsType
      <3>. QED BY <1>1, <2>1, <2>4, <3>1 DEF Waiting, ToBeWoken, Found
    <2>. QED BY <1>2, <2>2, <2>3, <2>4
  <1>. QED BY <1>3, <1>4 DEF ThreadsInv

LEMMA BroadcastKeeps ==
  ASSUME ThreadsInv, NEW k \in Conns, Broadcast(k)
  PROVE  ThreadsInv'
  <1>. DEFINE asleep == Asleep(k, Head(req[k]).id)
  <1>1. /\ pc[k] = "cast" /\ mutex' = mutex /\ req' = req /\ blocks' = blocks
        /\ pc' = [w \in Conns |-> IF w = k THEN "unlock"
                                  ELSE IF w \in asleep THEN "woken" ELSE pc[w]]
        /\ mutex[k[2]] = k
    BY DEF Broadcast, wireVars, ThreadsInv, Exclusive
  <1>2. \A w \in asleep : pc[w] = "asleep"
    BY DEF Asleep
  <1>3. ThreadsType'
    BY <1>1 DEF ThreadsInv, ThreadsType, Places
  <1>4. InHand' /\ Exclusive'
    BY <1>1, <1>2 DEF ThreadsInv, InHand, Exclusive
  <1>5. ASSUME NEW w \in Conns, pc'[w] = "asleep" PROVE Waiting(w)'
    <2>1. pc[w] = "asleep" /\ w # k /\ w \notin asleep /\ Waiting(w)
      BY <1>1, <1>5 DEF ThreadsInv
    <2>2. CASE ToBeWoken(w)
      <3>. DEFINE x == mutex[w[2]]
      <3>1. x \in Conns /\ pc[x] = "cast" /\ Head(req[x]).id = Head(req[w]).id
        BY <2>2, ConnFacts DEF ToBeWoken, ThreadsInv, ThreadsType
      <3>2. w[2] = k[2] => x = k
        BY <1>1
      <3>3. w[2] # k[2]
        BY <2>1, <3>1, <3>2 DEF Asleep
      <3>4. x # k
        <4>1. x[2] = w[2]
          BY <2>2, ConnFacts DEF ToBeWoken, ThreadsInv, Exclusive
        <4>. QED BY <3>3, <4>1
      <3>. QED BY <1>1, <1>2, <2>1, <3>1, <3>4 DEF Waiting, ToBeWoken, Found
    <2>3. CASE ~ToBeWoken(w)
      BY <1>1, <2>1, <2>3 DEF Waiting, Found
    <2>. QED BY <2>2, <2>3
  <1>. QED BY <1>3, <1>4, <1>5 DEF ThreadsInv

LEMMA SendKeeps ==
  ASSUME ThreadsInv, NEW k \in Conns, SendAck(k)
  PROVE  ThreadsInv'
  <1>1. /\ pc[k] = "send" /\ mutex' = mutex /\ blocks' = blocks
        /\ req' = [req EXCEPT ![k] = Tail(@)] /\ req[k] # <<>>
    BY DEF SendAck, Goto, ThreadsInv, InHand
  <1>2. PICK to \in {"recv", "done"} : pc' = [pc EXCEPT ![k] = to]
    BY DEF SendAck, Goto
  <1>3. PICK S : req \in [Conns -> Seq(S)]
    BY DEF ThreadsInv, ThreadsType
  <1>4. Tail(req[k]) \in Seq(S)
    BY <1>1, <1>3
  <1>5. ThreadsType' /\ InHand' /\ Exclusive'
    <2>1. req' \in [Conns -> Seq(S)]
      BY <1>1, <1>3, <1>4
    <2>. QED BY <1>1, <1>2, <1>3, <2>1 DEF ThreadsInv, ThreadsType, InHand, Exclusive, Places
  <1>6. ASSUME NEW w \in Conns, pc'[w] = "asleep" PROVE Waiting(w)'
    <2>1. pc[w] = "asleep" /\ w # k /\ Waiting(w) /\ req'[w] = req[w]
      BY <1>1, <1>2, <1>3, <1>6 DEF ThreadsInv, ThreadsType
    <2>2. CASE ToBeWoken(w)
      <3>. DEFINE x == mutex[w[2]]
      <3>1. x \in Conns /\ pc[x] = "cast" /\ x # k
        BY <1>1, <2>2, ConnFacts DEF ToBeWoken, ThreadsInv, ThreadsType
      <3>2. pc'[x] = "cast" /\ req'[x] = req[x]
        BY <1>1, <1>2, <1>3, <3>1 DEF ThreadsInv, ThreadsType
      <3>. QED BY <1>1, <2>1, <2>2, <3>2 DEF Waiting, ToBeWoken, Found
    <2>3. CASE ~ToBeWoken(w)
      BY <1>1, <2>1, <2>3 DEF Waiting, Found
    <2>. QED BY <2>2, <2>3
  <1>. QED BY <1>5, <1>6 DEF ThreadsInv

LEMMA ThreadKeeps ==
  ASSUME ThreadsInv, NEW k \in Conns, ThreadStep(k)
  PROVE  ThreadsInv'
  <1>1. CASE Lock(k) BY <1>1, LockKeeps
  <1>2. CASE SpuriousWakeup(k)
    BY <1>2, QuietStep DEF SpuriousWakeup, wireVars, Places
  <1>3. CASE Recv(k) \/ RecvEnd(k)
    BY <1>3, QuietStep DEF Recv, RecvEnd, wireVars, Places
  <1>4. CASE CritMap(k) \/ CritUnmap(k) \/ CritUpdate(k)
    BY <1>4, QuietStep DEF CritMap, CritUnmap, CritUpdate, Handling, wireVars, Places
  <1>5. CASE CritWrite(k) BY <1>5, WriteKeeps
  <1>6. CASE CritWait(k)
    <2>1. CASE Goto(k, "crit", "unlock") /\ UNCHANGED <<blocks, mutex, req>>
      BY <2>1, QuietStep DEF Places
    <2>2. CASE /\ Goto(k, "crit", "asleep") /\ UNCHANGED <<blocks, req>>
               /\ mutex' = [mutex EXCEPT ![k[2]] = NoThread]
               /\ LET m == Head(req[k]) IN Found(k, m.id) /\ blocks[m.id].rev = m.rev
      BY <2>2, ReleaseKeeps
    <2>. QED BY <1>6, <2>1, <2>2 DEF CritWait, Handling, wireVars
  <1>7. CASE Broadcast(k) BY <1>7, BroadcastKeeps
  <1>8. CASE Unlock(k)
    BY <1>8, ReleaseKeeps DEF Unlock, wireVars
  <1>9. CASE SendAck(k) BY <1>9, SendKeeps
  <1>. QED BY <1>1, <1>2, <1>3, <1>4, <1>5, <1>6, <1>7, <1>8, <1>9
       DEF ThreadStep, Proceed, Critical

-----------------------------------------------------------------------------
LEMMA ThreadsInvInit == Init => ThreadsInv
  <1>. SUFFICES ASSUME Init PROVE ThreadsInv
    OBVIOUS
  <1>1. /\ pc = [k \in Conns |-> "recv"] /\ mutex = [s \in Servers |-> NoThread]
        /\ req = [k \in Conns |-> <<>>]
    BY DEF Init, ThreadsInit, WireInit
  <1>2. req \in [Conns -> Seq({})]
    BY <1>1
  <1>. QED BY <1>1, <1>2, ConnFacts DEF ThreadsInv, ThreadsType, InHand, Exclusive, Places

LEMMA ThreadsInvStep == ThreadsInv /\ [Next]_vars => ThreadsInv'
  <1>. SUFFICES ASSUME ThreadsInv, [Next]_vars PROVE ThreadsInv'
    OBVIOUS
  <1>1. CASE \E c \in Clients : ClientStep(c) /\ UNCHANGED threadVars
    BY <1>1, ClientKeeps
  <1>2. CASE \E k \in Conns : ThreadStep(k)
    BY <1>2, ThreadKeeps
  <1>3. CASE UNCHANGED vars
    BY <1>3 DEF vars, wireVars, threadVars, ThreadsInv, ThreadsType, InHand, Exclusive, Waiting,
                ToBeWoken, Found
  <1>. QED BY <1>1, <1>2, <1>3 DEF Next

\* The mutex of a server is a mutex: one thread at a time is between
\* pthread_mutex_lock and pthread_mutex_unlock, out of pthread_cond_wait.
THEOREM MutualExclusion ==
  Spec => [](\A j, k \in Conns :
               /\ pc[j] \in {"crit", "cast", "unlock"} /\ pc[k] \in {"crit", "cast", "unlock"}
               /\ j[2] = k[2]
               => j = k)
  <1>1. ThreadsInv => \A j, k \in Conns :
               /\ pc[j] \in {"crit", "cast", "unlock"} /\ pc[k] \in {"crit", "cast", "unlock"}
               /\ j[2] = k[2]
               => j = k
    BY DEF ThreadsInv, Exclusive
  <1>. QED BY <1>1, ThreadsInvInit, ThreadsInvStep, PTL DEF Spec

\* A thread sleeps in pthread_cond_wait only while its block has the revision
\* it was told, or its writer is about to broadcast: no wake-up is lost.
THEOREM WakeupsNotLost == Spec => []NoLostWakeup
  <1>1. ThreadsInv => NoLostWakeup
    BY DEF ThreadsInv, NoLostWakeup, Waiting, ToBeWoken
  <1>. QED BY <1>1, ThreadsInvInit, ThreadsInvStep, PTL DEF Spec
-----------------------------------------------------------------------------
(* The threads implement the atomic handlers. *)

CallsOK ==
  /\ call \in [Clients -> [op : Calls, id : Blocks] \cup {Off, Idle, Fault}]
  /\ gen \in [Clients -> Nat]
  /\ \A c \in Clients : Alive(c) => gen[c] \in 1 .. MaxInits

Functions ==
  /\ link \in [Conns -> {"new", "open", "closed"}]
  /\ \E S : rep \in [Conns -> Seq(S)]
  /\ ack = [k \in Conns |-> ack[k]]
  /\ blocks = [b \in Blocks |-> blocks[b]]
  /\ mappedClients = [b \in Blocks |-> mappedClients[b]]

Empty(k) == req[k] = <<>> /\ rep[k] = <<>>

\* What connection k carries.
Carries(k) ==
  /\ link[k] = "new" <=> gen[k[1]] < k[3]
  /\ link[k] = "new" => req[k] = <<>>
  /\ link[k] # "open" => rep[k] = <<>>
  /\ link[k] # "open" => ~(Alive(k[1]) /\ k[3] = gen[k[1]])
  /\ req[k] = <<>> \/ (Tail(req[k]) = <<>> /\ rep[k] = <<>>)
  /\ rep[k] = <<>> \/ Tail(rep[k]) = <<>>
  /\ link[k] = "open" /\ ~Empty(k) =>
       Busy(k[1]) /\ k = Sock(k[1], call[k[1]].id)

SimInv == ThreadsInv /\ CallsOK /\ Functions /\ \A k \in Conns : Carries(k)

-----------------------------------------------------------------------------
LEMMA CallFacts ==
  ASSUME CallsOK, NEW c \in Clients
  PROVE  /\ Busy(c) => call[c].id \in Blocks /\ call[c] # Idle /\ call[c] # Off
         /\ call[c] = Idle => ~Busy(c) /\ Alive(c)
         /\ call[c] \in {Off, Fault} => ~Alive(c)
  BY DEF CallsOK, Busy, Alive, Calls, Off, Idle, Fault

\* The connection a call uses.
LEMMA SockFacts ==
  ASSUME CallsOK, NEW c \in Clients, Alive(c), NEW b \in Blocks
  PROVE  /\ Sock(c, b) \in Conns /\ Sock(c, b)[1] = c /\ Sock(c, b)[3] = gen[c]
  BY WireAssumption DEF CallsOK, Sock, Conns

LEMMA ConnParts ==
  ASSUME NEW k \in Conns
  PROVE  k[1] \in Clients /\ k[2] \in Servers /\ k[3] \in 1 .. MaxInits
  BY DEF Conns

-----------------------------------------------------------------------------
(* The invariant: the steps of a client. *)

LEMMA DmInitKeeps ==
  ASSUME SimInv, NEW c \in Clients, DmInit(c)
  PROVE  CallsOK' /\ link' \in [Conns -> {"new", "open", "closed"}]
         /\ \A k \in Conns : Carries(k)'
  <1>1. /\ call[c] \in {Off, Idle} /\ gen[c] < MaxInits /\ ~Busy(c)
        /\ gen' = [gen EXCEPT ![c] = @ + 1] /\ call' = [call EXCEPT ![c] = Idle]
        /\ link' = [k \in Conns |-> IF k[1] = c /\ k[3] = gen[c] + 1 THEN "open" ELSE link[k]]
        /\ req' = req /\ rep' = rep
    BY CallFacts DEF DmInit, SimInv, Alive, Off, Busy, Calls
  <1>2. MaxInits \in Nat /\ CallsOK /\ link \in [Conns -> {"new", "open", "closed"}]
    BY WireAssumption DEF SimInv, Functions
  <1>3. CallsOK'
    <2>1. /\ call' \in [Clients -> [op : Calls, id : Blocks] \cup {Off, Idle, Fault}]
          /\ gen' \in [Clients -> Nat]
      BY <1>1, <1>2 DEF CallsOK
    <2>2. ASSUME NEW x \in Clients, Alive(x)' PROVE gen'[x] \in 1 .. MaxInits
      <3>1. CASE x = c
        BY <1>1, <1>2, <3>1 DEF CallsOK
      <3>2. CASE x # c
        BY <1>1, <1>2, <2>2, <3>2 DEF CallsOK, Alive, Busy
      <3>. QED BY <3>1, <3>2
    <2>. QED BY <2>1, <2>2 DEF CallsOK
  <1>4. link' \in [Conns -> {"new", "open", "closed"}]
    BY <1>1, <1>2
  <1>5. ASSUME NEW k \in Conns PROVE Carries(k)'
    <2>1. Carries(k) /\ k[1] \in Clients /\ k[3] \in Nat /\ gen[k[1]] \in Nat
      BY ConnParts DEF SimInv, CallsOK
    <2>2. CASE k[1] # c
      <3>1. gen'[k[1]] = gen[k[1]] /\ call'[k[1]] = call[k[1]] /\ link'[k] = link[k]
        BY <1>1, <1>2, <2>1, <2>2 DEF CallsOK
      <3>. QED BY <1>1, <2>1, <3>1 DEF Carries, Empty, Sock, Alive, Busy
    <2>3. CASE k[1] = c
      <3>1. gen'[c] = gen[c] + 1 /\ call'[c] = Idle /\ gen[c] \in Nat
        BY <1>1, <1>2 DEF CallsOK
      <3>2. link'[k] = IF k[3] = gen[c] + 1 THEN "open" ELSE link[k]
        BY <1>1, <2>3
      <3>3. link[k] = "open" => Empty(k)
        BY <1>1, <2>1, <2>3 DEF Carries
      <3>4. k[3] = gen[c] + 1 => link[k] = "new" /\ Empty(k)
        BY <2>1, <2>3, <3>1 DEF Carries, Empty
      <3>5. k[3] # gen[c] + 1 => (gen[c] < k[3] <=> gen[c] + 1 < k[3])
        BY <2>1, <3>1
      <3>6. CASE k[3] = gen[c] + 1
        BY <1>1, <2>1, <2>3, <3>1, <3>2, <3>4, <3>6 DEF Carries, Empty
      <3>7. CASE k[3] # gen[c] + 1
        BY <1>1, <2>1, <2>3, <3>1, <3>2, <3>3, <3>5, <3>7 DEF Carries, Empty
      <3>. QED BY <3>6, <3>7
    <2>. QED BY <2>2, <2>3
  <1>. QED BY <1>3, <1>4, <1>5

\* The process ends, in Exit or NullBlock.
LEMMA EndKeeps ==
  ASSUME SimInv, NEW c \in Clients, CloseAll(c), NEW off \in {Off, Fault},
         call' = [call EXCEPT ![c] = off], gen' = gen, req' = req
  PROVE  CallsOK' /\ link' \in [Conns -> {"new", "open", "closed"}]
         /\ (\E S : rep' \in [Conns -> Seq(S)]) /\ \A k \in Conns : Carries(k)'
  <1>1. CallsOK /\ Functions
    BY DEF SimInv
  <1>2. call'[c] = off /\ \A x \in Clients : x # c => call'[x] = call[x]
    BY <1>1 DEF CallsOK
  <1>3. CallsOK'
    <2>1. call' \in [Clients -> [op : Calls, id : Blocks] \cup {Off, Idle, Fault}]
      BY <1>1 DEF CallsOK
    <2>2. ~Alive(c)'
      BY <1>2 DEF Alive, Busy, Off, Fault, Idle, Calls
    <2>3. \A x \in Clients : x # c => (Alive(x)' <=> Alive(x))
      BY <1>2 DEF Alive, Busy
    <2>. QED BY <1>1, <2>1, <2>2, <2>3 DEF CallsOK
  <1>4. /\ link' = [k \in Conns |-> IF k[1] = c /\ link[k] = "open" THEN "closed" ELSE link[k]]
        /\ rep' = [k \in Conns |-> IF k[1] = c THEN <<>> ELSE rep[k]]
    BY DEF CloseAll
  <1>5. link' \in [Conns -> {"new", "open", "closed"}]
    BY <1>1, <1>4 DEF Functions
  <1>6. \E S : rep' \in [Conns -> Seq(S)]
    <2>1. PICK S : rep \in [Conns -> Seq(S)]
      BY <1>1 DEF Functions
    <2>2. <<>> \in Seq(S)
      OBVIOUS
    <2>. QED BY <1>4, <2>1, <2>2
  <1>7. ASSUME NEW k \in Conns PROVE Carries(k)'
    <2>1. Carries(k) /\ k[1] \in Clients
      BY ConnParts DEF SimInv
    <2>2. CASE k[1] = c
      <3>1. ~Alive(c)' /\ link'[k] # "open" /\ rep'[k] = <<>>
        BY <1>2, <1>4, <2>2 DEF Alive, Busy, Off, Fault, Idle, Calls
      <3>2. link'[k] = "new" <=> link[k] = "new"
        BY <1>4
      <3>. QED BY <2>1, <2>2, <3>1, <3>2 DEF Carries, Empty
    <2>3. CASE k[1] # c
      <3>1. link'[k] = link[k] /\ rep'[k] = rep[k] /\ call'[k[1]] = call[k[1]]
        BY <1>2, <1>4, <2>1, <2>3
      <3>. QED BY <2>1, <3>1 DEF Carries, Empty, Sock, Alive, Busy
    <2>. QED BY <2>2, <2>3
  <1>. QED BY <1>3, <1>5, <1>6, <1>7

\* An idle client's open connections are empty.
LEMMA IdleEmpty ==
  ASSUME SimInv, NEW c \in Clients, call[c] = Idle, NEW b \in Blocks
  PROVE  Empty(Sock(c, b)) /\ link[Sock(c, b)] = "open"
  <1>1. Alive(c) /\ ~Busy(c) /\ CallsOK
    BY CallFacts DEF SimInv
  <1>2. Sock(c, b) \in Conns /\ Sock(c, b)[1] = c /\ Sock(c, b)[3] = gen[c]
    BY <1>1, SockFacts
  <1>. QED BY <1>1, <1>2 DEF SimInv, Carries

LEMMA SendKeepsCalls ==
  ASSUME SimInv, NEW c \in Clients, call[c] = Idle, NEW op \in Calls, NEW b \in Blocks, NEW m,
         Send(c, op, b, m)
  PROVE  CallsOK' /\ \A k \in Conns : Carries(k)'
  <1>1. /\ req' = [req EXCEPT ![Sock(c, b)] = Append(@, m)]
        /\ call' = [call EXCEPT ![c] = [op |-> op, id |-> b]]
        /\ gen' = gen /\ link' = link /\ rep' = rep
    BY DEF Send
  <1>2. CallsOK /\ Alive(c) /\ ~Busy(c)
    BY CallFacts DEF SimInv
  <1>3. Sock(c, b) \in Conns /\ Sock(c, b)[1] = c /\ Empty(Sock(c, b)) /\ link[Sock(c, b)] = "open"
    BY <1>2, SockFacts, IdleEmpty
  <1>4. call'[c] = [op |-> op, id |-> b] /\ \A x \in Clients : x # c => call'[x] = call[x]
    BY <1>1, <1>2 DEF CallsOK
  <1>5. CallsOK'
    <2>1. call' \in [Clients -> [op : Calls, id : Blocks] \cup {Off, Idle, Fault}]
      BY <1>1, <1>2 DEF CallsOK
    <2>2. \A x \in Clients : Alive(x)' => Alive(x)
      BY <1>2, <1>4 DEF Alive, Busy
    <2>. QED BY <1>1, <1>2, <2>1, <2>2 DEF CallsOK
  <1>6. ASSUME NEW k \in Conns PROVE Carries(k)'
    <2>1. Carries(k) /\ k[1] \in Clients
      BY ConnParts DEF SimInv
    <2>2. CASE k = Sock(c, b)
      <3>1. req'[k] = Append(<<>>, m)
        BY <1>1, <1>3, <2>2 DEF SimInv, ThreadsInv, ThreadsType, Empty
      <3>2. Tail(req'[k]) = <<>>
        <4>1. m \in {m} /\ <<>> \in Seq({m})
          OBVIOUS
        <4>2. Tail(Append(<<>>, m)) = <<>>
          BY <4>1
        <4>. QED BY <3>1, <4>2
      <3>3. Busy(k[1])' /\ k = Sock(k[1], call[k[1]].id)'
        BY <1>1, <1>3, <1>4, <2>2 DEF Busy, Sock
      <3>. QED BY <1>1, <1>3, <2>1, <2>2, <3>2, <3>3 DEF Carries, Empty
    <2>3. CASE k # Sock(c, b)
      <3>1. req'[k] = req[k]
        BY <1>1, <2>3 DEF SimInv, ThreadsInv, ThreadsType
      <3>2. CASE k[1] = c
        <4>1. link[k] = "open" => Empty(k)
          BY <1>2, <2>1, <3>2 DEF Carries
        <4>. QED BY <1>1, <1>2, <2>1, <3>1, <3>2, <4>1 DEF Carries, Empty, Sock
      <3>3. CASE k[1] # c
        BY <1>1, <1>4, <2>1, <3>1, <3>3 DEF Carries, Empty, Sock, Alive, Busy
      <3>. QED BY <3>2, <3>3
    <2>. QED BY <2>2, <2>3
  <1>. QED BY <1>5, <1>6

LEMMA ReceiveKeepsCalls ==
  ASSUME SimInv, NEW c \in Clients, NEW op \in Calls, Receive(c, op)
  PROVE  CallsOK' /\ (\E S : rep' \in [Conns -> Seq(S)]) /\ \A k \in Conns : Carries(k)'
  <1>. DEFINE s == Sock(c, call[c].id)
  <1>1. /\ rep[s] # <<>> /\ rep' = [rep EXCEPT ![s] = Tail(@)]
        /\ call' = [call EXCEPT ![c] = Idle] /\ gen' = gen /\ link' = link /\ req' = req
        /\ Busy(c)
    BY DEF Receive, Busy
  <1>2. CallsOK /\ Alive(c) /\ call[c].id \in Blocks
    BY <1>1, CallFacts DEF SimInv, Alive
  <1>3. s \in Conns /\ s[1] = c
    BY <1>2, SockFacts
  <1>4. call'[c] = Idle /\ \A x \in Clients : x # c => call'[x] = call[x]
    BY <1>1, <1>2 DEF CallsOK
  <1>5. ~Busy(c)'
    BY <1>4 DEF Busy, Idle, Calls
  <1>6. CallsOK'
    <2>1. call' \in [Clients -> [op : Calls, id : Blocks] \cup {Off, Idle, Fault}]
      BY <1>1, <1>2 DEF CallsOK
    <2>2. \A x \in Clients : Alive(x)' => Alive(x)
      BY <1>2, <1>4 DEF Alive, Busy
    <2>. QED BY <1>1, <1>2, <2>1, <2>2 DEF CallsOK
  <1>7. PICK S : rep \in [Conns -> Seq(S)]
    BY DEF SimInv, Functions
  <1>8. rep' \in [Conns -> Seq(S)]
    <2>1. Tail(rep[s]) \in Seq(S)
      BY <1>1, <1>3, <1>7
    <2>. QED BY <1>1, <1>3, <1>7, <2>1
  <1>9. ASSUME NEW k \in Conns PROVE Carries(k)'
    <2>1. Carries(k) /\ k[1] \in Clients
      BY ConnParts DEF SimInv
    <2>2. CASE k = s
      <3>1. rep'[k] = <<>> /\ req'[k] = <<>>
        BY <1>1, <1>3, <1>7, <2>1, <2>2 DEF Carries
      <3>. QED BY <1>1, <1>2, <1>3, <2>1, <2>2, <3>1 DEF Carries, Empty
    <2>3. CASE k # s
      <3>1. rep'[k] = rep[k]
        BY <1>1, <1>7, <2>3
      <3>2. CASE k[1] = c
        <4>1. link[k] = "open" => Empty(k)
          BY <2>1, <2>3, <3>2 DEF Carries
        <4>. QED BY <1>1, <1>2, <2>1, <3>1, <3>2, <4>1 DEF Carries, Empty
      <3>3. CASE k[1] # c
        BY <1>1, <1>4, <2>1, <3>1, <3>3 DEF Carries, Empty, Sock, Alive, Busy
      <3>. QED BY <3>2, <3>3
    <2>. QED BY <2>2, <2>3
  <1>. QED BY <1>6, <1>8, <1>9

LEMMA ClientKeepsSim ==
  ASSUME SimInv, NEW c \in Clients, ClientStep(c), UNCHANGED threadVars
  PROVE  SimInv'
  <1>1. ThreadsInv'
    BY ClientKeeps DEF SimInv
  <1>2. ack' = ack /\ blocks' = blocks /\ mappedClients' = mappedClients
    BY DEF threadVars
  <1>3. SUFFICES /\ CallsOK' /\ link' \in [Conns -> {"new", "open", "closed"}]
                 /\ (\E S : rep' \in [Conns -> Seq(S)]) /\ \A k \in Conns : Carries(k)'
    BY <1>1, <1>2 DEF SimInv, Functions
  <1>4. CASE DmInit(c)
    BY <1>4, DmInitKeeps DEF DmInit, SimInv, Functions
  <1>5. CASE Exit(c)
    BY <1>5, EndKeeps DEF Exit
  <1>6. CASE \E b \in Blocks, d \in Data : Store(c, b, d)
    <2>1. call' = call /\ gen' = gen /\ link' = link /\ req' = req /\ rep' = rep
      BY <1>6 DEF Store, wireVars
    <2>. QED BY <2>1 DEF SimInv, Functions, CallsOK, Carries, Empty, Sock, Alive, Busy
  <1>7. CASE call[c] = Idle /\ \E op \in Calls, b \in Blocks : \E m : Send(c, op, b, m)
    <2>1. link' = link /\ rep' = rep
      BY <1>7 DEF Send
    <2>. QED BY <1>7, <2>1, SendKeepsCalls DEF SimInv, Functions
  <1>8. CASE \E op \in Calls : Receive(c, op)
    <2>1. link' = link
      BY <1>8 DEF Receive
    <2>. QED BY <1>8, <2>1, ReceiveKeepsCalls DEF SimInv, Functions
  <1>9. CASE NullBlock(c, "MAP") \/ NullBlock(c, "UPDATE")
    BY <1>9, EndKeeps DEF NullBlock
  <1>10. ASSUME Begin(c) PROVE \/ \E b \in Blocks, d \in Data : Store(c, b, d)
                               \/ call[c] = Idle /\ \E op \in Calls, b \in Blocks : \E m : Send(c, op, b, m)
    BY <1>10 DEF Begin, BeginMap, BeginUnmap, BeginUpdate, BeginWrite, BeginWait, Calls
  <1>11. ASSUME Return(c) PROVE \/ \E op \in Calls : Receive(c, op)
                                \/ NullBlock(c, "MAP") \/ NullBlock(c, "UPDATE")
    BY <1>11 DEF Return, ReturnMap, ReturnUnmap, ReturnUpdate, ReturnWrite, ReturnWait, Calls
  <1>. QED BY <1>4, <1>5, <1>6, <1>7, <1>8, <1>9, <1>10, <1>11 DEF ClientStep

-----------------------------------------------------------------------------
(* The invariant: the steps of a thread. *)

LEMMA SendAckKeepsSim ==
  ASSUME SimInv, NEW k \in Conns, SendAck(k), UNCHANGED clientVars
  PROVE  (\E S : rep' \in [Conns -> Seq(S)]) /\ \A j \in Conns : Carries(j)'
  <1>1. /\ req[k] # <<>> /\ req' = [req EXCEPT ![k] = Tail(@)] /\ link' = link
        /\ call' = call /\ gen' = gen
    BY DEF SendAck, Goto, SimInv, ThreadsInv, InHand, clientVars
  <1>2. Carries(k) /\ Tail(req[k]) = <<>> /\ rep[k] = <<>>
    BY <1>1 DEF SimInv, Carries
  <1>3. \/ link[k] = "open" /\ rep' = [rep EXCEPT ![k] = Append(@, ack[k])]
        \/ link[k] # "open" /\ rep' = rep
    BY DEF SendAck
  <1>4. PICK S : rep \in [Conns -> Seq(S)]
    BY DEF SimInv, Functions
  <1>. DEFINE T == S \cup {ack[k]}
  <1>5. Append(<<>>, ack[k]) \in Seq(T) /\ Tail(Append(<<>>, ack[k])) = <<>>
    <2>1. ack[k] \in T /\ <<>> \in Seq(T)
      OBVIOUS
    <2>. HIDE DEF T
    <2>. QED BY <2>1
  <1>6. \A s \in Seq(S) : s \in Seq(T)
    OBVIOUS
  <1>7. rep' \in [Conns -> Seq(T)]
    <2>. HIDE DEF T
    <2>. QED BY <1>2, <1>3, <1>4, <1>5, <1>6
  <1>8. ASSUME NEW j \in Conns PROVE Carries(j)'
    <2>1. Carries(j)
      BY DEF SimInv
    <2>2. CASE j = k
      <3>1. req'[k] = <<>> /\ (rep'[k] = <<>> \/ Tail(rep'[k]) = <<>>)
        BY <1>1, <1>2, <1>3, <1>4, <1>5 DEF SimInv, ThreadsInv, ThreadsType
      <3>2. link[k] # "open" => rep'[k] = <<>>
        BY <1>2, <1>3
      <3>3. ~Empty(k)
        BY <1>1 DEF Empty
      <3>. QED BY <1>1, <2>1, <2>2, <3>1, <3>2, <3>3 DEF Carries, Empty, Sock, Alive, Busy
    <2>3. CASE j # k
      <3>1. req'[j] = req[j] /\ rep'[j] = rep[j]
        BY <1>1, <1>3, <1>4, <2>3 DEF SimInv, ThreadsInv, ThreadsType
      <3>. QED BY <1>1, <2>1, <3>1 DEF Carries, Empty, Sock, Alive, Busy
    <2>. QED BY <2>2, <2>3
  <1>. QED BY <1>7, <1>8

LEMMA ThreadFunctions ==
  ASSUME SimInv, NEW k \in Conns, ThreadStep(k)
  PROVE  /\ ack' = [j \in Conns |-> ack'[j]]
         /\ blocks' = [b \in Blocks |-> blocks'[b]]
         /\ mappedClients' = [b \in Blocks |-> mappedClients'[b]]
  <1>. USE DEF SimInv, Functions
  <1>1. \/ ack' = ack \/ \E a : ack' = [ack EXCEPT ![k] = a]
    BY DEF ThreadStep, Proceed, Critical, Recv, RecvEnd, Lock, SpuriousWakeup, Broadcast, Unlock,
           SendAck, Handling, CritMap, CritUnmap, CritUpdate, CritWrite, CritWait
  <1>2. ASSUME NEW a, ack' = [ack EXCEPT ![k] = a] PROVE ack' = [j \in Conns |-> ack'[j]]
    <2>1. ack = [j \in Conns |-> ack[j]]
      OBVIOUS
    <2>. QED BY <1>2, <2>1
  <1>3. blocks' = blocks \/ CritWrite(k)
    BY DEF ThreadStep, Proceed, Critical, Recv, RecvEnd, Lock, SpuriousWakeup, Broadcast, Unlock,
           SendAck, CritMap, CritUnmap, CritUpdate, CritWait
  <1>4. CritWrite(k) => blocks' = [b \in Blocks |-> blocks'[b]]
    BY DEF CritWrite
  <1>5. mappedClients' = mappedClients \/ CritMap(k) \/ CritUnmap(k)
    BY DEF ThreadStep, Proceed, Critical, Recv, RecvEnd, Lock, SpuriousWakeup, Broadcast, Unlock,
           SendAck, CritUpdate, CritWrite, CritWait
  <1>6. CritMap(k) \/ CritUnmap(k) => mappedClients' = [b \in Blocks |-> mappedClients'[b]]
    BY DEF CritMap, CritUnmap
  <1>. QED BY <1>1, <1>2, <1>3, <1>4, <1>5, <1>6

LEMMA ThreadKeepsSim ==
  ASSUME SimInv, NEW k \in Conns, ThreadStep(k), UNCHANGED clientVars
  PROVE  SimInv'
  <1>1. ThreadsInv'
    BY ThreadKeeps DEF SimInv
  <1>2. call' = call /\ gen' = gen
    BY DEF clientVars
  <1>3. link' = link /\ ((rep' = rep /\ req' = req) \/ SendAck(k))
    BY DEF ThreadStep, Proceed, Critical, Recv, RecvEnd, Lock, SpuriousWakeup, Broadcast, Unlock,
           SendAck, Handling, CritMap, CritUnmap, CritUpdate, CritWrite, CritWait, wireVars
  <1>4. CallsOK'
    BY <1>2 DEF SimInv, CallsOK, Alive, Busy
  <1>5. (\E S : rep' \in [Conns -> Seq(S)]) /\ \A j \in Conns : Carries(j)'
    <2>1. CASE rep' = rep /\ req' = req
      BY <1>2, <1>3, <2>1 DEF SimInv, Functions, Carries, Empty, Sock, Alive, Busy
    <2>. QED BY <1>3, <2>1, SendAckKeepsSim
  <1>. QED BY <1>1, <1>3, <1>4, <1>5, ThreadFunctions DEF SimInv, Functions

LEMMA SimInvInit == Init => SimInv
  <1>. SUFFICES ASSUME Init PROVE SimInv
    OBVIOUS
  <1>1. ThreadsInv
    BY ThreadsInvInit
  <1>2. CallsOK /\ \A c \in Clients : ~Alive(c)
    BY DEF Init, ClientInit, CallsOK, Alive, Busy, Off, Idle, Calls
  <1>3. Functions
    <2>1. rep \in [Conns -> Seq({})]
      BY DEF Init, WireInit
    <2>. QED BY <2>1 DEF Init, WireInit, ThreadsInit, Functions
  <1>4. \A k \in Conns : Carries(k)
    BY <1>2, ConnParts DEF Init, WireInit, ClientInit, Carries, Empty
  <1>. QED BY <1>1, <1>2, <1>3, <1>4 DEF SimInv

LEMMA SimInvStep == SimInv /\ [Next]_vars => SimInv'
  <1>. SUFFICES ASSUME SimInv, [Next]_vars PROVE SimInv'
    OBVIOUS
  <1>1. CASE \E c \in Clients : ClientStep(c) /\ UNCHANGED threadVars
    BY <1>1, ClientKeepsSim
  <1>2. CASE \E k \in Conns : ThreadStep(k) /\ UNCHANGED clientVars
    BY <1>2, ThreadKeepsSim
  <1>3. CASE UNCHANGED vars
    <2>1. ThreadsInv'
      BY <1>3, ThreadsInvStep DEF SimInv
    <2>. QED BY <1>3, <2>1 DEF vars, wireVars, threadVars, clientVars, SimInv, CallsOK, Functions,
                               Carries, Empty, Sock, Alive, Busy
  <1>. QED BY <1>1, <1>2, <1>3 DEF Next

-----------------------------------------------------------------------------
(* What DMSystem sees. *)

LEMMA SeenPlain ==
  ASSUME SimInv, NEW k \in Conns
  PROVE  /\ req[k] = <<>> => ~Handled(k)
         /\ ~Handled(k) => SysReq[k] = req[k] /\ SysRep[k] = rep[k]
         /\ link[k] # "open" => SysRep[k] = rep[k]
  BY DEF SimInv, ThreadsInv, InHand, Handled, SysReq, SysRep

\* The connections an idle client writes to, and a called client reads from,
\* are as DMSystem sees them.
LEMMA SeenBySender ==
  ASSUME SimInv, NEW c \in Clients, call[c] = Idle, NEW b \in Blocks
  PROVE  /\ Sock(c, b) \in Conns /\ ~Handled(Sock(c, b))
         /\ SysReq[Sock(c, b)] = req[Sock(c, b)]
  BY IdleEmpty, SeenPlain, CallFacts, SockFacts DEF SimInv, Empty

LEMMA SeenByReceiver ==
  ASSUME SimInv, NEW c \in Clients, Busy(c), rep[Sock(c, call[c].id)] # <<>>
  PROVE  /\ Sock(c, call[c].id) \in Conns /\ ~Handled(Sock(c, call[c].id))
         /\ SysRep[Sock(c, call[c].id)] = rep[Sock(c, call[c].id)]
  <1>. DEFINE k == Sock(c, call[c].id)
  <1>1. k \in Conns
    BY CallFacts, SockFacts DEF SimInv, Alive
  <1>2. req[k] = <<>>
    BY <1>1 DEF SimInv, Carries
  <1>. QED BY <1>1, <1>2, SeenPlain

LEMMA SendSeen ==
  ASSUME SimInv, NEW c \in Clients, call[c] = Idle, NEW op, NEW b \in Blocks, NEW m,
         Send(c, op, b, m), pc' = pc, ack' = ack
  PROVE  System!Send(c, op, b, m)
  <1>. DEFINE s == Sock(c, b)
  <1>1. s \in Conns /\ ~Handled(s) /\ SysReq[s] = req[s]
    BY SeenBySender
  <1>2. /\ Len(req[s]) < MaxQueue /\ req' = [req EXCEPT ![s] = Append(@, m)]
        /\ call' = [call EXCEPT ![c] = [op |-> op, id |-> b]]
        /\ gen' = gen /\ link' = link /\ rep' = rep
    BY DEF Send
  <1>3. SysRep' = SysRep
    BY <1>2 DEF SysRep, Handled
  <1>4. \A k \in Conns : req'[k] = IF k = s THEN Append(req[s], m) ELSE req[k]
    BY <1>1, <1>2 DEF SimInv, ThreadsInv, ThreadsType
  <1>5. SysReq' = [SysReq EXCEPT ![s] = Append(@, m)]
    BY <1>1, <1>4 DEF SysReq, Handled
  <1>. QED BY <1>1, <1>2, <1>3, <1>5 DEF System!Send, System!Sock, Sock

LEMMA ReceiveSeen ==
  ASSUME SimInv, NEW c \in Clients, NEW op \in Calls, Receive(c, op), pc' = pc, ack' = ack
  PROVE  System!Receive(c, op) /\ System!Ack(c) = Ack(c)
  <1>. DEFINE s == Sock(c, call[c].id)
  <1>1. /\ call[c].op = op /\ rep[s] # <<>> /\ rep' = [rep EXCEPT ![s] = Tail(@)]
        /\ call' = [call EXCEPT ![c] = Idle] /\ gen' = gen /\ link' = link /\ req' = req
    BY DEF Receive
  <1>2. s \in Conns /\ ~Handled(s) /\ SysRep[s] = rep[s]
    BY <1>1, SeenByReceiver DEF Busy
  <1>3. SysReq' = SysReq
    BY <1>1 DEF SysReq, Handled
  <1>4. \A k \in Conns : rep'[k] = IF k = s THEN Tail(rep[s]) ELSE rep[k]
    BY <1>1, <1>2 DEF SimInv, Functions
  <1>5. SysRep' = [SysRep EXCEPT ![s] = Tail(@)]
    <2>1. \A k \in Conns : SysRep'[k] = IF k = s THEN Tail(rep[s]) ELSE SysRep[k]
      BY <1>1, <1>2, <1>4 DEF SysRep, Handled
    <2>2. SysRep = [k \in Conns |-> SysRep[k]] /\ SysRep' = [k \in Conns |-> SysRep'[k]]
      BY DEF SysRep
    <2>. HIDE DEF s
    <2>. QED BY <1>2, <2>1, <2>2
  <1>. QED BY <1>1, <1>2, <1>3, <1>5 DEF System!Receive, System!Sock, Sock, System!Ack, Ack,
                                         System!Idle, Idle

LEMMA EndSeen ==
  ASSUME SimInv, NEW c \in Clients, CloseAll(c), req' = req, pc' = pc, ack' = ack
  PROVE  System!CloseAll(c) /\ SysReq' = SysReq
  <1>1. /\ link' = [k \in Conns |-> IF k[1] = c /\ link[k] = "open" THEN "closed" ELSE link[k]]
        /\ rep' = [k \in Conns |-> IF k[1] = c THEN <<>> ELSE rep[k]]
    BY DEF CloseAll
  <1>2. \A k \in Conns : SysRep'[k] = IF k[1] = c THEN <<>> ELSE SysRep[k]
    BY <1>1 DEF SysRep, Handled
  <1>3. SysRep' = [k \in Conns |-> IF k[1] = c THEN <<>> ELSE SysRep[k]]
    BY <1>2 DEF SysRep
  <1>4. SysReq' = SysReq
    BY DEF SysReq, Handled
  <1>. QED BY <1>1, <1>3, <1>4 DEF System!CloseAll, System!Conns, Conns

LEMMA NullBlockSeen ==
  ASSUME SimInv, NEW c \in Clients, NEW op \in Calls, NullBlock(c, op), pc' = pc, ack' = ack
  PROVE  System!NullBlock(c, op)
  <1>. DEFINE s == Sock(c, call[c].id)
  <1>1. call[c].op = op /\ rep[s] # <<>> /\ req' = req /\ CloseAll(c)
    BY DEF NullBlock
  <1>2. s \in Conns /\ SysRep[s] = rep[s]
    BY <1>1, SeenByReceiver DEF Busy
  <1>3. System!CloseAll(c) /\ SysReq' = SysReq
    BY <1>1, EndSeen
  <1>. QED BY <1>1, <1>2, <1>3 DEF NullBlock, System!NullBlock, System!Sock, Sock, System!Ack, Ack,
              System!Fault, Fault, Reset, System!Reset, NoCopy, System!NoCopy, NewCopy, System!NewCopy

LEMMA DmInitSeen ==
  ASSUME SimInv, NEW c \in Clients, DmInit(c), pc' = pc, ack' = ack
  PROVE  System!DmInit(c)
  <1>1. /\ gen[c] < MaxInits /\ req' = req /\ rep' = rep
        /\ link' = [k \in Conns |-> IF k[1] = c /\ k[3] = gen[c] + 1 THEN "open" ELSE link[k]]
    BY DEF DmInit
  <1>2. \A k \in Conns : Handled(k) => link'[k] = link[k]
    <2>1. SUFFICES ASSUME NEW k \in Conns, k[1] = c, k[3] = gen[c] + 1 PROVE ~Handled(k)
      BY <1>1
    <2>2. gen[c] \in Nat /\ Carries(k)
      BY DEF SimInv, CallsOK
    <2>3. req[k] = <<>>
      BY <2>1, <2>2 DEF Carries
    <2>. QED BY <2>3, SeenPlain
  <1>3. SysReq' = SysReq /\ SysRep' = SysRep
    BY <1>1, <1>2 DEF SysReq, SysRep, Handled
  <1>. QED BY <1>1, <1>3 DEF DmInit, System!DmInit, Off, System!Off, Idle, System!Idle,
                             System!Conns, Conns

LEMMA BeginSeen ==
  ASSUME SimInv, NEW c \in Clients, Begin(c), pc' = pc, ack' = ack
  PROVE  System!Begin(c)
  <1>. USE DEF Idle, System!Idle, NewCopy, System!NewCopy, SetCopy, System!SetCopy,
               ShallowRequest, System!ShallowRequest, WriteRequest, System!WriteRequest
  <1>1. PICK b \in Blocks : \/ \E d \in Data : BeginMap(c, b, d) \/ Store(c, b, d)
                            \/ BeginUnmap(c, b) \/ BeginUpdate(c, b)
                            \/ BeginWrite(c, b) \/ BeginWait(c, b)
    BY DEF Begin
  <1>2. \A op, m : call[c] = Idle /\ Send(c, op, b, m) => System!Send(c, op, b, m)
    BY SendSeen
  <1>3. ASSUME NEW d \in Data, BeginMap(c, b, d) PROVE System!BeginMap(c, b, d)
    BY <1>2, <1>3 DEF BeginMap, System!BeginMap
  <1>4. ASSUME NEW d \in Data, Store(c, b, d) PROVE System!Store(c, b, d)
    <2>1. SysReq' = SysReq /\ SysRep' = SysRep
      BY <1>4 DEF Store, wireVars, SysReq, SysRep, Handled
    <2>. QED BY <1>4, <2>1 DEF Store, System!Store, wireVars, System!wireVars
  <1>5. BeginUnmap(c, b) => System!BeginUnmap(c, b)
    BY <1>2 DEF BeginUnmap, System!BeginUnmap
  <1>6. BeginUpdate(c, b) => System!BeginUpdate(c, b)
    BY <1>2 DEF BeginUpdate, System!BeginUpdate
  <1>7. BeginWrite(c, b) => System!BeginWrite(c, b)
    BY <1>2 DEF BeginWrite, System!BeginWrite
  <1>8. BeginWait(c, b) => System!BeginWait(c, b)
    BY <1>2 DEF BeginWait, System!BeginWait
  <1>. QED BY <1>1, <1>3, <1>4, <1>5, <1>6, <1>7, <1>8 DEF System!Begin

LEMMA ReturnSeen ==
  ASSUME SimInv, NEW c \in Clients, Return(c), pc' = pc, ack' = ack
  PROVE  System!Return(c)
  <1>. USE DEF SetCopy, System!SetCopy, NoCopy, System!NoCopy, NewCopy, System!NewCopy,
               Install, System!Install, Content, System!Content
  <1>1. \A op \in Calls : Receive(c, op) => System!Receive(c, op) /\ System!Ack(c) = Ack(c)
    BY ReceiveSeen
  <1>2. \A op \in Calls : NullBlock(c, op) => System!NullBlock(c, op)
    BY NullBlockSeen
  <1>3. Calls = {"MAP", "UNMAP", "UPDATE", "WRITE", "WAIT"}
    BY DEF Calls
  <1>4. ReturnMap(c) => System!ReturnMap(c)
    BY <1>1, <1>2, <1>3 DEF ReturnMap, System!ReturnMap
  <1>5. ReturnUnmap(c) => System!ReturnUnmap(c)
    BY <1>1, <1>3 DEF ReturnUnmap, System!ReturnUnmap
  <1>6. ReturnUpdate(c) => System!ReturnUpdate(c)
    BY <1>1, <1>2, <1>3 DEF ReturnUpdate, System!ReturnUpdate
  <1>7. ReturnWrite(c) => System!ReturnWrite(c)
    BY <1>1, <1>3 DEF ReturnWrite, System!ReturnWrite
  <1>8. ReturnWait(c) => System!ReturnWait(c)
    BY <1>1, <1>3 DEF ReturnWait, System!ReturnWait
  <1>. QED BY <1>4, <1>5, <1>6, <1>7, <1>8 DEF Return, System!Return

LEMMA ClientSeen ==
  ASSUME SimInv, NEW c \in Clients, ClientStep(c), UNCHANGED threadVars
  PROVE  System!ClientStep(c) /\ UNCHANGED System!serverVars
  <1>1. pc' = pc /\ ack' = ack /\ blocks' = blocks /\ mappedClients' = mappedClients
    BY DEF threadVars
  <1>2. UNCHANGED System!serverVars
    BY <1>1 DEF System!serverVars, SysThread
  <1>3. Exit(c) => System!Exit(c)
    <2>1. SUFFICES ASSUME Exit(c) PROVE System!Exit(c)
      OBVIOUS
    <2>2. System!CloseAll(c) /\ SysReq' = SysReq
      BY <1>1, <2>1, EndSeen DEF Exit
    <2>. QED BY <2>1, <2>2 DEF Exit, System!Exit, Alive, System!Alive, Busy, System!Busy, Calls, System!Calls,
                Idle, System!Idle, Off, System!Off, Reset, System!Reset, NoCopy, System!NoCopy,
                NewCopy, System!NewCopy
  <1>. QED BY <1>1, <1>2, <1>3, DmInitSeen, BeginSeen, ReturnSeen DEF ClientStep, System!ClientStep

-----------------------------------------------------------------------------
(* The steps of a thread, as DMSystem sees them. *)

\* What DMSystem sees depends on nothing else.
LEMMA UnseenStep ==
  ASSUME \A k \in Conns : /\ SysReq'[k] = SysReq[k] /\ SysRep'[k] = SysRep[k]
                          /\ SysThread'[k] = SysThread[k],
         blocks' = blocks, mappedClients' = mappedClients, link' = link, UNCHANGED clientVars
  PROVE  UNCHANGED System!vars
  <1>1. SysReq' = SysReq /\ SysRep' = SysRep /\ SysThread' = SysThread
    BY DEF SysReq, SysRep, SysThread
  <1>. QED BY <1>1 DEF System!vars, System!wireVars, System!serverVars, System!clientVars, clientVars

\* A thread that goes to a place where its request is handled as much as before.
LEMMA MoveUnseen ==
  ASSUME SimInv, NEW k \in Conns, req' = req, rep' = rep, ack' = ack, link' = link,
         blocks' = blocks, mappedClients' = mappedClients, UNCHANGED clientVars,
         \A j \in Conns : /\ Handled(j)' <=> Handled(j)
                          /\ pc'[j] = "done" <=> pc[j] = "done"
  PROVE  UNCHANGED System!vars
  <1>1. \A j \in Conns : /\ SysReq'[j] = SysReq[j] /\ SysRep'[j] = SysRep[j]
                         /\ SysThread'[j] = SysThread[j]
    BY DEF SysReq, SysRep, SysThread
  <1>. QED BY <1>1, UnseenStep

\* The answer of a critical section is on its way, to whoever sees no threads.
LEMMA HandlingSeen ==
  ASSUME SimInv, NEW k \in Conns, NEW type, NEW next \in {"unlock", "cast"}, NEW answer,
         Handling(k, type, next, answer)
  PROVE  /\ System!Serving(k, type) /\ System!Answer(k, answer)
         /\ SysReq[k] = req[k]
  <1>1. /\ pc[k] = "crit" /\ pc' = [pc EXCEPT ![k] = next] /\ Head(req[k]).type = type
        /\ ack' = [ack EXCEPT ![k] = answer] /\ req' = req /\ rep' = rep /\ link' = link
    BY DEF Handling, Goto, wireVars
  <1>2. pc \in [Conns -> Places] /\ ack = [j \in Conns |-> ack[j]] /\ req[k] # <<>>
    BY <1>1 DEF SimInv, ThreadsInv, ThreadsType, Functions, InHand
  <1>3. /\ pc'[k] = next /\ ack'[k] = answer
        /\ \A j \in Conns : j # k => pc'[j] = pc[j] /\ ack'[j] = ack[j]
    BY <1>1, <1>2
  <1>4. ~Handled(k) /\ Handled(k)' /\ \A j \in Conns : j # k => (Handled(j)' <=> Handled(j))
    BY <1>1, <1>3 DEF Handled
  <1>5. SysReq[k] = req[k] /\ SysRep[k] = rep[k] /\ SysThread[k] = "recv"
    BY <1>1, <1>4 DEF SysReq, SysRep, SysThread
  <1>6. SysThread' = SysThread
    BY <1>1, <1>3 DEF SysThread
  <1>7. SysReq' = [SysReq EXCEPT ![k] = Tail(@)]
    <2>1. \A j \in Conns : SysReq'[j] = IF j = k THEN Tail(req[k]) ELSE SysReq[j]
      BY <1>1, <1>4 DEF SysReq
    <2>2. SysReq = [j \in Conns |-> SysReq[j]] /\ SysReq' = [j \in Conns |-> SysReq'[j]]
      BY DEF SysReq
    <2>. QED BY <1>5, <2>1, <2>2
  <1>8. /\ link[k] = "open" => SysRep' = [SysRep EXCEPT ![k] = Append(@, answer)]
        /\ link[k] # "open" => SysRep' = SysRep
    <2>1. \A j \in Conns : SysRep'[j] = IF j = k /\ link[k] = "open"
                                        THEN Append(rep[k], answer) ELSE SysRep[j]
      BY <1>1, <1>3, <1>4 DEF SysRep
    <2>2. SysRep = [j \in Conns |-> SysRep[j]] /\ SysRep' = [j \in Conns |-> SysRep'[j]]
      BY DEF SysRep
    <2>. QED BY <1>5, <2>1, <2>2
  <1>. QED BY <1>1, <1>2, <1>5, <1>6, <1>7, <1>8 DEF System!Serving, System!Answer

\* One update of blocks or mappedClients, in the two ways it is written.
LEMMA Pointwise ==
  ASSUME NEW f, f = [b \in Blocks |-> f[b]], NEW id \in Blocks, NEW v
  PROVE  [b \in Blocks |-> IF b = id THEN v ELSE f[b]] = [f EXCEPT ![id] = v]
  OBVIOUS

LEMMA CriticalSeen ==
  ASSUME SimInv, NEW k \in Conns, CritMap(k) \/ CritUnmap(k) \/ CritUpdate(k) \/ CritWrite(k)
  PROVE  \/ System!HandleMap(k) \/ System!HandleUnmap(k)
         \/ System!HandleUpdate(k) \/ System!HandleWrite(k)
  <1>. DEFINE m == Head(req[k])
  <1>. USE DEF Found, System!Found, Nack, System!Nack, PlainAck, System!PlainAck, FullAck,
               System!FullAck, ShallowAck, System!ShallowAck, Content, System!Content
  <1>1. Found(k, m.id) => m.id \in Blocks
    BY WireAssumption
  <1>2. blocks = [b \in Blocks |-> blocks[b]] /\ mappedClients = [b \in Blocks |-> mappedClients[b]]
    BY DEF SimInv, Functions
  <1>3. CASE CritMap(k)
    <2>. DEFINE new == Found(k, m.id) /\ k \notin mappedClients[m.id]
    <2>1. /\ Handling(k, "MAP", "unlock", IF new THEN FullAck(m.id, blocks[m.id]) ELSE Nack)
          /\ mappedClients' = [b \in Blocks |->
               IF new /\ b = m.id THEN mappedClients[b] \cup {k} ELSE mappedClients[b]]
          /\ blocks' = blocks
      BY <1>3 DEF CritMap
    <2>2. /\ SysReq[k] = req[k] /\ System!Serving(k, "MAP")
          /\ System!Answer(k, IF new THEN FullAck(m.id, blocks[m.id]) ELSE Nack)
      BY <2>1, HandlingSeen
    <2>3. IF new THEN mappedClients' = [mappedClients EXCEPT ![m.id] = @ \cup {k}]
                 ELSE mappedClients' = mappedClients
      BY <1>1, <1>2, <2>1
    <2>. QED BY <2>1, <2>2, <2>3 DEF System!HandleMap
  <1>4. CASE CritUnmap(k)
    <2>. DEFINE known == Found(k, m.id) /\ k \in mappedClients[m.id]
    <2>1. /\ Handling(k, "UNMAP", "unlock", IF known THEN PlainAck ELSE Nack)
          /\ mappedClients' = [b \in Blocks |->
               IF known /\ b = m.id THEN mappedClients[b] \ {k} ELSE mappedClients[b]]
          /\ blocks' = blocks
      BY <1>4 DEF CritUnmap
    <2>2. /\ SysReq[k] = req[k] /\ System!Serving(k, "UNMAP")
          /\ System!Answer(k, IF known THEN PlainAck ELSE Nack)
      BY <2>1, HandlingSeen
    <2>3. IF known THEN mappedClients' = [mappedClients EXCEPT ![m.id] = @ \ {k}]
                   ELSE mappedClients' = mappedClients
      BY <1>1, <1>2, <2>1
    <2>. QED BY <2>1, <2>2, <2>3 DEF System!HandleUnmap
  <1>5. CASE CritUpdate(k)
    BY <1>5, HandlingSeen DEF CritUpdate, System!HandleUpdate
  <1>6. CASE CritWrite(k)
    <2>. DEFINE current == Found(k, m.id) /\ blocks[m.id].rev = m.rev
    <2>1. /\ Handling(k, "WRITE", "cast", IF current THEN PlainAck ELSE Nack)
          /\ blocks' = [b \in Blocks |->
               IF current /\ b = m.id THEN [rev |-> m.rev + 1, data |-> Content(m)] ELSE blocks[b]]
          /\ mappedClients' = mappedClients
      BY <1>6 DEF CritWrite
    <2>2. /\ SysReq[k] = req[k] /\ System!Serving(k, "WRITE")
          /\ System!Answer(k, IF current THEN PlainAck ELSE Nack)
      BY <2>1, HandlingSeen
    <2>3. IF current
          THEN blocks' = [blocks EXCEPT ![m.id] = [rev |-> m.rev + 1, data |-> Content(m)]]
          ELSE blocks' = blocks
      <3>. DEFINE v == [rev |-> m.rev + 1, data |-> Content(m)]
      <3>1. CASE current
        <4>1. blocks' = [b \in Blocks |-> IF b = m.id THEN v ELSE blocks[b]]
          BY <2>1, <3>1
        <4>2. m.id \in Blocks
          BY <1>1, <3>1
        <4>. HIDE DEF v, m
        <4>3. blocks' = [blocks EXCEPT ![m.id] = v]
          BY <1>2, <4>1, <4>2, Pointwise
        <4>. QED BY <3>1, <4>3 DEF v
      <3>2. CASE ~current
        BY <1>2, <2>1, <3>2
      <3>. QED BY <3>1, <3>2
    <2>. QED BY <2>1, <2>2, <2>3 DEF System!HandleWrite
  <1>. QED BY <1>3, <1>4, <1>5, <1>6

\* The thread of a dead client ends when the answer cannot be sent: DMSystem
\* takes it for the end of the connection.
LEMMA SendAckSeen ==
  ASSUME SimInv, NEW k \in Conns, SendAck(k), UNCHANGED clientVars
  PROVE  System!Disconnect(k) \/ UNCHANGED System!vars
  <1>1. /\ pc[k] = "send" /\ req[k] # <<>> /\ req' = [req EXCEPT ![k] = Tail(@)]
        /\ ack' = [ack EXCEPT ![k] = Nack] /\ link' = link
        /\ blocks' = blocks /\ mappedClients' = mappedClients
    BY DEF SendAck, Goto, SimInv, ThreadsInv, InHand
  <1>2. PICK to \in {"recv", "done"} : /\ pc' = [pc EXCEPT ![k] = to]
                                       /\ to = "done" => link[k] # "open"
    BY DEF SendAck, Goto
  <1>3. /\ pc \in [Conns -> Places] /\ ack = [j \in Conns |-> ack[j]]
        /\ (\E S : req \in [Conns -> Seq(S)]) /\ (\E S : rep \in [Conns -> Seq(S)])
        /\ Carries(k)
    BY DEF SimInv, ThreadsInv, ThreadsType, Functions
  <1>4. Handled(k) /\ ~Handled(k)' /\ pc'[k] = to
    BY <1>1, <1>2, <1>3 DEF Handled
  <1>5. /\ req'[k] = Tail(req[k])
        /\ rep'[k] = IF link[k] = "open" THEN Append(rep[k], ack[k]) ELSE rep[k]
        /\ \A j \in Conns : j # k => /\ req'[j] = req[j] /\ rep'[j] = rep[j]
                                     /\ ack'[j] = ack[j] /\ pc'[j] = pc[j]
    BY <1>1, <1>2, <1>3 DEF SendAck
  <1>6. \A j \in Conns : SysReq'[j] = SysReq[j] /\ SysRep'[j] = SysRep[j]
    <2>1. SysReq'[k] = SysReq[k] /\ SysRep'[k] = SysRep[k]
      BY <1>1, <1>4, <1>5 DEF SysReq, SysRep
    <2>2. ASSUME NEW j \in Conns, j # k PROVE SysReq'[j] = SysReq[j] /\ SysRep'[j] = SysRep[j]
      BY <1>1, <1>5, <2>2 DEF SysReq, SysRep, Handled
    <2>. QED BY <2>1, <2>2
  <1>7. CASE to = "recv"
    <2>1. \A j \in Conns : SysThread'[j] = SysThread[j]
      BY <1>1, <1>4, <1>5, <1>7 DEF SysThread
    <2>. QED BY <1>1, <1>6, <2>1, UnseenStep
  <1>8. CASE to = "done"
    <2>1. SysReq' = SysReq /\ SysRep' = SysRep
      BY <1>6 DEF SysReq, SysRep
    <2>2. SysReq[k] = <<>> /\ link[k] = "closed"
      <3>1. SysReq[k] = Tail(req[k])
        BY <1>4 DEF SysReq
      <3>. QED BY <1>1, <1>2, <1>3, <1>8, <3>1 DEF Carries, SimInv, Functions
    <2>3. SysThread[k] = "recv" /\ SysThread' = [SysThread EXCEPT ![k] = "done"]
      BY <1>1, <1>4, <1>5, <1>8 DEF SysThread
    <2>. QED BY <1>1, <2>1, <2>2, <2>3 DEF System!Disconnect, System!wireVars
  <1>. QED BY <1>7, <1>8

LEMMA RecvEndSeen ==
  ASSUME SimInv, NEW k \in Conns, RecvEnd(k)
  PROVE  System!Disconnect(k)
  <1>1. /\ pc[k] = "recv" /\ pc' = [pc EXCEPT ![k] = "done"] /\ req[k] = <<>> /\ link[k] = "closed"
        /\ req' = req /\ rep' = rep /\ link' = link /\ ack' = ack
        /\ blocks' = blocks /\ mappedClients' = mappedClients
    BY DEF RecvEnd, Goto, wireVars
  <1>2. pc'[k] = "done" /\ \A j \in Conns : j # k => pc'[j] = pc[j]
    BY <1>1 DEF SimInv, ThreadsInv, ThreadsType
  <1>3. SysReq[k] = <<>> /\ SysReq' = SysReq /\ SysRep' = SysRep
    BY <1>1, <1>2 DEF SysReq, SysRep, Handled
  <1>4. SysThread[k] = "recv" /\ SysThread' = [SysThread EXCEPT ![k] = "done"]
    BY <1>1, <1>2 DEF SysThread
  <1>. QED BY <1>1, <1>3, <1>4 DEF System!Disconnect, System!wireVars

LEMMA CritWaitSeen ==
  ASSUME SimInv, NEW k \in Conns, CritWait(k), UNCHANGED clientVars
  PROVE  System!HandleWait(k) \/ UNCHANGED System!vars
  <1>1. CASE /\ Handling(k, "WAIT", "unlock", PlainAck)
             /\ ~(Found(k, Head(req[k]).id) /\ blocks[Head(req[k]).id].rev = Head(req[k]).rev)
             /\ UNCHANGED <<blocks, mappedClients>>
    BY <1>1, HandlingSeen DEF System!HandleWait, Found, System!Found, PlainAck, System!PlainAck
  <1>2. CASE /\ Goto(k, "crit", "asleep")
             /\ UNCHANGED <<blocks, mappedClients, ack, wireVars>>
    <2>1. \A j \in Conns : /\ Handled(j)' <=> Handled(j)
                           /\ pc'[j] = "done" <=> pc[j] = "done"
      BY <1>2 DEF Goto, Handled, SimInv, ThreadsInv, ThreadsType
    <2>. QED BY <1>2, <2>1, MoveUnseen DEF wireVars
  <1>. QED BY <1>1, <1>2 DEF CritWait

LEMMA ThreadSeen ==
  ASSUME SimInv, NEW k \in Conns, ThreadStep(k), UNCHANGED clientVars
  PROVE  System!ServerStep(k) \/ UNCHANGED System!vars
  <1>1. CASE Critical(k)
    BY <1>1, CriticalSeen, CritWaitSeen DEF Critical, System!ServerStep
  <1>2. CASE SendAck(k)
    BY <1>2, SendAckSeen DEF System!ServerStep
  <1>3. CASE RecvEnd(k)
    BY <1>3, RecvEndSeen DEF System!ServerStep
  <1>4. CASE Recv(k) \/ Lock(k) \/ SpuriousWakeup(k) \/ Unlock(k)
    <2>1. /\ UNCHANGED <<blocks, mappedClients, ack, wireVars>>
          /\ \/ Goto(k, "recv", "lock") \/ Goto(k, "lock", "crit") \/ Goto(k, "woken", "crit")
             \/ Goto(k, "asleep", "woken") \/ Goto(k, "unlock", "send")
      BY <1>4 DEF Recv, Lock, SpuriousWakeup, Unlock
    <2>2. \A j \in Conns : /\ Handled(j)' <=> Handled(j)
                           /\ pc'[j] = "done" <=> pc[j] = "done"
      BY <2>1 DEF Goto, Handled, SimInv, ThreadsInv, ThreadsType
    <2>. QED BY <2>1, <2>2, MoveUnseen DEF wireVars
  <1>5. CASE Broadcast(k)
    <2>1. \A j \in Conns : /\ Handled(j)' <=> Handled(j)
                           /\ pc'[j] = "done" <=> pc[j] = "done"
      BY <1>5 DEF Broadcast, Asleep, Handled
    <2>. QED BY <1>5, <2>1, MoveUnseen DEF Broadcast, wireVars
  <1>. QED BY <1>1, <1>2, <1>3, <1>4, <1>5 DEF ThreadStep, Proceed

-----------------------------------------------------------------------------
LEMMA InitSeen == Init => System!Init
  <1>. SUFFICES ASSUME Init PROVE System!Init
    OBVIOUS
  <1>1. /\ req = [k \in Conns |-> <<>>] /\ rep = [k \in Conns |-> <<>>]
        /\ pc = [k \in Conns |-> "recv"]
    BY DEF Init, WireInit, ThreadsInit
  <1>2. /\ SysReq = [k \in Conns |-> <<>>] /\ SysRep = [k \in Conns |-> <<>>]
        /\ SysThread = [k \in Conns |-> "recv"]
    BY <1>1 DEF SysReq, SysRep, SysThread, Handled
  <1>. QED BY <1>2 DEF Init, System!Init, WireInit, System!WireInit, ThreadsInit, System!ServerInit,
              ClientInit, System!ClientInit, Conns, System!Conns, NoCopy, System!NoCopy,
              NewCopy, System!NewCopy, Off, System!Off

LEMMA StepSeen == SimInv /\ [Next]_vars => [System!Next]_System!vars
  <1>. SUFFICES ASSUME SimInv, [Next]_vars PROVE System!Next \/ UNCHANGED System!vars
    OBVIOUS
  <1>1. CASE \E c \in Clients : ClientStep(c) /\ UNCHANGED threadVars
    BY <1>1, ClientSeen DEF System!Next
  <1>2. ASSUME NEW k \in Conns, ThreadStep(k), UNCHANGED clientVars
        PROVE  System!Next \/ UNCHANGED System!vars
    <2>1. System!ServerStep(k) \/ UNCHANGED System!vars
      BY <1>2, ThreadSeen
    <2>. QED BY <1>2, <2>1 DEF System!Next, System!clientVars, clientVars, System!Conns, Conns
  <1>3. CASE UNCHANGED vars
    BY <1>3 DEF vars, wireVars, threadVars, clientVars, System!vars, System!wireVars,
                System!serverVars, System!clientVars, SysReq, SysRep, SysThread, Handled
  <1>. QED BY <1>1, <1>2, <1>3 DEF Next

\* The handler threads, with their mutex, their condition variables and the
\* answers sent after the unlock, do nothing that atomic handlers could not do.
THEOREM ThreadsImplementSystem == Spec => ImplementsSystem
  <1>. QED BY SimInvInit, SimInvStep, InitSeen, StepSeen, PTL
           DEF Spec, ImplementsSystem, System!Spec

-----------------------------------------------------------------------------
(* What is proved of atomic handlers holds of the threads.  Atomic is the   *)
(* system DMThreads implements, with its theorems; no call is late in it    *)
(* and no server ends.                                                      *)

Atomic ==
  INSTANCE DMFaultProofs WITH
    req <- SysReq, rep <- SysRep, thread <- SysThread,
    late <- {}, MaxCrashes <- 0, MaxStarts <- 0, crashes <- 0, cut <- {}, crossed <- {}

\* The theorems of Atomic assume of the constants what DMThreads assumes.
LEMMA AtomicAssumptions ==
  /\ Zero \in Data /\ NoData \notin Data
  /\ Owner \in [Blocks -> Servers]
  /\ Hosted \subseteq Blocks
  /\ MaxRev \in Nat /\ MaxInits \in Nat
  /\ MaxQueue \in Nat \ {0}
  /\ NoBlock \notin Atomic!BlockInfo
  /\ 0 \in Nat
  BY WireAssumption, NoBlockAssumption DEF BlockInfo, Atomic!BlockInfo, Revs, Atomic!Revs

LEMMA SameInit == System!Init => Atomic!Init
  BY DEF System!Init, Atomic!Init, System!WireInit, Atomic!WireInit,
         System!ServerInit, Atomic!ServerInit, System!ClientInit, Atomic!ClientInit,
         System!Conns, Atomic!Conns, System!NoCopy, Atomic!NoCopy,
         System!NewCopy, Atomic!NewCopy, System!Off, Atomic!Off

LEMMA SameNext == [System!Next]_System!vars => [Atomic!Next]_Atomic!vars
  BY DEF System!Conns, Atomic!Conns, System!Calls, Atomic!Calls, System!ShallowRequest,
         Atomic!ShallowRequest, System!WriteRequest, Atomic!WriteRequest, System!Nack,
         Atomic!Nack, System!PlainAck, Atomic!PlainAck, System!ShallowAck,
         Atomic!ShallowAck, System!FullAck, Atomic!FullAck, System!Content, Atomic!Content,
         System!Found, Atomic!Found, System!wireVars, Atomic!wireVars, System!clientVars,
         Atomic!clientVars, System!NewCopy, Atomic!NewCopy, System!NoCopy, Atomic!NoCopy,
         System!Off, Atomic!Off, System!Idle, Atomic!Idle, System!Fault, Atomic!Fault,
         System!Busy, Atomic!Busy, System!Alive, Atomic!Alive, System!Sock, Atomic!Sock,
         System!SetCopy, Atomic!SetCopy, System!Reset, Atomic!Reset, System!CloseAll,
         Atomic!CloseAll, System!DmInit, Atomic!DmInit, System!Store, Atomic!Store,
         System!Exit, Atomic!Exit, System!Send, Atomic!Send, System!BeginMap,
         Atomic!BeginMap, System!BeginUnmap, Atomic!BeginUnmap, System!BeginUpdate,
         Atomic!BeginUpdate, System!BeginWrite, Atomic!BeginWrite, System!BeginWait,
         Atomic!BeginWait, System!Ack, Atomic!Ack, System!Receive, Atomic!Receive,
         System!NullBlock, Atomic!NullBlock, System!Install, Atomic!Install,
         System!ReturnMap, Atomic!ReturnMap, System!ReturnUnmap, Atomic!ReturnUnmap,
         System!ReturnUpdate, Atomic!ReturnUpdate, System!ReturnWrite, Atomic!ReturnWrite,
         System!ReturnWait, Atomic!ReturnWait, System!Begin, Atomic!Begin, System!Return,
         Atomic!Return, System!ClientStep, Atomic!ClientStep, System!serverVars,
         Atomic!serverVars, System!Serving, Atomic!Serving, System!Answer, Atomic!Answer,
         System!HandleMap, Atomic!HandleMap, System!HandleUnmap, Atomic!HandleUnmap,
         System!HandleUpdate, Atomic!HandleUpdate, System!HandleWrite, Atomic!HandleWrite,
         System!HandleWait, Atomic!HandleWait, System!Disconnect, Atomic!Disconnect,
         System!ServerStep, Atomic!ServerStep, System!vars, Atomic!vars, System!Next,
         Atomic!Next

LEMMA SameSpec == System!Spec => Atomic!Spec
  BY SameInit, SameNext, PTL DEF System!Spec, Atomic!Spec

LEMMA ThreadsAreAtomic == Spec => Atomic!Spec
  BY ThreadsImplementSystem, SameSpec, PTL DEF ImplementsSystem

\* An application sees the memory SharedMemory promises from servers that
\* handle their requests in threads, with a mutex, condition variables and
\* answers sent after the unlock: each call takes effect at one instant, and a
\* write succeeds exactly if nobody has written the block since the writer's
\* copy was synchronised.
THEOREM ThreadsImplementMemory == Spec => Atomic!ImplementsMemory
  <1>1. Atomic!Spec => Atomic!ImplementsMemory
    BY AtomicAssumptions, Atomic!SystemImplementsMemory
  <1>. QED BY ThreadsAreAtomic, <1>1, PTL

\* With threads too, a copy with the server's revision derives from the
\* server's content, no copy is ahead, an invalid copy is outdated, and no
\* call dereferences the block of a reply without one.
THEOREM ThreadsKeepCopies ==
  Spec => [](System!Coherent /\ System!NeverAhead /\ System!InvalidIsOutdated /\ System!NoFault)
  <1>1. Atomic!Spec => []Atomic!Coherent
    BY AtomicAssumptions, Atomic!CopiesCoherent
  <1>2. Atomic!Spec => []Atomic!NeverAhead
    BY AtomicAssumptions, Atomic!CopiesNeverAhead
  <1>3. Atomic!Spec => []Atomic!InvalidIsOutdated
    BY AtomicAssumptions, Atomic!InvalidOutdated
  <1>4. Atomic!Spec => []Atomic!NoFault
    BY AtomicAssumptions, Atomic!NoNullDereference
  <1>5. /\ Atomic!Coherent => System!Coherent
        /\ Atomic!NeverAhead => System!NeverAhead
        /\ Atomic!InvalidIsOutdated => System!InvalidIsOutdated
        /\ Atomic!NoFault => System!NoFault
    BY DEF System!Coherent, Atomic!Coherent, System!NeverAhead, Atomic!NeverAhead,
           System!InvalidIsOutdated, Atomic!InvalidIsOutdated, System!NoFault, Atomic!NoFault,
           System!Held, Atomic!Held, System!Alive, Atomic!Alive, System!Idle, Atomic!Idle,
           System!Busy, Atomic!Busy, System!Fault, Atomic!Fault, System!Off, Atomic!Off,
           System!Calls, Atomic!Calls
  <1>. QED BY ThreadsAreAtomic, <1>1, <1>2, <1>3, <1>4, <1>5, PTL

\* A block changes only by a WRITE made from the content it replaces.
SysUpdateKept ==
  \A b \in Blocks : blocks'[b] # blocks[b] =>
    \E k \in System!Conns : /\ SysReq[k] # <<>> /\ SysReq'[k] = Tail(SysReq[k])
                            /\ Head(SysReq[k]).type = "WRITE" /\ Head(SysReq[k]).id = b
                            /\ Head(SysReq[k]).base = blocks[b].data

THEOREM ThreadsLoseNoUpdate == Spec => System!NoLostUpdate
  <1>1. Atomic!Spec => [][Atomic!UpdateKept]_Atomic!vars
    BY AtomicAssumptions, Atomic!UpdatesNotLost DEF Atomic!UpdateKept, Atomic!NoLostUpdate
  <1>2. Atomic!UpdateKept => SysUpdateKept
    BY DEF Atomic!UpdateKept, SysUpdateKept, System!Conns, Atomic!Conns
  <1>3. UNCHANGED Atomic!vars => UNCHANGED System!vars
    BY DEF System!vars, Atomic!vars, System!wireVars, Atomic!wireVars,
           System!serverVars, Atomic!serverVars, System!clientVars, Atomic!clientVars
  <1>4. [Atomic!UpdateKept]_Atomic!vars => [SysUpdateKept]_System!vars
    BY <1>2, <1>3, Zenon
  <1>. QED BY ThreadsAreAtomic, <1>1, <1>4, PTL DEF System!NoLostUpdate, SysUpdateKept

\* The same of the threads themselves: whoever changes a block has the mutex
\* of its server and a WRITE made from the content that is there, however long
\* ago its thread received it.
WriteUnderMutex ==
  \A b \in Blocks : blocks'[b] # blocks[b] =>
    \E k \in Conns : /\ pc[k] = "crit" /\ mutex[k[2]] = k
                     /\ Head(req[k]).type = "WRITE" /\ Head(req[k]).id = b
                     /\ Head(req[k]).base = blocks[b].data

LEMMA WriterInMutex ==
  ASSUME SimInv, [Next]_vars, [SysUpdateKept]_System!vars
  PROVE  [WriteUnderMutex]_vars
  <1>. SUFFICES ASSUME Next, NEW b \in Blocks, blocks'[b] # blocks[b]
                PROVE  \E k \in Conns : /\ pc[k] = "crit" /\ mutex[k[2]] = k
                                        /\ Head(req[k]).type = "WRITE" /\ Head(req[k]).id = b
                                        /\ Head(req[k]).base = blocks[b].data
    BY DEF WriteUnderMutex
  <1>1. PICK k \in Conns : CritWrite(k)
    <2>1. PICK k \in Conns : ThreadStep(k)
      BY DEF Next, threadVars
    <2>. QED BY <2>1 DEF ThreadStep, Proceed, Recv, RecvEnd, Critical, CritMap, CritUnmap,
                         CritUpdate, CritWait, Broadcast, Unlock, SendAck, Lock, SpuriousWakeup
  <1>2. /\ pc[k] = "crit" /\ Head(req[k]).type = "WRITE"
        /\ req' = req /\ pc' = [pc EXCEPT ![k] = "cast"]
    BY <1>1 DEF CritWrite, Handling, Goto, wireVars
  <1>3. Head(req[k]).id = b
    BY <1>1 DEF CritWrite
  <1>4. PICK j \in Conns : /\ SysReq[j] # <<>> /\ SysReq'[j] = Tail(SysReq[j])
                           /\ Head(SysReq[j]).base = blocks[b].data
    <2>1. blocks' # blocks
      OBVIOUS
    <2>2. SysUpdateKept
      BY <2>1 DEF System!vars, System!serverVars
    <2>. QED BY <2>2 DEF SysUpdateKept, System!Conns, Conns
  <1>5. j = k
    <2>. SUFFICES ASSUME j # k PROVE FALSE
      OBVIOUS
    <2>1. Handled(j)' <=> Handled(j)
      BY <1>2 DEF Handled, SimInv, ThreadsInv, ThreadsType
    <2>2. SysReq'[j] = SysReq[j]
      BY <1>2, <2>1 DEF SysReq
    <2>3. PICK S : req \in [Conns -> Seq(S)]
      BY DEF SimInv, ThreadsInv, ThreadsType
    <2>4. PICK s : s = SysReq[j]
      OBVIOUS
    <2>5. s \in Seq(S)
      <3>1. req[j] \in Seq(S)
        BY <2>3
      <3>2. CASE ~Handled(j)
        BY <2>4, <3>1, <3>2 DEF SysReq
      <3>3. CASE Handled(j)
        <4>1. req[j] # <<>>
          BY <3>3 DEF Handled, SimInv, ThreadsInv, InHand
        <4>2. Tail(req[j]) \in Seq(S)
          BY <3>1, <4>1
        <4>. QED BY <2>4, <3>3, <4>2 DEF SysReq
      <3>. QED BY <3>2, <3>3
    <2>6. s # <<>> /\ Tail(s) = s
      BY <1>4, <2>2, <2>4
    <2>. QED BY <2>5, <2>6
  <1>6. SysReq[k] = req[k]
    BY <1>2 DEF SysReq, Handled
  <1>7. mutex[k[2]] = k
    BY <1>2 DEF SimInv, ThreadsInv, Exclusive
  <1>. QED BY <1>2, <1>3, <1>4, <1>5, <1>6, <1>7

THEOREM WritesUnderMutex == Spec => [][WriteUnderMutex]_vars
  <1>1. Spec => []SimInv
    BY SimInvInit, SimInvStep, PTL DEF Spec
  <1>2. Spec => [][SysUpdateKept]_System!vars
    BY ThreadsLoseNoUpdate DEF System!NoLostUpdate, SysUpdateKept
  <1>3. SimInv /\ [Next]_vars /\ [SysUpdateKept]_System!vars => [WriteUnderMutex]_vars
    BY WriterInMutex
  <1>. QED BY <1>1, <1>2, <1>3, PTL DEF Spec

\* Between its calls a client agrees with the server on what it has mapped,
\* whatever the threads of the server are in the middle of.
THEOREM ThreadsAgree == Spec => []System!AssociationsAgree
  <1>1. Atomic!Spec => []Atomic!AssociationsAgree
    BY AtomicAssumptions, Atomic!AssociationsKept
  <1>2. Atomic!AssociationsAgree => System!AssociationsAgree
    BY DEF System!AssociationsAgree, Atomic!AssociationsAgree, System!Idle, Atomic!Idle,
           System!Sock, Atomic!Sock
  <1>. QED BY ThreadsAreAtomic, <1>1, <1>2, PTL

-----------------------------------------------------------------------------
(* Types of the threads' system.  What a connection carries is typed as far *)
(* as DMSystem sees it; a request being handled and an answer that nobody   *)
(* will read are the threads' own.                                          *)

ThreadedTypeOK == WireTypeOK /\ ThreadsTypeOK /\ ClientTypeOK

SeenTypes ==
  /\ SysReq \in [Conns -> Seq(Request)] /\ SysRep \in [Conns -> Seq(Reply)]
  /\ link \in [Conns -> {"new", "open", "closed"}]
  /\ blocks \in [Blocks -> [rev : Revs, data : Data]]
  /\ mappedClients \in [Blocks -> SUBSET Conns]
  /\ ClientTypeOK

OwnTypes == req \in [Conns -> Seq(Request)] /\ ack \in [Conns -> Reply]

LEMMA TypesSeen == Atomic!Inductive => SeenTypes
  <1>. SUFFICES ASSUME Atomic!TypeOK PROVE SeenTypes
    BY DEF Atomic!Inductive, Atomic!TypeInv
  <1>1. Conns = Atomic!Conns /\ Revs = Atomic!Revs /\ Calls = Atomic!Calls
    BY DEF Conns, Atomic!Conns, Revs, Atomic!Revs, Calls, Atomic!Calls
  <1>2. Request = Atomic!Request /\ Reply = Atomic!Reply
    BY <1>1 DEF Request, Atomic!Request, Reply, Atomic!Reply, BlockInfo, Atomic!BlockInfo
  <1>3. ClientTypeOK
    BY <1>1 DEF Atomic!TypeOK, Atomic!ClientTypeOK, ClientTypeOK, Copy, Atomic!Copy,
                Off, Atomic!Off, Idle, Atomic!Idle, Fault, Atomic!Fault
  <1>. QED BY <1>1, <1>2, <1>3 DEF SeenTypes, Atomic!TypeOK, Atomic!WireTypeOK, Atomic!ServerTypeOK

LEMMA FromHeadAndTail ==
  ASSUME NEW S, NEW T, NEW s \in Seq(S), s # <<>>, Head(s) \in T, Tail(s) \in Seq(T)
  PROVE  s \in Seq(T)
  <1>1. ASSUME NEW i \in 1 .. Len(s) PROVE s[i] \in T
    <2>1. CASE i = 1
      BY <2>1
    <2>2. CASE i # 1
      <3>1. PICK j \in Nat : j + 1 = i
        BY <2>2
      <3>2. j \in 1 .. Len(Tail(s)) /\ Tail(s)[j] = s[i]
        BY <2>2, <3>1
      <3>. QED BY <3>2
    <2>. QED BY <2>1, <2>2
  <1>. QED BY <1>1

\* The answers of a critical section.
LEMMA AnswersTyped ==
  ASSUME NEW m \in Request, NEW b \in [Blocks -> [rev : Revs, data : Data]]
  PROVE  /\ Nack \in Reply /\ PlainAck \in Reply
         /\ FullAck(m.id, b[m.id]) \in Reply /\ ShallowAck(m.id, b[m.id]) \in Reply
  <1>1. PICK c \in [rev : Revs, data : Data] : c = b[m.id]
    BY DEF Request
  <1>. QED BY <1>1 DEF Request, Nack, PlainAck, FullAck, ShallowAck, Reply, BlockInfo

LEMMA ClientKeepsTypes ==
  ASSUME SimInv, OwnTypes, SeenTypes', NEW c \in Clients, ClientStep(c), UNCHANGED threadVars
  PROVE  OwnTypes'
  <1>1. ack' = ack /\ pc' = pc
    BY DEF threadVars
  <1>2. PICK S : req' \in [Conns -> Seq(S)]
    BY ClientAppends DEF SimInv, ThreadsInv
  <1>3. \A k \in Conns : req[k] # <<>> => req'[k] # <<>> /\ Head(req'[k]) = Head(req[k])
    BY ClientAppends DEF SimInv, ThreadsInv
  <1>4. ASSUME NEW k \in Conns PROVE req'[k] \in Seq(Request)
    <2>1. SysReq'[k] \in Seq(Request)
      BY DEF SeenTypes
    <2>2. CASE ~Handled(k)'
      <3>1. SysReq'[k] = req'[k]
        BY <2>2 DEF SysReq
      <3>. QED BY <2>1, <3>1
    <2>3. CASE Handled(k)'
      <3>1. Tail(req'[k]) \in Seq(Request)
        BY <2>1, <2>3 DEF SysReq
      <3>2. req[k] # <<>>
        BY <1>1, <2>3 DEF Handled, SimInv, ThreadsInv, InHand
      <3>3. Head(req[k]) \in Request
        BY <3>2 DEF OwnTypes
      <3>. QED BY <1>2, <1>3, <3>1, <3>2, <3>3, FromHeadAndTail
    <2>. QED BY <2>2, <2>3
  <1>. QED BY <1>1, <1>2, <1>4 DEF OwnTypes

LEMMA ThreadKeepsTypes ==
  ASSUME SimInv, OwnTypes, SeenTypes, NEW k \in Conns, ThreadStep(k)
  PROVE  OwnTypes'
  <1>1. CASE SendAck(k)
    <2>1. req[k] # <<>> /\ req[k] \in Seq(Request)
      BY <1>1 DEF SendAck, Goto, SimInv, ThreadsInv, InHand, OwnTypes
    <2>2. Tail(req[k]) \in Seq(Request) /\ Nack \in Reply
      BY <2>1 DEF Nack, Reply
    <2>3. req' = [req EXCEPT ![k] = Tail(req[k])] /\ ack' = [ack EXCEPT ![k] = Nack]
      BY <1>1 DEF SendAck
    <2>. QED BY <2>2, <2>3 DEF OwnTypes
  <1>2. CASE Critical(k)
    <2>1. /\ req' = req
          /\ ack' = ack \/ \E a : /\ ack' = [ack EXCEPT ![k] = a]
                                  /\ a \in {Nack, PlainAck,
                                            FullAck(Head(req[k]).id, blocks[Head(req[k]).id]),
                                            ShallowAck(Head(req[k]).id, blocks[Head(req[k]).id])}
      BY <1>2 DEF Critical, CritMap, CritUnmap, CritUpdate, CritWrite, CritWait, Handling, wireVars
    <2>2. pc[k] = "crit"
      BY <1>2 DEF Critical, CritMap, CritUnmap, CritUpdate, CritWrite, CritWait, Handling, Goto
    <2>3. req[k] # <<>> /\ req[k] \in Seq(Request)
      BY <2>2 DEF SimInv, ThreadsInv, InHand, OwnTypes
    <2>4. PICK m \in Request : m = Head(req[k])
      BY <2>3
    <2>5. /\ Nack \in Reply /\ PlainAck \in Reply
          /\ FullAck(m.id, blocks[m.id]) \in Reply /\ ShallowAck(m.id, blocks[m.id]) \in Reply
      BY AnswersTyped DEF SeenTypes
    <2>6. ack' = ack \/ \E a \in Reply : ack' = [ack EXCEPT ![k] = a]
      BY <2>1, <2>4, <2>5, Zenon
    <2>. QED BY <2>1, <2>6 DEF OwnTypes
  <1>3. CASE req' = req /\ ack' = ack
    BY <1>3 DEF OwnTypes
  <1>. QED BY <1>1, <1>2, <1>3 DEF ThreadStep, Proceed, Recv, RecvEnd, Broadcast, Unlock, Lock,
                                   SpuriousWakeup, wireVars

LEMMA OwnTypesInit == Init => OwnTypes
  <1>1. Nack \in Reply
    BY DEF Nack, Reply
  <1>. QED BY <1>1 DEF Init, WireInit, ThreadsInit, OwnTypes

LEMMA OwnTypesStep ==
  SimInv /\ SeenTypes /\ OwnTypes /\ [Next]_vars /\ SeenTypes' => OwnTypes'
  <1>. SUFFICES ASSUME SimInv, SeenTypes, OwnTypes, [Next]_vars, SeenTypes'
                PROVE  OwnTypes'
    OBVIOUS
  <1>1. CASE UNCHANGED vars
    BY <1>1 DEF vars, wireVars, threadVars, OwnTypes
  <1>. QED BY <1>1, ClientKeepsTypes, ThreadKeepsTypes DEF Next

LEMMA TypesTogether == SimInv /\ SeenTypes /\ OwnTypes => ThreadedTypeOK
  <1>. SUFFICES ASSUME SimInv, SeenTypes, OwnTypes PROVE ThreadedTypeOK
    OBVIOUS
  <1>1. ASSUME NEW k \in Conns PROVE rep[k] \in Seq(Reply)
    <2>1. CASE Handled(k)
      <3>1. req[k] # <<>>
        BY <2>1 DEF Handled, SimInv, ThreadsInv, InHand
      <3>2. rep[k] = <<>>
        BY <3>1 DEF SimInv, Carries
      <3>. QED BY <3>2
    <2>2. CASE ~Handled(k)
      <3>1. SysRep[k] = rep[k]
        BY <2>2, SeenPlain
      <3>. QED BY <3>1 DEF SeenTypes
    <2>. QED BY <2>1, <2>2
  <1>2. rep \in [Conns -> Seq(Reply)]
    BY <1>1 DEF SimInv, Functions
  <1>3. WireTypeOK
    BY <1>2 DEF WireTypeOK, SeenTypes, OwnTypes
  <1>4. ThreadsTypeOK
    BY DEF ThreadsTypeOK, SeenTypes, OwnTypes, SimInv, ThreadsInv, ThreadsType, Places
  <1>. QED BY <1>3, <1>4 DEF ThreadedTypeOK, SeenTypes

\* Every variable of clients and threads stays in its set: no revision passes
\* the bound, and a thread has only answers of the protocol ready, for clients
\* that are gone too.
THEOREM ThreadedTypes == Spec => []ThreadedTypeOK
  <1>1. Spec => []SimInv
    BY SimInvInit, SimInvStep, PTL DEF Spec
  <1>2. Atomic!Spec => []Atomic!Inductive
    BY AtomicAssumptions, Atomic!InductiveInvariant
  <1>3. Spec => []SeenTypes
    BY ThreadsAreAtomic, <1>2, TypesSeen, PTL
  <1>4. Spec => []OwnTypes
    BY <1>1, <1>3, OwnTypesInit, OwnTypesStep, PTL DEF Spec
  <1>. QED BY <1>1, <1>3, <1>4, TypesTogether, PTL
=============================================================================
