-------------------------- MODULE HandshakeProofs --------------------------
(***************************************************************************)
(* Safety of the handshake, for any number of clients and servers: types,  *)
(* who gets a thread, that a socket has one, and who can end a server.     *)
(* The invariant follows a connection: queued, in the handshake of its     *)
(* accept loop, open, and closed by either side.                           *)
(***************************************************************************)
EXTENDS Handshake, TLAPS

\* The backlog of s, and the connection its accept loop is busy with.
QueueOK(s) ==
  /\ \A i \in 1 .. Len(backlog[s]) : step[<<backlog[s][i], s>>] = "queued"
  /\ \A i, j \in 1 .. Len(backlog[s]) : backlog[s][i] = backlog[s][j] => i = j
  /\ talking[s] # Nobody => step[<<talking[s], s>>] \in {"M1", "M2"}

\* Connection k.
ConnOK(k) ==
  /\ k \in threads => step[k] \in {"M3", "open"} /\ k \notin Wrong \cup NoKey
  /\ step[k] \in {"M3", "open"} => k \in threads \cup left \cup short \/ k[2] \in ended
  /\ step[k] = "M2" => k \notin NoKey
  /\ k \in sockets => step[k] = "open"
  /\ k \in left => \/ stage[k[1]] = "gone"
                   \/ stage[k[1]] = "failed" /\ k \notin sockets

HandshakeInv ==
  TypeOK /\ EndedByServed /\ (\A s \in Servers : QueueOK(s)) /\ \A k \in Conns : ConnOK(k)

-----------------------------------------------------------------------------
LEMMA ConnParts ==
  ASSUME NEW k \in Conns
  PROVE  k[1] \in Clients /\ k[2] \in Servers /\ k = <<k[1], k[2]>>
  BY DEF Conns

LEMMA HereFacts ==
  ASSUME TypeOK, NEW c \in Clients
  PROVE  /\ Here(c) \in Conns /\ Here(c)[1] = c /\ Here(c)[2] \in Servers
         /\ at[c] \in 1 .. Len(Order) /\ Len(Order) \in Nat \ {0}
  <1>1. Order \in Seq(Servers) /\ Order # <<>>
    BY HandshakeAssumption
  <1>2. at[c] \in 1 .. Len(Order)
    BY DEF TypeOK
  <1>3. Order[at[c]] \in Servers /\ Len(Order) \in Nat \ {0}
    BY <1>1, <1>2
  <1>. QED BY <1>2, <1>3 DEF Here, Conns

LEMMA Queues ==
  ASSUME NEW q \in Seq(Clients), NEW c \in Clients
  PROVE  /\ Append(q, c) \in Seq(Clients) /\ Len(q) \in Nat
         /\ Len(Append(q, c)) = Len(q) + 1 /\ Append(q, c)[Len(q) + 1] = c
         /\ \A i \in 1 .. Len(q) : Append(q, c)[i] = q[i] /\ q[i] \in Clients
         /\ q # <<>> => /\ Head(q) \in Clients /\ Head(q) = q[1] /\ Tail(q) \in Seq(Clients)
                        /\ Len(q) >= 1 /\ Len(Tail(q)) = Len(q) - 1
                        /\ \A i \in 1 .. Len(q) - 1 : Tail(q)[i] = q[i + 1]
  OBVIOUS

\* Where a client or server leaves the queue of s alone.
LEMMA QueueSame ==
  ASSUME NEW s \in Servers, QueueOK(s), backlog'[s] = backlog[s], talking'[s] = talking[s],
         \A c : step[<<c, s>>] = "queued" => step'[<<c, s>>] = "queued",
         talking[s] # Nobody /\ step[<<talking[s], s>>] \in {"M1", "M2"} =>
           step'[<<talking[s], s>>] \in {"M1", "M2"}
  PROVE  QueueOK(s)'
  BY DEF QueueOK

\* Who has left stays gone, and a connection never starts anew.
LEMMA EndedSame ==
  ASSUME TypeOK, EndedByServed, ended' = ended, left \subseteq left',
         \A k \in Conns : step[k] # "none" => step'[k] # "none"
  PROVE  EndedByServed'
  BY DEF EndedByServed, TypeOK

-----------------------------------------------------------------------------
LEMMA InvInit == Init => HandshakeInv
  <1>. SUFFICES ASSUME Init PROVE HandshakeInv
    OBVIOUS
  <1>1. TypeOK
    <2>1. Len(Order) \in Nat \ {0}
      BY HandshakeAssumption
    <2>. QED BY <2>1 DEF Init, TypeOK
  <1>2. \A s \in Servers : QueueOK(s)
    BY DEF Init, QueueOK
  <1>3. \A k \in Conns : ConnOK(k)
    BY DEF Init, ConnOK
  <1>4. EndedByServed
    BY DEF Init, EndedByServed
  <1>. QED BY <1>1, <1>2, <1>3, <1>4 DEF HandshakeInv

LEMMA DmInitKeeps ==
  ASSUME HandshakeInv, NEW c \in Clients, DmInit(c)
  PROVE  HandshakeInv'
  <1>1. /\ stage[c] = "off" /\ stage' = [stage EXCEPT ![c] = "init"]
        /\ UNCHANGED <<up, backlog, talking, threads, serverEnd, at, step, left, sockets>>
    BY DEF DmInit, Now, clientOnly
  <1>2. TypeOK'
    BY <1>1 DEF HandshakeInv, TypeOK, serverEnd
  <1>3. ASSUME NEW s \in Servers PROVE QueueOK(s)'
    BY <1>1, QueueSame DEF HandshakeInv
  <1>4. ASSUME NEW k \in Conns PROVE ConnOK(k)'
    <2>1. k[1] # c => stage'[k[1]] = stage[k[1]]
      BY <1>1, ConnParts DEF HandshakeInv, TypeOK
    <2>. QED BY <1>1, <2>1 DEF HandshakeInv, ConnOK, serverEnd
  <1>5. EndedByServed'
    BY <1>1, EndedSame DEF HandshakeInv, serverEnd
  <1>. QED BY <1>2, <1>3, <1>4, <1>5 DEF HandshakeInv

LEMMA ConnectKeeps ==
  ASSUME HandshakeInv, NEW c \in Clients, Connect(c)
  PROVE  HandshakeInv'
  <1>1. PICK k \in Conns : k = Here(c) /\ k[1] = c /\ k[2] \in Servers /\ k = <<c, k[2]>>
    BY HereFacts, ConnParts DEF HandshakeInv
  <1>2. PICK s \in Servers : s = k[2]
    BY <1>1
  <1>3. /\ step[k] = "none" /\ step' = [step EXCEPT ![k] = "queued"]
        /\ backlog' = [backlog EXCEPT ![s] = Append(@, c)]
        /\ UNCHANGED <<up, talking, threads, asleep, short, ended, stage, at, left, sockets>>
    BY <1>1, <1>2 DEF Connect, Goes, serverEnd
  <1>4. backlog[s] \in Seq(Clients) /\ step \in [Conns -> {"none", "queued", "M1", "M2", "M3", "open", "refused"}]
    BY DEF HandshakeInv, TypeOK
  <1>5. TypeOK'
    BY <1>3, <1>4, Queues DEF HandshakeInv, TypeOK
  <1>6. \A j \in Conns : j # k => step'[j] = step[j]
    BY <1>3, <1>4
  <1>7. step'[k] = "queued"
    BY <1>3, <1>4
  <1>8. ASSUME NEW t \in Servers PROVE QueueOK(t)'
    <2>1. QueueOK(t) /\ backlog[t] \in Seq(Clients)
      BY DEF HandshakeInv, TypeOK
    <2>2. CASE t # s
      <3>1. backlog'[t] = backlog[t]
        BY <1>3, <2>2 DEF HandshakeInv, TypeOK
      <3>2. \A d : step'[<<d, t>>] = step[<<d, t>>]
        BY <1>1, <1>2, <1>3, <1>4, <2>2
      <3>. QED BY <1>3, <2>1, <3>1, <3>2, QueueSame
    <2>3. CASE t = s
      <3>1. PICK q \in Seq(Clients) : q = backlog[s]
        BY <1>4
      <3>2. backlog'[s] = Append(q, c)
        BY <1>3, <3>1 DEF HandshakeInv, TypeOK
      <3>3. \A i \in 1 .. Len(q) : q[i] \in Clients /\ <<q[i], s>> \in Conns /\ step[<<q[i], s>>] = "queued"
        BY <2>1, <2>3, <3>1, Queues DEF QueueOK, Conns
      <3>4. \A i \in 1 .. Len(q) : q[i] # c
        BY <1>1, <1>2, <1>3, <3>3
      <3>5. \A i \in 1 .. Len(q) + 1 : step'[<<Append(q, c)[i], s>>] = "queued"
        BY <1>1, <1>2, <1>6, <1>7, <3>3, Queues
      <3>6. \A i, j \in 1 .. Len(q) + 1 : Append(q, c)[i] = Append(q, c)[j] => i = j
        <4>1. \A i, j \in 1 .. Len(q) : q[i] = q[j] => i = j
          BY <2>1, <2>3, <3>1 DEF QueueOK
        <4>. QED BY <3>4, <4>1, Queues
      <3>7. talking[s] # Nobody => step'[<<talking[s], s>>] \in {"M1", "M2"}
        <4>1. talking[s] # Nobody => talking[s] \in Clients /\ step[<<talking[s], s>>] \in {"M1", "M2"}
          BY <2>1, <2>3 DEF QueueOK, HandshakeInv, TypeOK
        <4>2. talking[s] # Nobody => <<talking[s], s>> \in Conns /\ <<talking[s], s>> # k
          BY <1>3, <4>1 DEF Conns
        <4>. QED BY <1>6, <4>1, <4>2
      <3>8. Len(backlog'[s]) = Len(q) + 1 /\ talking' = talking
        BY <1>3, <3>2, Queues
      <3>. QED BY <2>3, <3>2, <3>5, <3>6, <3>7, <3>8 DEF QueueOK
    <2>. QED BY <2>2, <2>3
  <1>9. ASSUME NEW j \in Conns PROVE ConnOK(j)'
    BY <1>3, <1>6, <1>7 DEF HandshakeInv, ConnOK
  <1>10. EndedByServed'
    <2>1. \A j \in Conns : step[j] # "none" => step'[j] # "none"
      BY <1>6, <1>7
    <2>. QED BY <1>3, <2>1, EndedSame DEF HandshakeInv
  <1>. QED BY <1>5, <1>8, <1>9, <1>10 DEF HandshakeInv

\* Steps that leave the queues alone.
LEMMA ClientKeeps ==
  ASSUME HandshakeInv, TypeOK', NEW k \in Conns, UNCHANGED <<backlog, talking, ended>>,
         left \subseteq left', \A j \in Conns : j # k => step'[j] = step[j],
         \/ step'[k] = step[k]
         \/ step[k] = "M1" /\ step'[k] = "M2"
         \/ step[k] = "M3" /\ step'[k] = "open",
         \A j \in Conns : ConnOK(j)'
  PROVE  HandshakeInv'
  <1>1. ASSUME NEW s \in Servers PROVE QueueOK(s)'
    <2>1. QueueOK(s) /\ talking[s] \in Clients \cup {Nobody} /\ backlog[s] \in Seq(Clients)
      BY DEF HandshakeInv, TypeOK
    <2>2. \A i \in 1 .. Len(backlog[s]) : <<backlog[s][i], s>> \in Conns
      BY <2>1, Queues DEF Conns
    <2>3. talking[s] # Nobody => <<talking[s], s>> \in Conns
      BY <2>1 DEF Conns
    <2>. QED BY <2>1, <2>2, <2>3 DEF QueueOK
  <1>2. EndedByServed'
    BY EndedSame DEF HandshakeInv
  <1>. QED BY <1>1, <1>2 DEF HandshakeInv

LEMMA FailKeeps ==
  ASSUME HandshakeInv, NEW c \in Clients, Fail(c)
  PROVE  HandshakeInv'
  <1>1. PICK k \in Conns : k = Here(c) /\ k[1] = c
    BY HereFacts DEF HandshakeInv
  <1>2. /\ stage[c] = "init" /\ step[k] \in {"none", "queued", "M1", "refused"}
        /\ stage' = [stage EXCEPT ![c] = "failed"] /\ left' = left \cup {k}
        /\ UNCHANGED <<up, backlog, talking, threads, asleep, short, ended, at, step, sockets>>
    BY <1>1 DEF Fail, Now, clientOnly, serverEnd
  <1>3. TypeOK'
    BY <1>2 DEF HandshakeInv, TypeOK
  <1>4. ASSUME NEW j \in Conns PROVE ConnOK(j)'
    <2>1. stage'[j[1]] = IF j[1] = c THEN "failed" ELSE stage[j[1]]
      BY <1>2, ConnParts DEF HandshakeInv, TypeOK
    <2>2. ConnOK(j) /\ ConnOK(k)
      BY DEF HandshakeInv
    <2>. QED BY <1>1, <1>2, <2>1, <2>2 DEF ConnOK
  <1>. QED BY <1>2, <1>3, <1>4, ClientKeeps

LEMMA SendM2Keeps ==
  ASSUME HandshakeInv, NEW c \in Clients, SendM2(c)
  PROVE  HandshakeInv'
  <1>1. PICK k \in Conns : k = Here(c) /\ k[1] = c
    BY HereFacts DEF HandshakeInv
  <1>2. /\ step[k] = "M1" /\ k \notin NoKey /\ step' = [step EXCEPT ![k] = "M2"]
        /\ UNCHANGED <<up, backlog, talking, threads, asleep, short, ended, stage, at, left, sockets>>
    BY <1>1 DEF SendM2, Goes, clientOnly, serverEnd
  <1>3. TypeOK' /\ step'[k] = "M2" /\ \A j \in Conns : j # k => step'[j] = step[j]
    BY <1>2 DEF HandshakeInv, TypeOK
  <1>4. \A j \in Conns : ConnOK(j)'
    BY <1>2, <1>3 DEF HandshakeInv, ConnOK
  <1>. QED BY <1>2, <1>3, <1>4, ClientKeeps

LEMMA ReceiveM3Keeps ==
  ASSUME HandshakeInv, NEW c \in Clients, ReceiveM3(c)
  PROVE  HandshakeInv'
  <1>1. PICK k \in Conns : k = Here(c) /\ k[1] = c
    BY HereFacts DEF HandshakeInv
  <1>2. /\ stage[c] = "init" /\ step[k] = "M3" /\ step' = [step EXCEPT ![k] = "open"]
        /\ sockets' = sockets \cup {k} /\ stage' \in {stage, [stage EXCEPT ![c] = "ready"]}
        /\ UNCHANGED <<up, backlog, talking, threads, asleep, short, ended, left>>
    BY <1>1 DEF ReceiveM3, Connected, Now, Goes, clientOnly, serverEnd
  <1>3. at' \in [Clients -> 1 .. Len(Order)]
    <2>1. at[c] \in 1 .. Len(Order) /\ Len(Order) \in Nat \ {0}
      BY HereFacts DEF HandshakeInv
    <2>2. \/ at' = at
          \/ at[c] # Len(Order) /\ at' = [at EXCEPT ![c] = at[c] + 1]
      <3>1. Connected(c)
        BY DEF ReceiveM3
      <3>2. IF at[c] = Len(Order) THEN Now(c, "ready") /\ UNCHANGED at
                                  ELSE at' = [at EXCEPT ![c] = @ + 1] /\ UNCHANGED stage
        BY <3>1 DEF Connected
      <3>. QED BY <3>2
    <2>3. at[c] # Len(Order) => at[c] + 1 \in 1 .. Len(Order)
      BY <2>1
    <2>. QED BY <2>2, <2>3 DEF HandshakeInv, TypeOK
  <1>4. TypeOK'
    BY <1>2, <1>3 DEF HandshakeInv, TypeOK
  <1>5. step'[k] = "open" /\ \A j \in Conns : j # k => step'[j] = step[j]
    BY <1>2 DEF HandshakeInv, TypeOK
  <1>6. ASSUME NEW j \in Conns PROVE ConnOK(j)'
    <2>1. j[1] = c => j \notin left
      BY <1>2 DEF HandshakeInv, ConnOK
    <2>2. j[1] # c => stage'[j[1]] = stage[j[1]]
      BY <1>2, ConnParts DEF HandshakeInv, TypeOK
    <2>3. ConnOK(j)
      BY DEF HandshakeInv
    <2>. QED BY <1>1, <1>2, <1>5, <2>1, <2>2, <2>3 DEF ConnOK
  <1>. QED BY <1>2, <1>4, <1>5, <1>6, ClientKeeps

LEMMA ClientGoneKeeps ==
  ASSUME HandshakeInv, NEW c \in Clients, Exit(c) \/ Vanish(c)
  PROVE  HandshakeInv'
  <1>1. /\ stage' = [stage EXCEPT ![c] = "gone"]
        /\ left \subseteq left' /\ left' \subseteq Conns
        /\ \A j \in left' : j \in left \/ j[1] = c
        /\ UNCHANGED <<up, backlog, talking, threads, asleep, short, ended, at, step, sockets>>
    BY DEF Exit, Vanish, Now, clientOnly, serverEnd, HandshakeInv, TypeOK
  <1>2. TypeOK'
    BY <1>1 DEF HandshakeInv, TypeOK
  <1>3. ASSUME NEW j \in Conns PROVE ConnOK(j)'
    <2>1. stage'[j[1]] = IF j[1] = c THEN "gone" ELSE stage[j[1]]
      BY <1>1, ConnParts DEF HandshakeInv, TypeOK
    <2>2. ConnOK(j)
      BY DEF HandshakeInv
    <2>. QED BY <1>1, <2>1, <2>2 DEF ConnOK
  <1>4. CASE Conns = {}
    BY <1>1, <1>2, <1>3, <1>4 DEF HandshakeInv, QueueOK, Conns, EndedByServed
  <1>5. CASE Conns # {}
    BY <1>1, <1>2, <1>3, <1>5, ClientKeeps
  <1>. QED BY <1>4, <1>5

-----------------------------------------------------------------------------
LEMMA AcceptKeeps ==
  ASSUME HandshakeInv, NEW s \in Servers, Accept(s)
  PROVE  HandshakeInv'
  <1>1. PICK q \in Seq(Clients) : q = backlog[s] /\ q # <<>>
    BY DEF Accept, HandshakeInv, TypeOK
  <1>2. PICK c \in Clients : c = Head(q) /\ c = q[1] /\ Len(q) \in Nat /\ Len(q) >= 1
    BY <1>1, Queues
  <1>3. PICK k \in Conns : k = <<c, s>>
    BY DEF Conns
  <1>4. /\ talking' = [talking EXCEPT ![s] = c] /\ backlog' = [backlog EXCEPT ![s] = Tail(q)]
        /\ step' = [step EXCEPT ![k] = "M1"]
        /\ UNCHANGED <<up, stage, at, left, sockets, threads, asleep, short, ended>>
    BY <1>1, <1>2, <1>3 DEF Accept, Goes, serverEnd
  <1>5. QueueOK(s) /\ step[k] = "queued"
    <2>1. QueueOK(s)
      BY DEF HandshakeInv
    <2>2. \A i \in 1 .. Len(q) : step[<<q[i], s>>] = "queued"
      BY <1>1, <2>1 DEF QueueOK
    <2>3. 1 \in 1 .. Len(q)
      BY <1>2
    <2>. QED BY <1>2, <1>3, <2>1, <2>2, <2>3
  <1>6. /\ step'[k] = "M1" /\ \A j \in Conns : j # k => step'[j] = step[j]
        /\ backlog'[s] = Tail(q) /\ talking'[s] = c /\ Tail(q) \in Seq(Clients)
        /\ \A t \in Servers : t # s => backlog'[t] = backlog[t] /\ talking'[t] = talking[t]
    BY <1>1, <1>4, Queues DEF HandshakeInv, TypeOK
  <1>7. TypeOK'
    BY <1>4, <1>6 DEF HandshakeInv, TypeOK
  <1>8. ASSUME NEW j \in Conns PROVE ConnOK(j)'
    BY <1>4, <1>5, <1>6 DEF HandshakeInv, ConnOK
  <1>9. ASSUME NEW t \in Servers PROVE QueueOK(t)'
    <2>1. CASE t # s
      <3>1. \A d : step'[<<d, t>>] = step[<<d, t>>]
        BY <1>3, <1>4, <2>1 DEF HandshakeInv, TypeOK
      <3>2. QueueOK(t) /\ backlog'[t] = backlog[t] /\ talking'[t] = talking[t]
        BY <1>6, <2>1 DEF HandshakeInv
      <3>. QED BY <3>1, <3>2, QueueSame
    <2>2. CASE t = s
      <3>1. /\ Len(Tail(q)) = Len(q) - 1
            /\ \A i \in 1 .. Len(q) - 1 : Tail(q)[i] = q[i + 1] /\ q[i + 1] \in Clients
        <4>1. \A i \in 1 .. Len(q) - 1 : i + 1 \in 1 .. Len(q)
          BY <1>2
        <4>. QED BY <1>1, <4>1, Queues
      <3>2. \A i, j \in 1 .. Len(q) : q[i] = q[j] => i = j
        BY <1>1, <1>5 DEF QueueOK
      <3>3. \A i \in 1 .. Len(q) : step[<<q[i], s>>] = "queued"
        BY <1>1, <1>5 DEF QueueOK
      <3>4. \A i \in 1 .. Len(q) - 1 : q[i + 1] # c
        BY <1>2, <3>2
      <3>5. \A i \in 1 .. Len(q) - 1 : step'[<<Tail(q)[i], s>>] = "queued"
        <4>1. SUFFICES ASSUME NEW i \in 1 .. Len(q) - 1 PROVE step'[<<q[i + 1], s>>] = "queued"
          BY <3>1
        <4>2. i + 1 \in 1 .. Len(q) /\ <<q[i + 1], s>> \in Conns /\ <<q[i + 1], s>> # k
          BY <1>2, <1>3, <3>1, <3>4 DEF Conns
        <4>. QED BY <1>6, <3>3, <4>2
      <3>6. ASSUME NEW i \in 1 .. Len(q) - 1, NEW j \in 1 .. Len(q) - 1, Tail(q)[i] = Tail(q)[j]
            PROVE  i = j
        <4>1. i + 1 \in 1 .. Len(q) /\ j + 1 \in 1 .. Len(q)
          BY <1>2
        <4>2. q[i + 1] = q[j + 1]
          BY <3>1, <3>6
        <4>3. i + 1 = j + 1
          BY <3>2, <4>1, <4>2
        <4>. QED BY <1>2, <4>3
      <3>7. Len(backlog'[s]) = Len(q) - 1 /\ step'[<<talking'[s], s>>] = "M1"
        BY <1>3, <1>6, <3>1
      <3>8. \A i \in 1 .. Len(backlog'[s]) : step'[<<backlog'[s][i], s>>] = "queued"
        BY <1>6, <3>5, <3>7
      <3>9. \A i, j \in 1 .. Len(backlog'[s]) : backlog'[s][i] = backlog'[s][j] => i = j
        BY <1>6, <3>6, <3>7
      <3>. QED BY <2>2, <3>7, <3>8, <3>9 DEF QueueOK
    <2>. QED BY <2>1, <2>2
  <1>10. EndedByServed'
    BY <1>4, <1>6, EndedSame DEF HandshakeInv
  <1>. QED BY <1>7, <1>8, <1>9, <1>10 DEF HandshakeInv

\* The accept loop is done with connection k.
LEMMA ServerKeeps ==
  ASSUME HandshakeInv, TypeOK', NEW s \in Servers, NEW k \in Conns, k = <<talking[s], s>>,
         talking' = [talking EXCEPT ![s] = Nobody], backlog' = backlog,
         \A j \in Conns : j # k => step'[j] = step[j], step[k] \in {"M1", "M2"},
         step'[k] # "none", UNCHANGED <<left, ended>>,
         \A j \in Conns : ConnOK(j)'
  PROVE  HandshakeInv'
  <1>1. ASSUME NEW t \in Servers PROVE QueueOK(t)'
    <2>1. /\ QueueOK(t) /\ talking[t] \in Clients \cup {Nobody} /\ backlog[t] \in Seq(Clients)
          /\ talking'[t] = IF t = s THEN Nobody ELSE talking[t]
      BY DEF HandshakeInv, TypeOK
    <2>2. \A i \in 1 .. Len(backlog[t]) : <<backlog[t][i], t>> \in Conns
      BY <2>1, Queues DEF Conns
    <2>3. talking[t] # Nobody => <<talking[t], t>> \in Conns
      BY <2>1 DEF Conns
    <2>. QED BY <2>1, <2>2, <2>3 DEF QueueOK
  <1>2. EndedByServed'
    BY EndedSame DEF HandshakeInv
  <1>. QED BY <1>1, <1>2 DEF HandshakeInv

LEMMA AcceptM2Keeps ==
  ASSUME HandshakeInv, NEW s \in Servers, NEW k \in Conns, AcceptM2(s, k)
  PROVE  HandshakeInv'
  <1>1. /\ k = <<talking[s], s>> /\ step[k] = "M2" /\ k \notin Wrong
        /\ step' = [step EXCEPT ![k] = "M3"] /\ threads' = threads \cup {k}
        /\ talking' = [talking EXCEPT ![s] = Nobody]
        /\ UNCHANGED <<up, stage, at, left, sockets, backlog, asleep, short, ended>>
    BY DEF AcceptM2, Goes, serverEnd
  <1>2. TypeOK' /\ step'[k] = "M3" /\ \A j \in Conns : j # k => step'[j] = step[j]
    BY <1>1 DEF HandshakeInv, TypeOK
  <1>3. \A j \in Conns : ConnOK(j)'
    BY <1>1, <1>2 DEF HandshakeInv, ConnOK
  <1>. QED BY <1>1, <1>2, <1>3, ServerKeeps

LEMMA RefuseKeepsInv ==
  ASSUME HandshakeInv, NEW s \in Servers, NEW k \in Conns, Refuse(s, k)
  PROVE  HandshakeInv'
  <1>1. /\ k = <<talking[s], s>> /\ step[k] \in {"M1", "M2"}
        /\ step' = [step EXCEPT ![k] = "refused"]
        /\ talking' = [talking EXCEPT ![s] = Nobody]
        /\ UNCHANGED <<up, stage, at, left, sockets, backlog, threads, asleep, short, ended>>
    BY DEF Refuse, Goes, serverEnd
  <1>2. TypeOK' /\ step'[k] = "refused" /\ \A j \in Conns : j # k => step'[j] = step[j]
    BY <1>1 DEF HandshakeInv, TypeOK
  <1>3. \A j \in Conns : ConnOK(j)'
    BY <1>1, <1>2 DEF HandshakeInv, ConnOK
  <1>. QED BY <1>1, <1>2, <1>3, ServerKeeps

LEMMA ThreadKeeps ==
  ASSUME HandshakeInv, NEW k \in Conns,
         ThreadEnds(k) \/ ThreadDrops(k) \/ ThreadSleeps(k) \/ Broadcast(k)
  PROVE  HandshakeInv'
  <1>1. /\ UNCHANGED <<up, stage, at, step, left, sockets, backlog, talking, ended>>
        /\ \/ threads' = threads /\ asleep' \subseteq threads /\ short' = short
           \/ k \notin asleep /\ asleep' = asleep /\ threads' = threads \ {k} /\ short' \in {short, short \cup {k}}
    BY DEF ThreadEnds, ThreadDrops, ThreadSleeps, Broadcast, threadOnly, HandshakeInv, TypeOK
  <1>2. k \in threads' \/ k \in left \/ k \in short' \/ k \notin threads
    BY DEF ThreadEnds, ThreadDrops, ThreadSleeps, Broadcast
  <1>3. TypeOK'
    BY <1>1 DEF HandshakeInv, TypeOK
  <1>4. \A j \in Conns : ConnOK(j)'
    BY <1>1, <1>2 DEF HandshakeInv, ConnOK
  <1>. QED BY <1>1, <1>3, <1>4, ClientKeeps

LEMMA SigpipeKeeps ==
  ASSUME HandshakeInv, NEW s \in Servers, NEW k \in Conns, Sigpipe(s, k)
  PROVE  HandshakeInv'
  <1>1. /\ k \in left /\ k[2] = s
        /\ \/ k = <<talking[s], s>> /\ step[k] = "M2" /\ k \notin Wrong
           \/ k \in threads
    BY DEF Sigpipe
  <1>2. /\ ended' = ended \cup {s} /\ up' \subseteq up
        /\ threads' = {j \in threads : j[2] # s} /\ asleep' = {j \in asleep : j[2] # s}
        /\ backlog' = [backlog EXCEPT ![s] = <<>>] /\ talking' = [talking EXCEPT ![s] = Nobody]
        /\ step' = [j \in Conns |-> IF j[2] = s /\ step[j] \in {"queued", "M1", "M2"}
                                    THEN "refused" ELSE step[j]]
        /\ UNCHANGED <<stage, at, left, sockets, short>>
    BY DEF Sigpipe, Killed
  <1>3. TypeOK'
    <2>1. <<>> \in Seq(Clients)
      OBVIOUS
    <2>. QED BY <1>2, <2>1 DEF HandshakeInv, TypeOK
  <1>4. /\ \A j \in Conns : step[j] \in {"none", "M3", "open", "refused"} => step'[j] = step[j]
        /\ \A j \in Conns : step[j] # "none" => step'[j] # "none"
        /\ \A j \in Conns : j[2] # s => step'[j] = step[j]
        /\ \A j \in Conns : step'[j] \in {"M3", "open", "M2"} => step'[j] = step[j]
    BY <1>2
  <1>5. ASSUME NEW j \in Conns PROVE ConnOK(j)'
    <2>1. ConnOK(j)
      BY DEF HandshakeInv
    <2>. QED BY <1>2, <1>4, <2>1 DEF ConnOK
  <1>6. ASSUME NEW t \in Servers PROVE QueueOK(t)'
    <2>1. CASE t # s
      <3>1. \A d \in Clients : step'[<<d, t>>] = step[<<d, t>>]
        BY <1>4, <2>1 DEF Conns
      <3>2. QueueOK(t) /\ backlog'[t] = backlog[t] /\ talking'[t] = talking[t]
        BY <1>2, <2>1 DEF HandshakeInv, TypeOK
      <3>3. talking[t] \in Clients \cup {Nobody} /\ \A i \in 1 .. Len(backlog[t]) : backlog[t][i] \in Clients
        BY Queues DEF HandshakeInv, TypeOK
      <3>. QED BY <3>1, <3>2, <3>3 DEF QueueOK
    <2>2. CASE t = s
      <3>1. backlog'[s] = <<>> /\ talking'[s] = Nobody
        BY <1>2 DEF HandshakeInv, TypeOK
      <3>. QED BY <2>2, <3>1 DEF QueueOK
    <2>. QED BY <2>1, <2>2
  <1>7. k \notin Wrong \cup NoKey /\ step'[k] # "none"
    <2>1. ConnOK(k)
      BY DEF HandshakeInv
    <2>. QED BY <1>1, <1>4, <2>1 DEF ConnOK
  <1>8. EndedByServed'
    <2>1. ASSUME NEW t \in ended
          PROVE  \E j \in left : j[2] = t /\ j \notin Wrong \cup NoKey /\ step'[j] # "none"
      <3>1. PICK j \in left : j[2] = t /\ j \notin Wrong \cup NoKey /\ step[j] # "none"
        BY DEF HandshakeInv, EndedByServed
      <3>2. j \in Conns
        BY DEF HandshakeInv, TypeOK
      <3>. QED BY <1>4, <3>1, <3>2
    <2>. QED BY <1>1, <1>2, <1>7, <2>1 DEF EndedByServed
  <1>. QED BY <1>3, <1>5, <1>6, <1>8 DEF HandshakeInv

-----------------------------------------------------------------------------
LEMMA InvStep == HandshakeInv /\ [Next]_vars => HandshakeInv'
  <1>. SUFFICES ASSUME HandshakeInv, [Next]_vars PROVE HandshakeInv'
    OBVIOUS
  <1>1. ASSUME NEW c \in Clients, DmInit(c) \/ ClientStep(c) \/ Exit(c) \/ Vanish(c)
        PROVE  HandshakeInv'
    BY <1>1, DmInitKeeps, ConnectKeeps, FailKeeps, SendM2Keeps, ReceiveM3Keeps, ClientGoneKeeps
       DEF ClientStep
  <1>2. ASSUME NEW s \in Servers, ServerStep(s)
        PROVE  HandshakeInv'
    BY <1>2, AcceptKeeps, AcceptM2Keeps, RefuseKeepsInv DEF ServerStep
  <1>3. ASSUME NEW k \in Conns, ThreadEnds(k) \/ ThreadDrops(k) \/ ThreadSleeps(k) \/ Broadcast(k)
        PROVE  HandshakeInv'
    BY <1>3, ThreadKeeps
  <1>4. ASSUME NEW s \in Servers, NEW k \in Conns, Sigpipe(s, k)
        PROVE  HandshakeInv'
    BY <1>4, SigpipeKeeps
  <1>5. CASE UNCHANGED vars
    BY <1>5 DEF vars, serverEnd, HandshakeInv, TypeOK, QueueOK, ConnOK, EndedByServed
  <1>. QED BY <1>1, <1>2, <1>3, <1>4, <1>5 DEF Next

LEMMA InvImplies == HandshakeInv => TypeOK /\ Authenticated /\ SocketHasThread /\ EndedByServed
  <1>. SUFFICES ASSUME HandshakeInv PROVE Authenticated /\ SocketHasThread /\ EndedByServed
    BY DEF HandshakeInv
  <1>1. Authenticated
    BY DEF HandshakeInv, TypeOK, ConnOK, Authenticated
  <1>2. ASSUME NEW k \in sockets, stage[k[1]] # "gone", k \notin short, k[2] \notin ended
        PROVE  k \in threads /\ talking[k[2]] # k[1]
    <2>1. k \in Conns /\ ConnOK(k) /\ k[2] \in Servers /\ k[1] \in Clients /\ k = <<k[1], k[2]>>
      BY ConnParts DEF HandshakeInv, TypeOK
    <2>2. step[k] = "open" /\ k \in threads
      BY <1>2, <2>1 DEF ConnOK
    <2>3. QueueOK(k[2]) /\ k[1] # Nobody
      BY <2>1, HandshakeAssumption DEF HandshakeInv
    <2>. QED BY <2>1, <2>2, <2>3 DEF QueueOK
  <1>3. EndedByServed
    BY DEF HandshakeInv
  <1>. QED BY <1>1, <1>2, <1>3 DEF SocketHasThread

\* A connection is queued, in the handshake or open, and its thread starts
\* between the last two (server.cpp, secure_socket.cpp).
THEOREM HandshakeInvariant == Spec => []HandshakeInv
  BY InvInit, InvStep, PTL DEF Spec

\* Every variable keeps its type: a connection is at one of the steps of the
\* handshake, and dm_init at a server that is in the file.
THEOREM HandshakeTypes == Spec => []TypeOK
  BY HandshakeInvariant, InvImplies, PTL

\* However many clients and servers there are and whoever leaves when, a server
\* starts a thread only for a client that proved its key and the passphrase.
THEOREM ThreadsAuthenticated == Spec => []Authenticated
  BY HandshakeInvariant, InvImplies, PTL

\* Behind every socket dm_init has put in the map of a client that is there is
\* a thread of the server, and its handshake is over; unless the thread ended on
\* a request read in part or SIGPIPE ended the server.
THEOREM SocketsServed == Spec => []SocketHasThread
  BY HandshakeInvariant, InvImplies, PTL

\* However many clients are refused or give up: a server that SIGPIPE ends has
\* sent to a client it had let in, or was letting in, and that then left.
THEOREM ServersEndedByServed == Spec => []EndedByServed
  BY HandshakeInvariant, InvImplies, PTL
=============================================================================
