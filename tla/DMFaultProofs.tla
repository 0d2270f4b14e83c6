--------------------------- MODULE DMFaultProofs ---------------------------
(***************************************************************************)
(* Safety of DMTimeouts and DMRestart.  FInv(L, X, C) is preserved by      *)
(* every step of DMSystem whatever L, X and C are; the two modules only    *)
(* change who is in them.  A step of DMSystem either changes the           *)
(* connections and variables of one client (FClientFrame) or handles one   *)
(* request (FAnswerFrame), which may be the request of a client that does  *)
(* not wait for it any more.  What client and server agree on at the end   *)
(* comes from the same invariant.                                          *)
(***************************************************************************)
EXTENDS DMTimeouts, DMRestart, DMFaultInvariant, DMSystemProofs

-----------------------------------------------------------------------------
(* One request is handled. *)

\* Where the connection of a request is.
LEMMA FRequestConn ==
  ASSUME NEW L, NEW X, NEW C, FInv(L, X, C), NEW k \in Conns, req[k] # <<>>
  PROVE  /\ link[k] # "new" /\ k[3] <= gen[k[1]] /\ k[1] \in Clients
         /\ \A c \in Clients, b \in Blocks : Alive(c) /\ k = Sock(c, b) =>
              c = k[1] /\ link[k] = "open"
         /\ link[k] = "open" => Alive(k[1])
         /\ link[k] = "open" /\ <<k[1], k[2]>> \notin L =>
              Engaged(k[1], k) /\ Tail(req[k]) = <<>>
  <1>1. FConn(L, C, k) /\ k[1] \in Clients /\ k[3] \in Nat /\ gen[k[1]] \in Nat
    BY TypeFacts DEF FInv
  <1>2. link[k] # "new" /\ k[3] <= gen[k[1]]
    BY <1>1 DEF FConn
  <1>3. ASSUME NEW c \in Clients, NEW b, Alive(c), k = Sock(c, b)
        PROVE  c = k[1] /\ link[k] = "open"
    BY <1>1, <1>3 DEF FConn, Sock
  <1>4. link[k] = "open" /\ <<k[1], k[2]>> \notin L =>
          Engaged(k[1], k) /\ Tail(req[k]) = <<>>
    BY <1>1 DEF FConn
  <1>5. link[k] = "open" => Alive(k[1])
    BY <1>1 DEF FConn
  <1>. QED BY <1>1, <1>2, <1>3, <1>4, <1>5

\* A request whose client waits for the answer.
LEMMA FEngaged ==
  ASSUME NEW L, NEW X, NEW C, FInv(L, X, C), NEW k \in Conns, req[k] # <<>>,
         NEW c \in Clients, Engaged(c, k)
  PROVE  /\ c = k[1] /\ link[k] = "open" /\ call[c].id \in Blocks
         /\ call[c].id \in mapped[c] /\ Owner[call[c].id] = k[2]
         /\ <<c, k[2]>> \notin L => rep[k] = <<>> /\ Head(req[k]) = RequestOf(c)
  <1>1. Busy(c) /\ Alive(c) /\ k = Sock(c, call[c].id)
    BY DEF Engaged, Alive
  <1>2. call[c].id \in Blocks
    BY <1>1, CallTypes DEF FInv
  <1>3. FCall(L, X, C, c) /\ Owner[call[c].id] = k[2]
    BY <1>1 DEF FInv, Sock
  <1>. QED BY <1>1, <1>2, <1>3, FRequestConn DEF FCall, Prompt

LEMMA FAnswerEffect ==
  ASSUME NEW L, NEW X, NEW C, FInv(L, X, C), NEW k \in Conns, req[k] # <<>>,
         NEW a \in Reply, Answer(k, a)
  PROVE  /\ link' = link
         /\ \A j \in Conns : j # k => req'[j] = req[j] /\ rep'[j] = rep[j] /\ thread'[j] = thread[j]
         /\ link[k] = "open" => thread' = thread
         /\ link[k] = "open" /\ <<k[1], k[2]>> \notin L =>
              req'[k] = <<>> /\ rep'[k] # <<>> /\ Tail(rep'[k]) = <<>> /\ Head(rep'[k]) = a
         /\ link[k] # "open" => rep'[k] = rep[k]
  <1>1. /\ req \in [Conns -> Seq(Request)] /\ rep \in [Conns -> Seq(Reply)]
        /\ thread \in [Conns -> {"recv", "done"}]
    BY DEF FInv, TypeInv, TypeOK, WireTypeOK, ServerTypeOK
  <1>2. link[k] = "open" /\ <<k[1], k[2]>> \notin L => Tail(req[k]) = <<>> /\ rep[k] = <<>>
    BY FRequestConn, FEngaged
  <1>3. /\ link' = link /\ req'[k] = Tail(req[k]) /\ \A j \in Conns : j # k => req'[j] = req[j]
    BY <1>1 DEF Answer
  <1>4. link[k] = "open" => /\ rep'[k] = Append(rep[k], a) /\ thread' = thread
                            /\ \A j \in Conns : j # k => rep'[j] = rep[j]
    BY <1>1 DEF Answer
  <1>5. link[k] # "open" => rep' = rep /\ \A j \in Conns : j # k => thread'[j] = thread[j]
    BY <1>1 DEF Answer
  <1>. QED BY <1>2, <1>3, <1>4, <1>5, AppendEmpty


LEMMA FCopyGrows ==
  ASSUME NEW L, NEW X, TypeInv, TypeInv', NEW c \in Clients, NEW b \in Blocks,
         FCopy(L, X, c, b), Grows(b), UNCHANGED clientVars
  PROVE  FCopy(L, X, c, b)'
  <1>1. local[c][b].rev \in Nat
    BY TypeFacts
  <1>2. Agrees(local[c][b].rev, base[c][b], b) => AgreesNext(local[c][b].rev, base[c][b], b)
    BY <1>1, AgreesGrows
  <1>3. local[c][b].rev < blocks[b].rev => local[c][b].rev < blocks'[b].rev
    BY <1>1, LessGrows
  <1>. QED BY <1>2, <1>3
       DEF FCopy, Prompt, Intact, clientVars, Alive, Busy, Held, Agrees, AgreesNext

\* What a handler has to establish, for a call that waits for it: that its
\* answer is right, and what it means for the association of the connection.
LEMMA FAnswerFrame ==
  ASSUME NEW L, NEW X, NEW C, FInv(L, X, C), TypeInv', NEW k \in Conns, req[k] # <<>>,
         thread[k] = "recv", NEW a \in Reply, Answer(k, a),
         UNCHANGED clientVars, \A b \in Blocks : Grows(b),
         \A j \in Conns : j # k =>
            \A b \in Blocks : j \in mappedClients'[b] => j \in mappedClients[b],
         \A c \in Clients : Engaged(c, k) /\ <<c, k[2]>> \notin L => FReply(X, c, a)',
         \A c \in Clients, b \in Blocks :
            Alive(c) /\ <<c, k[2]>> \notin L /\ k = Sock(c, b) /\ k \in mappedClients'[b] =>
              /\ b \in mapped[c]
              /\ call[c] = [op |-> "UNMAP", id |-> b] => a.type = "NACK"
  PROVE  FInv(L, X, C)'
  <1>1. /\ link' = link
        /\ \A j \in Conns : j # k => req'[j] = req[j] /\ rep'[j] = rep[j] /\ thread'[j] = thread[j]
        /\ link[k] = "open" => thread'[k] = "recv"
        /\ link[k] = "open" /\ <<k[1], k[2]>> \notin L =>
             req'[k] = <<>> /\ rep'[k] # <<>> /\ Tail(rep'[k]) = <<>> /\ Head(rep'[k]) = a
        /\ link[k] # "open" => rep'[k] = rep[k]
    BY FAnswerEffect
  <1>2. /\ link[k] # "new" /\ k[3] <= gen[k[1]]
        /\ link[k] = "open" /\ <<k[1], k[2]>> \notin L => Engaged(k[1], k)
        /\ k[1] \in Clients /\ k[3] \in Nat /\ gen[k[1]] \in Nat /\ k \notin C
    <2>1. FConn(L, C, k) BY DEF FInv
    <2>2. k \notin C BY <2>1 DEF FConn
    <2>. QED BY <2>2, FRequestConn, TypeFacts DEF FInv
  <1>3. \A c \in Clients : /\ Alive(c)' = Alive(c) /\ Busy(c)' = Busy(c)
                           /\ \A j \in Conns : Engaged(c, j)' = Engaged(c, j)
                           /\ \A b \in Blocks : Sock(c, b)' = Sock(c, b)
    BY DEF clientVars, Alive, Busy, Engaged, Sock
  <1>4. \A j \in Conns : FConn(L, C, j)'
    <2>. SUFFICES ASSUME NEW j \in Conns PROVE FConn(L, C, j)'
      OBVIOUS
    <2>. FConn(L, C, j) /\ j[1] \in Clients
      BY TypeFacts DEF FInv
    <2>1. CASE j = k
      BY <1>1, <1>2, <1>3, <2>1 DEF FConn, clientVars
    <2>2. CASE j # k
      BY <1>1, <1>3, <2>2 DEF FConn, clientVars
    <2>. QED BY <2>1, <2>2
  <1>5. \A c \in Clients, b \in Blocks : FCopy(L, X, c, b)'
    BY FCopyGrows DEF FInv
  <1>6. \A c \in Clients, b \in Blocks : FAssoc(L, c, b)'
    <2>. SUFFICES ASSUME NEW c \in Clients, NEW b \in Blocks, Alive(c), Prompt(L, c, b),
                         Sock(c, b) \in mappedClients'[b]
                  PROVE  AssocOK(c, b)'
      BY <1>3 DEF FAssoc, AssocOK, Prompt
    <2>. AssocOK(c, b) /\ Sock(c, b) \in Conns
      BY CallTypes DEF FInv, FAssoc
    <2>1. CASE Sock(c, b) = k
      <3>1. link[k] = "open" /\ k[1] = c /\ <<c, k[2]>> \notin L
        BY <2>1, FRequestConn DEF Prompt, Sock
      <3>. QED BY <1>1, <1>3, <2>1, <3>1 DEF AssocOK, clientVars
    <2>2. CASE Sock(c, b) # k
      BY <1>1, <1>3, <2>2 DEF AssocOK, clientVars
    <2>. QED BY <2>1, <2>2
  <1>7. \A c \in Clients : FCall(L, X, C, c)'
    <2>. SUFFICES ASSUME NEW c \in Clients PROVE FCall(L, X, C, c)'
      OBVIOUS
    <2>. FCall(L, X, C, c)
      BY DEF FInv
    <2>1. CASE ~Busy(c) \/ ~Prompt(L, c, call[c].id)
      BY <1>3, <2>1 DEF FCall, clientVars, Prompt
    <2>2. CASE Engaged(c, k) /\ Prompt(L, c, call[c].id)
      <3>1. /\ link[k] = "open" /\ k = Sock(c, call[c].id) /\ Busy(c) /\ c = k[1]
            /\ <<c, k[2]>> \notin L
        BY <2>2, FEngaged DEF Engaged, Prompt
      <3>2. FReply(X, c, Head(rep[k]))'
        <4>1. FReply(X, c, a)' /\ Head(rep'[k]) = a
          BY <1>1, <2>2, <3>1
        <4>. QED BY <4>1 DEF FReply, ReplyOK
      <3>3. /\ call' = call /\ mapped' = mapped /\ local' = local
            /\ Sock(c, call[c].id)' = k /\ Busy(c)' /\ Alive(c)'
        BY <3>1 DEF clientVars, Sock, Alive, Busy
      <3>4. rep'[k] # <<>> /\ Tail(rep'[k]) = <<>> /\ req'[k] = <<>>
        BY <1>1, <3>1
      <3>5. call'[c] # Fault
        BY <3>3 DEF Busy, Fault, Calls
      <3>. QED BY <3>1, <3>2, <3>3, <3>4, <3>5 DEF FCall
    <2>3. CASE Busy(c) /\ ~Engaged(c, k) /\ Prompt(L, c, call[c].id)
      <3>. DEFINE j == Sock(c, call[c].id)
      <3>1. j \in Conns /\ j # k /\ req'[j] = req[j] /\ rep'[j] = rep[j] /\ j' = j
        BY <1>1, <2>3, CallTypes DEF FInv, Engaged, clientVars, Sock
      <3>2. CASE req[j] # <<>> \/ rep[j] = <<>>
        BY <1>3, <2>3, <3>1, <3>2 DEF FCall, clientVars, RequestOf, Prompt
      <3>3. CASE req[j] = <<>> /\ rep[j] # <<>>
        <4>1. rep[j] # <<>> /\ Tail(rep[j]) = <<>> /\ FReply(X, c, Head(rep[j]))
          BY <2>3, <3>3 DEF FCall
        <4>2. Head(rep[j]) \in Reply
          BY <3>1, <4>1, HeadTailProperties DEF FInv, TypeInv, TypeOK, WireTypeOK
        <4>3. PICK r \in Reply : r = Head(rep[j])
          BY <4>2
        <4>4. TypeInv /\ FReply(X, c, r)
          BY <4>1, <4>3 DEF FInv
        <4>5. <<c, call[c].id>> \notin X => ReplyOK(c, r)'
          BY <2>3, <4>4, ReplyOKGrows DEF FReply
        <4>6. FReply(X, c, r)'
          BY <4>4, <4>5 DEF FReply, clientVars
        <4>7. FReply(X, c, Head(rep[j]))'
          BY <3>1, <4>3, <4>6 DEF FReply, ReplyOK
        <4>. QED BY <1>3, <2>3, <3>1, <3>3, <4>1, <4>7 DEF FCall, clientVars
      <3>. QED BY <3>2, <3>3
    <2>. QED BY <2>1, <2>2, <2>3 DEF Engaged
  <1>. QED BY <1>4, <1>5, <1>6, <1>7 DEF FInv

\* The request a handler sees, of a client that waits for the answer.
LEMMA FRequestFacts ==
  ASSUME NEW L, NEW X, NEW C, FInv(L, X, C), NEW k \in Conns, req[k] # <<>>,
         NEW c \in Clients, Engaged(c, k), <<c, k[2]>> \notin L
  PROVE  LET m == Head(req[k]) IN
         /\ m.type = call[c].op /\ m.id = call[c].id /\ m.id \in Blocks
         /\ m.rev = local[c][m.id].rev
         /\ m.type = "WRITE" => m.data = local[c][m.id].data /\ m.base = base[c][m.id]
         /\ k = Sock(c, m.id) /\ Owner[m.id] = k[2] /\ Alive(c) /\ m.id \in mapped[c]
         /\ m.type # "MAP" /\ m.id \in Hosted /\ <<c, m.id>> \notin X =>
              Agrees(m.rev, base[c][m.id], m.id)
  <1>. DEFINE m == Head(req[k])
              b == call[c].id
  <1>1. /\ b \in Blocks /\ m = RequestOf(c) /\ b \in mapped[c]
        /\ k = Sock(c, b) /\ Alive(c) /\ Owner[b] = k[2]
    <2>1. b \in Blocks /\ m = RequestOf(c) /\ b \in mapped[c] /\ Owner[b] = k[2]
      BY FEngaged
    <2>2. k = Sock(c, b) /\ Alive(c)
      BY DEF Engaged, Alive
    <2>. QED BY <2>1, <2>2
  <1>2. FCopy(L, X, c, b) /\ Prompt(L, c, b)
    BY <1>1 DEF FInv, Prompt
  <1>3. /\ m.type = call[c].op /\ m.id = b /\ m.rev = local[c][b].rev
        /\ m.type = "WRITE" => m.data = local[c][b].data /\ m.base = base[c][b]
    BY <1>1, <1>2 DEF RequestOf, ShallowRequest, WriteRequest, FCopy
  <1>4. m.type # "MAP" /\ b \in Hosted => b \in Held(c)
    BY <1>1, <1>3 DEF Held
  <1>. QED BY <1>1, <1>2, <1>3, <1>4 DEF FCopy, Intact

LEMMA FMapStep ==
  ASSUME NEW L, NEW X, NEW C, FInv(L, X, C), TypeInv', NEW k \in Conns, HandleMap(k),
         UNCHANGED clientVars
  PROVE  FInv(L, X, C)'
  <1>. DEFINE m == Head(req[k])
              new == Found(k, m.id) /\ k \notin mappedClients[m.id]
  <1>1. req[k] # <<>> /\ m.type = "MAP" /\ blocks' = blocks /\ thread[k] = "recv"
        /\ Answer(k, IF new THEN FullAck(m.id, blocks[m.id]) ELSE Nack)
    BY DEF HandleMap, Serving
  <1>2. m.id \in Blocks /\ blocks[m.id] \in [rev : Revs, data : Data]
    BY <1>1, HeadType DEF FInv, Request, TypeInv, TypeOK, ServerTypeOK
  <1>3. PICK a \in Reply : a = (IF new THEN FullAck(m.id, blocks[m.id]) ELSE Nack)
    BY <1>2, ReplyTypes
  <1>4. mappedClients' = IF new THEN [mappedClients EXCEPT ![m.id] = @ \cup {k}] ELSE mappedClients
    BY DEF HandleMap
  <1>5. mappedClients \in [Blocks -> SUBSET Conns]
    BY DEF FInv, TypeInv, TypeOK, ServerTypeOK
  <1>6. \A b \in Blocks : Grows(b)
    BY <1>1 DEF Grows
  <1>7. \A j \in Conns : j # k => \A b \in Blocks : j \in mappedClients'[b] => j \in mappedClients[b]
    BY <1>2, <1>4, <1>5
  <1>8. ASSUME NEW c \in Clients, Engaged(c, k), <<c, k[2]>> \notin L PROVE FReply(X, c, a)'
    <2>1. call[c].op = "MAP" /\ call[c].id = m.id /\ Owner[m.id] = k[2]
          /\ k = Sock(c, m.id) /\ Alive(c) /\ call[c] = [op |-> "MAP", id |-> m.id]
      <3>1. call[c].op = "MAP" /\ call[c].id = m.id /\ Owner[m.id] = k[2]
            /\ k = Sock(c, m.id) /\ Alive(c)
        BY <1>1, <1>8, FRequestFacts
      <3>2. call[c] \in [op : Calls, id : Blocks] \cup {Off, Idle, Fault}
        BY DEF FInv, TypeInv, TypeOK, ClientTypeOK
      <3>3. call[c] \in [op : Calls, id : Blocks]
        BY <3>1, <3>2 DEF Off, Idle, Fault
      <3>. QED BY <3>1, <3>3
    <2>2. k \notin mappedClients[m.id]
      <3>1. AssocOK(c, m.id)
        BY <1>2, <1>8, <2>1 DEF FInv, FAssoc, Prompt
      <3>. QED BY <1>1, <2>1, <3>1 DEF AssocOK
    <2>3. m.id \in Hosted <=> new
      BY <2>1, <2>2 DEF Found
    <2>4. blocks[m.id].data # NoData /\ blocks[m.id].rev \in Nat
      BY <1>2, WireAssumption DEF Revs
    <2>5. FullAck(m.id, blocks[m.id]).block # NoBlock
      BY <1>2, NoBlockAssumption DEF FullAck, BlockInfo
    <2>6. CASE new
      <3>1. /\ call'[c].op = "MAP" /\ call'[c].id = m.id /\ a.type = "ACK" /\ m.id \in Hosted
            /\ a.block # NoBlock /\ a.block.id = m.id /\ a.block.data # NoData
            /\ a.block.rev = blocks'[m.id].rev /\ a.block.data = blocks'[m.id].data
            /\ a.block.rev \in Nat
        BY <1>1, <1>3, <2>1, <2>3, <2>4, <2>5, <2>6 DEF FullAck, clientVars
      <3>. QED BY <3>1 DEF FReply, ReplyOK, Agrees
    <2>7. CASE ~new
      BY <1>1, <1>3, <2>1, <2>3, <2>7 DEF FReply, ReplyOK, Nack, clientVars
    <2>. QED BY <2>6, <2>7
  <1>9. ASSUME NEW c \in Clients, NEW b \in Blocks, Alive(c), <<c, k[2]>> \notin L,
               k = Sock(c, b), k \in mappedClients'[b]
        PROVE  /\ b \in mapped[c]
               /\ call[c] = [op |-> "UNMAP", id |-> b] => a.type = "NACK"
    <2>1. Engaged(c, k) /\ k[1] = c
      BY <1>1, <1>9, FRequestConn
    <2>2. call[c].op = "MAP" /\ m.id \in mapped[c]
      BY <1>1, <1>9, <2>1, FRequestFacts
    <2>3. k \in mappedClients[b] \/ b = m.id
      BY <1>2, <1>4, <1>5, <1>9
    <2>4. k \in mappedClients[b] => b \in mapped[c]
      BY <1>9 DEF FInv, FAssoc, AssocOK, Prompt, Sock
    <2>. QED BY <2>2, <2>3, <2>4
  <1>10. Answer(k, a)
    BY <1>1, <1>3
  <1>. QED BY <1>1, <1>6, <1>7, <1>8, <1>9, <1>10, FAnswerFrame

LEMMA FUnmapStep ==
  ASSUME NEW L, NEW X, NEW C, FInv(L, X, C), TypeInv', NEW k \in Conns, HandleUnmap(k),
         UNCHANGED clientVars
  PROVE  FInv(L, X, C)'
  <1>. DEFINE m == Head(req[k])
              known == Found(k, m.id) /\ k \in mappedClients[m.id]
  <1>1. req[k] # <<>> /\ m.type = "UNMAP" /\ blocks' = blocks /\ thread[k] = "recv"
        /\ Answer(k, IF known THEN PlainAck ELSE Nack)
    BY DEF HandleUnmap, Serving
  <1>2. m.id \in Blocks /\ blocks[m.id] \in [rev : Revs, data : Data]
    BY <1>1, HeadType DEF FInv, Request, TypeInv, TypeOK, ServerTypeOK
  <1>3. PICK a \in Reply : a = (IF known THEN PlainAck ELSE Nack)
    BY <1>2, ReplyTypes
  <1>4. mappedClients' = IF known THEN [mappedClients EXCEPT ![m.id] = @ \ {k}] ELSE mappedClients
    BY DEF HandleUnmap
  <1>5. mappedClients \in [Blocks -> SUBSET Conns]
    BY DEF FInv, TypeInv, TypeOK, ServerTypeOK
  <1>6. \A b \in Blocks : Grows(b)
    BY <1>1 DEF Grows
  <1>7. \A j \in Conns, b \in Blocks : j \in mappedClients'[b] => j \in mappedClients[b]
    BY <1>2, <1>4, <1>5
  <1>8. ASSUME NEW c \in Clients, Engaged(c, k), <<c, k[2]>> \notin L PROVE FReply(X, c, a)'
    <2>1. call[c].op = "UNMAP"
      BY <1>1, <1>8, FRequestFacts
    <2>. QED BY <2>1 DEF FReply, ReplyOK, clientVars
  <1>9. ASSUME NEW c \in Clients, NEW b \in Blocks, Alive(c), <<c, k[2]>> \notin L,
               k = Sock(c, b), k \in mappedClients'[b]
        PROVE  /\ b \in mapped[c]
               /\ call[c] = [op |-> "UNMAP", id |-> b] => a.type = "NACK"
    <2>1. Engaged(c, k) /\ k[1] = c
      BY <1>1, <1>9, FRequestConn
    <2>2. m.id = call[c].id
      BY <1>1, <1>9, <2>1, FRequestFacts
    <2>3. b \in mapped[c]
      BY <1>7, <1>9 DEF FInv, FAssoc, AssocOK, Prompt, Sock
    <2>4. b = m.id => ~known
      BY <1>2, <1>4, <1>5, <1>9
    <2>. QED BY <1>3, <2>2, <2>3, <2>4 DEF Nack
  <1>10. Answer(k, a)
    BY <1>1, <1>3
  <1>. QED BY <1>1, <1>6, <1>7, <1>8, <1>9, <1>10, FAnswerFrame

\* UPDATE, WRITE and WAIT leave the associations alone.
LEMMA FAssocUnchanged ==
  ASSUME NEW L, NEW X, NEW C, FInv(L, X, C), NEW k \in Conns, req[k] # <<>>,
         Head(req[k]).type # "UNMAP", mappedClients' = mappedClients, NEW a \in Reply
  PROVE  \A c \in Clients, b \in Blocks :
            Alive(c) /\ <<c, k[2]>> \notin L /\ k = Sock(c, b) /\ k \in mappedClients'[b] =>
              /\ b \in mapped[c]
              /\ call[c] = [op |-> "UNMAP", id |-> b] => a.type = "NACK"
  <1>. SUFFICES ASSUME NEW c \in Clients, NEW b \in Blocks, Alive(c), <<c, k[2]>> \notin L,
                       k = Sock(c, b), k \in mappedClients[b]
                PROVE  b \in mapped[c] /\ call[c] # [op |-> "UNMAP", id |-> b]
    OBVIOUS
  <1>1. AssocOK(c, b)
    BY DEF FInv, FAssoc, Prompt, Sock
  <1>2. Engaged(c, k)
    <2>1. c = k[1] /\ link[k] = "open"
      BY FRequestConn
    <2>. QED BY <2>1, FRequestConn
  <1>3. call[c].op # "UNMAP"
    BY <1>2, FRequestFacts
  <1>. QED BY <1>1, <1>3 DEF AssocOK

LEMMA FUpdateStep ==
  ASSUME NEW L, NEW X, NEW C, FInv(L, X, C), TypeInv', NEW k \in Conns, HandleUpdate(k),
         UNCHANGED clientVars
  PROVE  FInv(L, X, C)'
  <1>. DEFINE m == Head(req[k])
              b == blocks[m.id]
  <1>1. /\ req[k] # <<>> /\ m.type = "UPDATE" /\ blocks' = blocks /\ thread[k] = "recv"
        /\ mappedClients' = mappedClients
        /\ Answer(k, IF ~Found(k, m.id) THEN Nack
                     ELSE IF m.rev < b.rev THEN FullAck(m.id, b) ELSE ShallowAck(m.id, b))
    BY DEF HandleUpdate, Serving
  <1>2. m.id \in Blocks /\ m.rev \in Nat /\ b \in [rev : Revs, data : Data]
    BY <1>1, HeadType DEF FInv, Request, TypeInv, TypeOK, ServerTypeOK, Revs
  <1>3. PICK a \in Reply : a = (IF ~Found(k, m.id) THEN Nack
                                ELSE IF m.rev < b.rev THEN FullAck(m.id, b) ELSE ShallowAck(m.id, b))
    BY <1>2, ReplyTypes
  <1>4. \A x \in Blocks : Grows(x)
    BY <1>1 DEF Grows
  <1>5. ASSUME NEW c \in Clients, Engaged(c, k), <<c, k[2]>> \notin L PROVE FReply(X, c, a)'
    <2>1. /\ call[c].op = "UPDATE" /\ call[c].id = m.id /\ m.rev = local[c][m.id].rev
          /\ Owner[m.id] = k[2]
          /\ m.id \in Hosted /\ <<c, m.id>> \notin X => Agrees(m.rev, base[c][m.id], m.id)
      BY <1>1, <1>5, FRequestFacts
    <2>2. b.data # NoData /\ b.rev \in Nat
      BY <1>2, WireAssumption DEF Revs
    <2>3. CASE ~Found(k, m.id)
      BY <1>1, <1>3, <2>1, <2>3 DEF FReply, ReplyOK, Nack, clientVars
    <2>4. CASE Found(k, m.id) /\ m.rev < b.rev
      <3>1. a = FullAck(m.id, b) /\ a.block # NoBlock
        BY <1>2, <1>3, <2>4, NoBlockAssumption DEF FullAck, BlockInfo
      <3>2. a.block = [id |-> m.id, rev |-> b.rev, data |-> b.data]
        BY <3>1 DEF FullAck
      <3>3. blocks'[m.id] = b /\ call' = call
        BY <1>1 DEF clientVars
      <3>4. /\ call'[c].op = "UPDATE" /\ call'[c].id = m.id /\ a.type = "ACK"
            /\ a.block # NoBlock /\ a.block.id = m.id /\ a.block.data # NoData
            /\ a.block.rev = blocks'[m.id].rev /\ a.block.data = blocks'[m.id].data
            /\ a.block.rev \in Nat
        BY <2>1, <2>2, <3>1, <3>2, <3>3 DEF FullAck
      <3>. QED BY <3>4 DEF FReply, ReplyOK, Agrees
    <2>5. CASE Found(k, m.id) /\ ~(m.rev < b.rev)
      <3>1. a = ShallowAck(m.id, b) /\ a.block # NoBlock
        BY <1>2, <1>3, <2>5, NoBlockAssumption DEF ShallowAck, BlockInfo
      <3>2. a.block = [id |-> m.id, rev |-> b.rev, data |-> NoData]
        BY <3>1 DEF ShallowAck
      <3>3. <<c, m.id>> \notin X => m.rev = b.rev
        BY <1>2, <2>1, <2>2, <2>5 DEF Agrees, Found
      <3>4. /\ call'[c].op = "UPDATE" /\ call'[c].id = m.id /\ a.block # NoBlock
            /\ a.block.id = m.id /\ a.block.data = NoData
            /\ <<c, m.id>> \notin X => a.block.rev = local'[c][m.id].rev
        <4>1. call' = call /\ local' = local
          BY <1>1 DEF clientVars
        <4>2. call'[c].op = "UPDATE" /\ call'[c].id = m.id
          BY <2>1, <4>1
        <4>3. a.block # NoBlock /\ a.block.id = m.id /\ a.block.data = NoData /\ a.block.rev = b.rev
          BY <3>1, <3>2
        <4>4. <<c, m.id>> \notin X => b.rev = local'[c][m.id].rev
          BY <2>1, <3>3, <4>1
        <4>. QED BY <4>2, <4>3, <4>4
      <3>. QED BY <3>4 DEF FReply, ReplyOK
    <2>. QED BY <2>3, <2>4, <2>5
  <1>6. \A c \in Clients, x \in Blocks :
            Alive(c) /\ <<c, k[2]>> \notin L /\ k = Sock(c, x) /\ k \in mappedClients'[x] =>
              /\ x \in mapped[c]
              /\ call[c] = [op |-> "UNMAP", id |-> x] => a.type = "NACK"
    BY <1>1, FAssocUnchanged
  <1>7. \A j \in Conns, x \in Blocks : j \in mappedClients'[x] => j \in mappedClients[x]
    BY <1>1
  <1>8. Answer(k, a)
    BY <1>1, <1>3
  <1>. QED BY <1>1, <1>4, <1>5, <1>6, <1>7, <1>8, FAnswerFrame

\* What a WRITE does to its block, whoever sent it.
Taken(k, m) ==
  /\ Found(k, m.id) /\ blocks[m.id].rev = m.rev /\ Answer(k, PlainAck)
  /\ blocks'[m.id] = [rev |-> m.rev + 1, data |-> Content(m)]

LEMMA FWriteEffect ==
  ASSUME TypeInv, NEW k \in Conns, HandleWrite(k)
  PROVE  LET m == Head(req[k]) IN
         /\ req[k] # <<>> /\ m.type = "WRITE" /\ m.id \in Blocks /\ m.rev \in Nat
         /\ thread[k] = "recv" /\ mappedClients' = mappedClients
         /\ \A b \in Blocks : b # m.id => blocks'[b] = blocks[b]
         /\ Taken(k, m) \/ WriteRefused(k, m)
         /\ \A b \in Blocks : Grows(b)
  <1>. DEFINE m == Head(req[k])
  <1>1. req[k] # <<>> /\ m.type = "WRITE" /\ thread[k] = "recv" /\ mappedClients' = mappedClients
    BY DEF HandleWrite, Serving
  <1>2. m.id \in Blocks /\ m.rev \in Nat
    BY <1>1, HeadType DEF Request, Revs
  <1>3. blocks \in [Blocks -> [rev : Revs, data : Data]]
    BY DEF TypeInv, TypeOK, ServerTypeOK
  <1>4. CASE Found(k, m.id) /\ blocks[m.id].rev = m.rev
    <2>. DEFINE new == [rev |-> m.rev + 1, data |-> Content(m)]
    <2>1. blocks' = [blocks EXCEPT ![m.id] = new] /\ Answer(k, PlainAck)
      BY <1>4 DEF HandleWrite
    <2>2. new.rev = m.rev + 1
      OBVIOUS
    <2>. HIDE DEF new
    <2>3. blocks'[m.id] = new /\ \A b \in Blocks : b # m.id => blocks'[b] = blocks[b]
      BY <1>2, <1>3, <2>1
    <2>4. \A b \in Blocks : Grows(b)
      BY <1>2, <1>4, <2>2, <2>3 DEF Grows
    <2>5. Taken(k, m)
      BY <1>4, <2>1, <2>3 DEF Taken, new
    <2>. QED BY <1>1, <1>2, <2>3, <2>4, <2>5
  <1>5. CASE ~(Found(k, m.id) /\ blocks[m.id].rev = m.rev)
    BY <1>1, <1>2, <1>5 DEF HandleWrite, WriteRefused, Grows
  <1>. QED BY <1>4, <1>5

LEMMA FWriteStep ==
  ASSUME NEW L, NEW X, NEW C, FInv(L, X, C), TypeInv', NEW k \in Conns, HandleWrite(k),
         UNCHANGED clientVars
  PROVE  FInv(L, X, C)'
  <1>. DEFINE m == Head(req[k])
  <1>1. /\ req[k] # <<>> /\ m.type = "WRITE" /\ m.id \in Blocks /\ m.rev \in Nat
        /\ thread[k] = "recv" /\ mappedClients' = mappedClients
        /\ \A b \in Blocks : Grows(b)
    BY FWriteEffect DEF FInv
  <1>2. PICK a \in Reply :
          Answer(k, a) /\ ((a = PlainAck /\ Taken(k, m)) \/ (a = Nack /\ WriteRefused(k, m)))
    <2>1. PlainAck \in Reply /\ Nack \in Reply
      BY DEF PlainAck, Nack, Reply
    <2>2. Taken(k, m) \/ WriteRefused(k, m)
      BY FWriteEffect DEF FInv
    <2>3. CASE Taken(k, m)
      <3>1. Answer(k, PlainAck) BY <2>3 DEF Taken
      <3>. QED BY <2>1, <2>3, <3>1
    <2>4. CASE WriteRefused(k, m)
      <3>1. Answer(k, Nack) BY <2>4 DEF WriteRefused
      <3>. QED BY <2>1, <2>4, <3>1
    <2>. QED BY <2>2, <2>3, <2>4
  <1>3. ASSUME NEW c \in Clients, Engaged(c, k), <<c, k[2]>> \notin L PROVE FReply(X, c, a)'
    <2>1. /\ call[c].op = "WRITE" /\ call[c].id = m.id /\ m.rev = local[c][m.id].rev
          /\ m.data = local[c][m.id].data /\ Owner[m.id] = k[2]
          /\ m.id \in Hosted /\ <<c, m.id>> \notin X => Agrees(m.rev, base[c][m.id], m.id)
      BY <1>1, <1>3, FRequestFacts
    <2>2. CASE a = PlainAck /\ Taken(k, m)
      <3>1. m.data # NoData
        BY <1>1, <2>1, TypeFacts, WireAssumption DEF FInv
      <3>2. blocks'[m.id].rev = local[c][m.id].rev + 1 /\ blocks'[m.id].data = local[c][m.id].data
        BY <2>1, <2>2, <3>1 DEF Taken, Content
      <3>3. /\ call'[c].op = "WRITE" /\ call'[c].id = m.id /\ a.type = "ACK"
            /\ blocks'[m.id].rev = local'[c][m.id].rev + 1
            /\ blocks'[m.id].data = local'[c][m.id].data /\ blocks'[m.id].rev \in Nat
        BY <1>1, <2>1, <2>2, <3>2 DEF PlainAck, clientVars
      <3>. QED BY <3>3 DEF FReply, ReplyOK, Agrees
    <2>3. CASE a = Nack /\ WriteRefused(k, m)
      <3>1. m.id \in Hosted /\ <<c, m.id>> \notin X => m.rev < blocks[m.id].rev
        <4>1. blocks[m.id].rev \in Nat BY <1>1, TypeFacts DEF FInv
        <4>. QED BY <1>1, <2>1, <2>3, <4>1 DEF Found, Agrees, WriteRefused
      <3>. QED BY <2>1, <2>3, <3>1 DEF FReply, ReplyOK, Nack, clientVars, WriteRefused
    <2>. QED BY <1>2, <2>2, <2>3
  <1>4. \A c \in Clients, x \in Blocks :
            Alive(c) /\ <<c, k[2]>> \notin L /\ k = Sock(c, x) /\ k \in mappedClients'[x] =>
              /\ x \in mapped[c]
              /\ call[c] = [op |-> "UNMAP", id |-> x] => a.type = "NACK"
    BY <1>1, FAssocUnchanged
  <1>5. \A j \in Conns, x \in Blocks : j \in mappedClients'[x] => j \in mappedClients[x]
    BY <1>1
  <1>. QED BY <1>1, <1>2, <1>3, <1>4, <1>5, FAnswerFrame

LEMMA FWaitStep ==
  ASSUME NEW L, NEW X, NEW C, FInv(L, X, C), TypeInv', NEW k \in Conns, HandleWait(k),
         UNCHANGED clientVars
  PROVE  FInv(L, X, C)'
  <1>. DEFINE m == Head(req[k])
  <1>1. /\ req[k] # <<>> /\ m.type = "WAIT" /\ blocks' = blocks /\ thread[k] = "recv"
        /\ mappedClients' = mappedClients /\ Answer(k, PlainAck)
        /\ ~(Found(k, m.id) /\ blocks[m.id].rev = m.rev)
    BY DEF HandleWait, Serving
  <1>2. PlainAck \in Reply
    BY DEF PlainAck, Reply
  <1>3. \A x \in Blocks : Grows(x)
    BY <1>1 DEF Grows
  <1>4. ASSUME NEW c \in Clients, Engaged(c, k), <<c, k[2]>> \notin L PROVE FReply(X, c, PlainAck)'
    <2>1. /\ call[c].op = "WAIT" /\ call[c].id = m.id /\ m.rev = local[c][m.id].rev
          /\ m.id \in Blocks /\ Owner[m.id] = k[2]
          /\ m.id \in Hosted /\ <<c, m.id>> \notin X => Agrees(m.rev, base[c][m.id], m.id)
      BY <1>1, <1>4, FRequestFacts
    <2>2. m.id \in Hosted /\ <<c, m.id>> \notin X => m.rev < blocks[m.id].rev
      <3>1. blocks[m.id].rev \in Nat /\ m.rev \in Nat
        BY <2>1, TypeFacts DEF FInv
      <3>. QED BY <1>1, <2>1, <3>1 DEF Found, Agrees
    <2>. QED BY <1>1, <2>1, <2>2 DEF FReply, ReplyOK, clientVars
  <1>5. \A c \in Clients, x \in Blocks :
            Alive(c) /\ <<c, k[2]>> \notin L /\ k = Sock(c, x) /\ k \in mappedClients'[x] =>
              /\ x \in mapped[c]
              /\ call[c] = [op |-> "UNMAP", id |-> x] => PlainAck.type = "NACK"
    BY <1>1, <1>2, FAssocUnchanged
  <1>6. \A j \in Conns, x \in Blocks : j \in mappedClients'[x] => j \in mappedClients[x]
    BY <1>1
  <1>. QED BY <1>1, <1>2, <1>3, <1>4, <1>5, <1>6, FAnswerFrame

LEMMA FDisconnectStep ==
  ASSUME NEW L, NEW X, NEW C, FInv(L, X, C), TypeInv', NEW k \in Conns, Disconnect(k),
         UNCHANGED clientVars
  PROVE  FInv(L, X, C)'
  <1>1. /\ link[k] = "closed" /\ thread'[k] = "done"
        /\ UNCHANGED <<blocks, mappedClients, link, req, rep>>
        /\ \A j \in Conns : j # k => thread'[j] = thread[j]
    BY DEF Disconnect, FInv, TypeInv, TypeOK, ServerTypeOK, wireVars
  <1>2. ASSUME NEW j \in Conns PROVE FConn(L, C, j)'
    <2>1. FConn(L, C, j) BY DEF FInv
    <2>. QED BY <1>1, <2>1 DEF FConn, clientVars, Alive, Busy, Engaged, Sock
  <1>3. ASSUME NEW c \in Clients, NEW b \in Blocks PROVE FCopy(L, X, c, b)' /\ FAssoc(L, c, b)'
    <2>1. FCopy(L, X, c, b) /\ FAssoc(L, c, b) BY DEF FInv
    <2>. QED BY <1>1, <2>1
         DEF FCopy, FAssoc, AssocOK, Prompt, Intact, Agrees, Held, Alive, Busy, Sock, clientVars
  <1>4. ASSUME NEW c \in Clients PROVE FCall(L, X, C, c)'
    <2>1. FCall(L, X, C, c) BY DEF FInv
    <2>. QED BY <1>1, <2>1
         DEF FCall, FReply, ReplyOK, RequestOf, Prompt, Agrees, Alive, Busy, Sock, clientVars
  <1>. QED BY <1>2, <1>3, <1>4 DEF FInv

LEMMA FServerStep ==
  ASSUME NEW L, NEW X, NEW C, FInv(L, X, C), TypeInv', NEW k \in Conns, ServerStep(k),
         UNCHANGED clientVars
  PROVE  FInv(L, X, C)'
  BY FMapStep, FUnmapStep, FUpdateStep, FWriteStep, FWaitStep, FDisconnectStep DEF ServerStep

-----------------------------------------------------------------------------
(* The clients. *)

\* The other clients and their connections are as they were.
LEMMA FClientFrame ==
  ASSUME NEW L, NEW X, NEW C, FInv(L, X, C), TypeInv', NEW c \in Clients, UNCHANGED serverVars,
         \A d \in Clients : d # c => /\ call'[d] = call[d] /\ gen'[d] = gen[d]
                                   /\ mapped'[d] = mapped[d] /\ local'[d] = local[d]
                                   /\ base'[d] = base[d],
         \A k \in Conns : k[1] # c =>
            link'[k] = link[k] /\ req'[k] = req[k] /\ rep'[k] = rep[k],
         \A k \in Conns : k[1] = c => FConn(L, C, k)',
         FCall(L, X, C, c)', \A b \in Blocks : FCopy(L, X, c, b)' /\ FAssoc(L, c, b)'
  PROVE  FInv(L, X, C)'
  <1>1. ASSUME NEW k \in Conns PROVE FConn(L, C, k)'
    <2>1. CASE k[1] = c BY <2>1
    <2>2. CASE k[1] # c
      <3>1. FConn(L, C, k) /\ k[1] \in Clients
        BY TypeFacts DEF FInv
      <3>. QED BY <2>2, <3>1 DEF FConn, Alive, Busy, Engaged, Sock, serverVars
    <2>. QED BY <2>1, <2>2
  <1>2. ASSUME NEW d \in Clients, d # c PROVE FCall(L, X, C, d)'
    <2>1. FCall(L, X, C, d) /\ (Busy(d) => Sock(d, call[d].id) \in Conns)
      BY CallTypes DEF FInv
    <2>2. Sock(d, call[d].id)[1] = d
      BY DEF Sock
    <2>3. Busy(d) => LET k == Sock(d, call[d].id) IN
                     k' = k /\ req'[k] = req[k] /\ rep'[k] = rep[k]
      BY <1>2, <2>1, <2>2 DEF Sock
    <2>4. /\ call'[d] = call[d] /\ mapped'[d] = mapped[d] /\ local'[d] = local[d]
          /\ base'[d] = base[d] /\ blocks' = blocks /\ Busy(d)' = Busy(d) /\ Alive(d)' = Alive(d)
      BY <1>2 DEF Alive, Busy, serverVars
    <2>5. RequestOf(d)' = RequestOf(d) /\ Prompt(L, d, call[d].id)' = Prompt(L, d, call[d].id)
      BY <2>4 DEF RequestOf, Prompt
    <2>6. Busy(d) => LET k == Sock(d, call[d].id) IN
                     FReply(X, d, Head(rep[k])) => FReply(X, d, Head(rep[k]))'
      <3>1. PICK r : r = Head(rep[Sock(d, call[d].id)])
        OBVIOUS
      <3>2. Busy(d) => r = Head(rep[Sock(d, call[d].id)])'
        BY <2>3, <3>1
      <3>3. FReply(X, d, r) => FReply(X, d, r)'
        BY <2>4 DEF FReply, ReplyOK, Agrees
      <3>. QED BY <3>1, <3>2, <3>3 DEF FReply, ReplyOK
    <2>. QED BY <2>1, <2>3, <2>4, <2>5, <2>6 DEF FCall
  <1>3. ASSUME NEW d \in Clients, NEW b \in Blocks, d # c PROVE FCopy(L, X, d, b)'
    <2>1. FCopy(L, X, d, b) BY DEF FInv
    <2>. QED BY <1>3, <2>1 DEF FCopy, Prompt, Intact, Agrees, Alive, Busy, Held, serverVars
  <1>4. ASSUME NEW d \in Clients, NEW b \in Blocks, d # c PROVE FAssoc(L, d, b)'
    <2>1. FAssoc(L, d, b) /\ (Alive(d) => Sock(d, b) \in Conns)
      BY CallTypes DEF FInv
    <2>2. Sock(d, b)[1] = d
      BY DEF Sock
    <2>3. Alive(d) => LET k == Sock(d, b) IN
                      k' = k /\ req'[k] = req[k] /\ rep'[k] = rep[k]
      BY <1>4, <2>1, <2>2 DEF Sock
    <2>. QED BY <1>4, <2>1, <2>3 DEF FAssoc, AssocOK, Prompt, Alive, Busy, serverVars
  <1>5. \A d \in Clients :
          FCall(L, X, C, d)' /\ \A b \in Blocks : FCopy(L, X, d, b)' /\ FAssoc(L, d, b)'
    BY <1>2, <1>3, <1>4
  <1>. QED BY <1>1, <1>5 DEF FInv

LEMMA FDmInitStep ==
  ASSUME NEW L, NEW X, NEW C, FInv(L, X, C), TypeInv', NEW c \in Clients, DmInit(c),
         UNCHANGED serverVars
  PROVE  FInv(L, X, C)'
  <1>1. /\ gen[c] \in Nat /\ gen'[c] = gen[c] + 1 /\ call'[c] = Idle /\ ~Busy(c)
        /\ \A d \in Clients : d # c => call'[d] = call[d] /\ gen'[d] = gen[d]
        /\ mapped' = mapped /\ local' = local /\ base' = base /\ req' = req /\ rep' = rep
    <2>1. gen \in [Clients -> 0 .. MaxInits] /\ DOMAIN call = Clients
      BY DEF FInv, TypeInv, TypeOK, ClientTypeOK
    <2>2. ~Busy(c)
      BY IdleIsNoCall DEF DmInit, Busy
    <2>. QED BY <2>1, <2>2 DEF DmInit
  <1>2. \A k \in Conns : link'[k] = IF k[1] = c /\ k[3] = gen[c] + 1 THEN "open" ELSE link[k]
    BY DEF DmInit
  <1>3. ~Busy(c)' /\ Alive(c)'
    BY <1>1, IdleIsNoCall DEF Busy, Alive
  <1>4. ASSUME NEW k \in Conns, k[1] = c PROVE FConn(L, C, k)'
    <2>1. FConn(L, C, k) /\ k[3] \in Nat
      BY TypeFacts DEF FInv
    <2>2. CASE k[3] = gen[c] + 1
      <3>1. /\ link[k] = "new" /\ link'[k] = "open" /\ req[k] = <<>> /\ rep[k] = <<>>
            /\ thread[k] = "recv" /\ k \notin C
        BY <1>1, <1>2, <1>4, <2>1, <2>2 DEF FConn
      <3>. QED BY <1>1, <1>3, <1>4, <2>2, <3>1 DEF FConn, serverVars
    <2>3. CASE k[3] # gen[c] + 1
      <3>1. link'[k] = link[k]
        BY <1>2, <2>3
      <3>2. link[k] = "open" /\ <<c, k[2]>> \notin L => req[k] = <<>> /\ rep[k] = <<>>
        BY <1>1, <1>4, <2>1 DEF FConn, Engaged
      <3>. QED BY <1>1, <1>3, <1>4, <2>1, <2>3, <3>1, <3>2 DEF FConn, serverVars
    <2>. QED BY <2>2, <2>3
  <1>5. FCall(L, X, C, c)'
    BY <1>1, <1>3 DEF FCall, Idle, Fault
  <1>6. ASSUME NEW b \in Blocks PROVE FCopy(L, X, c, b)' /\ FAssoc(L, c, b)'
    <2>1. FCopy(L, X, c, b) /\ FCall(L, X, C, c)
      BY DEF FInv
    <2>2. b \in mapped[c] => Alive(c) /\ call[c] = Idle
      BY <1>1, <2>1 DEF FCall, Alive
    <2>3. FCopy(L, X, c, b)'
      BY <1>1, <1>3, <2>1, <2>2 DEF FCopy, Prompt, Intact, Held, Agrees, serverVars
    <2>4. Sock(c, b)' \notin mappedClients[b]
      <3>1. Sock(c, b)' = <<c, Owner[b], gen[c] + 1>> /\ Sock(c, b)' \in Conns
        BY <1>1, <1>3, CallTypes, WireAssumption DEF Sock, TypeInv, TypeOK, ClientTypeOK, Conns
      <3>2. PICK k \in Conns : k = <<c, Owner[b], gen[c] + 1>>
        BY <3>1
      <3>3. FConn(L, C, k) /\ k[1] = c /\ k[3] = gen[c] + 1
        BY <3>2 DEF FInv
      <3>. QED BY <1>1, <3>1, <3>2, <3>3 DEF FConn
    <2>. QED BY <2>3, <2>4 DEF FAssoc, AssocOK, serverVars
  <1>8. \A k \in Conns : k[1] # c => link'[k] = link[k] /\ req'[k] = req[k] /\ rep'[k] = rep[k]
    BY <1>1, <1>2
  <1>. QED BY <1>1, <1>4, <1>5, <1>6, <1>8, FClientFrame

\* A process that ends: Exit, and the null dereference of a late client.
LEMMA FDeath ==
  ASSUME NEW L, NEW X, NEW C, FInv(L, X, C), TypeInv', NEW c \in Clients,
         NEW v \in {Off, Fault}, call' = [call EXCEPT ![c] = v],
         v = Fault => \E s \in Servers : <<c, s>> \in L,
         Reset(c), CloseAll(c), UNCHANGED <<gen, req>>, UNCHANGED serverVars
  PROVE  FInv(L, X, C)'
  <1>1. /\ call'[c] = v /\ mapped'[c] = {} /\ gen' = gen /\ req' = req
        /\ \A b \in Blocks : local'[c][b] = NoCopy(b)
        /\ \A d \in Clients : d # c => /\ call'[d] = call[d] /\ mapped'[d] = mapped[d]
                                      /\ local'[d] = local[d] /\ base'[d] = base[d]
    BY DEF Reset, FInv, TypeInv, TypeOK, ClientTypeOK
  <1>2. \A k \in Conns :
          /\ link'[k] = IF k[1] = c /\ link[k] = "open" THEN "closed" ELSE link[k]
          /\ rep'[k] = IF k[1] = c THEN <<>> ELSE rep[k]
    BY DEF CloseAll
  <1>3. ~Busy(c)' /\ ~Alive(c)'
    BY <1>1 DEF Busy, Alive, Calls, Off, Idle, Fault
  <1>4. ASSUME NEW k \in Conns, k[1] = c PROVE FConn(L, C, k)'
    <2>1. FConn(L, C, k)
      BY DEF FInv
    <2>2. link'[k] # "open" /\ rep'[k] = <<>> /\ (link'[k] = "new" <=> link[k] = "new")
      BY <1>2, <1>4
    <2>. QED BY <1>1, <1>3, <1>4, <2>1, <2>2 DEF FConn, serverVars
  <1>5. FCall(L, X, C, c)'
    BY <1>1, <1>3 DEF FCall
  <1>6. ASSUME NEW b \in Blocks PROVE FCopy(L, X, c, b)' /\ FAssoc(L, c, b)'
    <2>. DEFINE empty == NoCopy(b)
    <2>1. empty.id = b
      BY DEF NoCopy, NewCopy
    <2>2. FCopy(L, X, c, b)'
      <3>1. local'[c][b] = empty
        BY <1>1
      <3>2. local'[c][b].id = b
        BY <2>1, <3>1
      <3>. QED BY <1>3, <3>2 DEF FCopy
    <2>3. FAssoc(L, c, b)'
      BY <1>3 DEF FAssoc, AssocOK
    <2>. QED BY <2>2, <2>3
  <1>7. \A k \in Conns : k[1] # c => link'[k] = link[k] /\ req'[k] = req[k] /\ rep'[k] = rep[k]
    BY <1>1, <1>2
  <1>. QED BY <1>1, <1>4, <1>5, <1>6, <1>7, FClientFrame

\* A call is begun: its request is alone in its connection, unless answers
\* of earlier calls may still be under way.
LEMMA FSendFrame ==
  ASSUME NEW L, NEW X, NEW C, FInv(L, X, C), TypeInv', NEW c \in Clients, NEW b \in Blocks,
         NEW op \in Calls, NEW m \in BoundedRequest,
         call[c] = Idle, Send(c, op, b, m), UNCHANGED serverVars,
         \A d \in Clients : d # c => /\ mapped'[d] = mapped[d] /\ local'[d] = local[d]
                                   /\ base'[d] = base[d],
         b \in mapped'[c], op = "MAP" => b \notin mapped[c],
         op \in {"MAP", "WRITE", "WAIT"} => local'[c][b].valid,
         m = IF op = "WRITE" THEN WriteRequest(local'[c][b], base'[c][b])
             ELSE ShallowRequest(op, local'[c][b]),
         \A x \in Blocks : Prompt(L, c, x) => local'[c][x].id = x,
         \A x \in Blocks : x # b \/ op # "MAP" =>
            /\ x \in mapped'[c] <=> x \in mapped[c]
            /\ local'[c][x] = local[c][x] /\ base'[c][x] = base[c][x]
  PROVE  FInv(L, X, C)'
  <1>. DEFINE k == Sock(c, b)
              now == [op |-> op, id |-> b]
  <1>1. /\ call'[c] = now /\ gen' = gen /\ link' = link /\ rep' = rep
        /\ \A d \in Clients : d # c => call'[d] = call[d]
        /\ req' = [req EXCEPT ![k] = Append(@, m)]
    BY DEF Send, FInv, TypeInv, TypeOK, ClientTypeOK
  <1>2. Alive(c) /\ ~Busy(c) /\ Alive(c)' /\ Busy(c)' /\ call'[c] # Fault
    BY <1>1, IdleIsNoCall DEF Alive, Busy, Idle, Fault
  <1>3. k \in Conns /\ k[1] = c /\ k[2] = Owner[b] /\ k[3] = gen[c] /\ k' = k
    BY <1>1, <1>2, CallTypes DEF FInv, Sock
  <1>4. link[k] = "open" /\ (Prompt(L, c, b) => req[k] = <<>> /\ rep[k] = <<>>)
    <2>1. FConn(L, C, k)
      BY <1>3 DEF FInv
    <2>. QED BY <1>2, <1>3, <2>1 DEF FConn, Engaged, Prompt
  <1>5. /\ Prompt(L, c, b) => req'[k] = <<m>>
        /\ \A j \in Conns : j # k => req'[j] = req[j]
    <2>1. req \in [Conns -> Seq(Request)]
      BY DEF FInv, TypeInv, TypeOK, WireTypeOK
    <2>2. req'[k] = Append(req[k], m) /\ \A j \in Conns : j # k => req'[j] = req[j]
      BY <1>1, <1>3, <2>1
    <2>3. Append(<<>>, m) = <<m>>
      OBVIOUS
    <2>. QED BY <1>4, <2>2, <2>3
  <1>6. Head(<<m>>) = m /\ Tail(<<m>>) = <<>> /\ <<m>> # <<>>
    OBVIOUS
  <1>7. ASSUME NEW j \in Conns, j[1] = c PROVE FConn(L, C, j)'
    <2>1. FConn(L, C, j)
      BY DEF FInv
    <2>2. CASE j = k
      <3>1. Engaged(c, k)'
        BY <1>1, <1>2, <1>3 DEF Engaged
      <3>2. <<c, k[2]>> \notin L => Tail(req'[k]) = <<>>
        BY <1>3, <1>5, <1>6 DEF Prompt
      <3>. QED BY <1>1, <1>2, <1>3, <1>4, <2>1, <2>2, <3>1, <3>2 DEF FConn, serverVars
    <2>3. CASE j # k
      <3>1. link[j] = "open" /\ <<c, j[2]>> \notin L => req[j] = <<>> /\ rep[j] = <<>>
        BY <1>2, <1>7, <2>1 DEF FConn, Engaged
      <3>. QED BY <1>1, <1>2, <1>5, <1>7, <2>1, <2>3, <3>1 DEF FConn, serverVars
    <2>. QED BY <2>2, <2>3
  <1>8. RequestOf(c)' = m /\ call'[c].id = b /\ call'[c].op = op
    BY <1>1 DEF RequestOf
  <1>9. FCall(L, X, C, c)'
    <2>1. Prompt(L, c, b) => req'[k] # <<>> /\ rep'[k] = <<>> /\ Head(req'[k]) = m
      BY <1>1, <1>4, <1>5, <1>6
    <2>. QED BY <1>1, <1>2, <1>3, <1>8, <2>1 DEF FCall, Prompt
  <1>10. ASSUME NEW x \in Blocks PROVE FCopy(L, X, c, x)'
    <2>1. FCopy(L, X, c, x)
      BY DEF FInv
    <2>2. x \in Held(c)' => x \in Held(c) /\ (x # b \/ op # "MAP")
      BY <1>1 DEF Held, Idle
    <2>. QED BY <1>2, <2>1, <2>2 DEF FCopy, Prompt, Intact, Agrees, serverVars
  <1>11. ASSUME NEW x \in Blocks, Prompt(L, c, x) PROVE AssocOK(c, x)'
    <2>1. AssocOK(c, x) /\ mappedClients' = mappedClients /\ Sock(c, x)' = Sock(c, x)
      BY <1>1, <1>11 DEF FInv, FAssoc, serverVars, Sock
    <2>2. CASE x = b
      <3>1. now = [op |-> "MAP", id |-> x] => op = "MAP"
        OBVIOUS
      <3>. QED BY <1>1, <1>2, <1>4, <1>11, <2>1, <2>2, <3>1 DEF AssocOK
    <2>3. CASE x # b
      <3>1. now # [op |-> "MAP", id |-> x] /\ now # [op |-> "UNMAP", id |-> x]
        BY <2>3
      <3>. QED BY <1>1, <1>2, <2>1, <2>3, <3>1 DEF AssocOK
    <2>. QED BY <2>2, <2>3
  <1>12. \A x \in Blocks : FAssoc(L, c, x)'
    BY <1>11 DEF FAssoc, Prompt
  <1>13. \A j \in Conns : j[1] # c => link'[j] = link[j] /\ req'[j] = req[j] /\ rep'[j] = rep[j]
    BY <1>1, <1>3, <1>5
  <1>. QED BY <1>1, <1>7, <1>9, <1>10, <1>12, <1>13, FClientFrame

\* The calls that leave the local copies alone until the reply.
LEMMA FSendSame ==
  ASSUME NEW L, NEW X, NEW C, FInv(L, X, C), TypeInv', NEW c \in Clients, NEW b \in Blocks,
         NEW op \in {"UNMAP", "UPDATE", "WRITE", "WAIT"},
         call[c] = Idle, b \in mapped[c], UNCHANGED <<mapped, local, base, serverVars>>,
         op \in {"WRITE", "WAIT"} => local[c][b].valid,
         op = "WRITE" => local[c][b].rev < MaxRev,
         Send(c, op, b, IF op = "WRITE" THEN WriteRequest(local[c][b], base[c][b])
                        ELSE ShallowRequest(op, local[c][b]))
  PROVE  FInv(L, X, C)'
  <1>1. PICK m \in BoundedRequest :
          m = IF op = "WRITE" THEN WriteRequest(local[c][b], base[c][b])
              ELSE ShallowRequest(op, local[c][b])
    <2>1. local[c][b] \in Copy /\ base[c][b] \in Data
      BY TypeFacts DEF FInv
    <2>2. CASE op = "WRITE"
      <3>1. WriteRequest(local[c][b], base[c][b]) \in BoundedRequest
        BY <2>1, <2>2, RequestTypes
      <3>. QED BY <2>2, <3>1
    <2>3. CASE op # "WRITE"
      <3>1. ShallowRequest(op, local[c][b]) \in BoundedRequest
        BY <2>1, <2>3, RequestTypes DEF Calls
      <3>. QED BY <2>3, <3>1
    <2>. QED BY <2>2, <2>3
  <1>2. \A x \in Blocks : Prompt(L, c, x) => local'[c][x].id = x
    BY DEF FInv, FCopy
  <1>3. op \in Calls /\ op # "MAP"
    BY DEF Calls
  <1>. QED BY <1>1, <1>2, <1>3, FSendFrame

LEMMA FBeginMapStep ==
  ASSUME NEW L, NEW X, NEW C, FInv(L, X, C), TypeInv', NEW c \in Clients, NEW b \in Blocks,
         NEW x \in Data, BeginMap(c, b, x), UNCHANGED serverVars
  PROVE  FInv(L, X, C)'
  <1>. DEFINE l == NewCopy(b, x)
  <1>1. l \in Copy /\ l.id = b /\ l.valid
    BY WireAssumption DEF NewCopy, Copy, Revs
  <1>2. PICK m \in BoundedRequest : m = ShallowRequest("MAP", l)
    BY <1>1, RequestTypes DEF Calls
  <1>3. call[c] = Idle /\ b \notin mapped[c] /\ Send(c, "MAP", b, m)
    BY <1>2 DEF BeginMap
  <1>4. /\ mapped \in [Clients -> SUBSET Blocks] /\ local \in [Clients -> [Blocks -> Copy]]
        /\ base \in [Clients -> [Blocks -> Data]]
    BY DEF FInv, TypeInv, TypeOK, ClientTypeOK
  <1>5. /\ mapped'[c] = mapped[c] \cup {b} /\ local'[c][b] = l
        /\ \A y \in Blocks : y # b => local'[c][y] = local[c][y] /\ base'[c][y] = base[c][y]
        /\ \A d \in Clients : d # c => /\ mapped'[d] = mapped[d] /\ local'[d] = local[d]
                                     /\ base'[d] = base[d]
    BY <1>4 DEF BeginMap, SetCopy
  <1>6. ASSUME NEW y \in Blocks, Prompt(L, c, y) PROVE local'[c][y].id = y
    <2>1. local[c][y].id = y
      BY <1>6 DEF FInv, FCopy
    <2>. QED BY <1>1, <1>5, <2>1
  <1>. HIDE DEF l
  <1>7. "MAP" \in Calls /\ "MAP" # "WRITE"
    BY DEF Calls
  <1>. QED BY <1>1, <1>2, <1>3, <1>5, <1>6, <1>7, FSendFrame

LEMMA FBeginSameStep ==
  ASSUME NEW L, NEW X, NEW C, FInv(L, X, C), TypeInv', NEW c \in Clients, NEW b \in Blocks,
         UNCHANGED serverVars,
         BeginUnmap(c, b) \/ BeginUpdate(c, b) \/ BeginWrite(c, b) \/ BeginWait(c, b)
  PROVE  FInv(L, X, C)'
  <1>1. CASE BeginUnmap(c, b)
    BY <1>1, FSendSame DEF BeginUnmap
  <1>2. CASE BeginUpdate(c, b)
    BY <1>2, FSendSame DEF BeginUpdate
  <1>3. CASE BeginWrite(c, b)
    BY <1>3, FSendSame DEF BeginWrite
  <1>4. CASE BeginWait(c, b)
    BY <1>4, FSendSame DEF BeginWait
  <1>. QED BY <1>1, <1>2, <1>3, <1>4

LEMMA FStoreStep ==
  ASSUME NEW L, NEW X, NEW C, FInv(L, X, C), TypeInv', NEW c \in Clients, NEW b \in Blocks,
         NEW x \in Data, Store(c, b, x), UNCHANGED serverVars
  PROVE  FInv(L, X, C)'
  <1>1. /\ call[c] = Idle /\ b \in mapped[c]
        /\ UNCHANGED <<mapped, call, gen, base, link, req, rep>>
        /\ SetCopy(c, b, [local[c][b] EXCEPT !.data = x])
    BY DEF Store, wireVars
  <1>2. /\ local'[c][b] = [local[c][b] EXCEPT !.data = x]
        /\ \A y \in Blocks : y # b => local'[c][y] = local[c][y]
        /\ \A d \in Clients : d # c => local'[d] = local[d]
    BY <1>1 DEF SetCopy, FInv, TypeInv, TypeOK, ClientTypeOK
  <1>3. ~Busy(c) /\ ~Busy(c)' /\ call'[c] # Fault
    BY <1>1, IdleIsNoCall DEF Busy, Idle, Fault
  <1>4. \A y \in Blocks : /\ local'[c][y].id = local[c][y].id
                          /\ local'[c][y].rev = local[c][y].rev
                          /\ local'[c][y].valid = local[c][y].valid
    <2>1. local[c][b] \in Copy
      BY TypeFacts DEF FInv
    <2>. QED BY <1>2, <2>1 DEF Copy
  <1>5. ASSUME NEW k \in Conns PROVE FConn(L, C, k)'
    <2>1. FConn(L, C, k)
      BY DEF FInv
    <2>. QED BY <1>1, <2>1 DEF FConn, Alive, Busy, Engaged, Sock, serverVars
  <1>6. FCall(L, X, C, c)'
    BY <1>1, <1>3 DEF FCall, Alive
  <1>7. ASSUME NEW y \in Blocks PROVE FCopy(L, X, c, y)' /\ FAssoc(L, c, y)'
    <2>1. FCopy(L, X, c, y) /\ FAssoc(L, c, y)
      BY DEF FInv
    <2>2. FCopy(L, X, c, y)'
      BY <1>1, <1>4, <2>1 DEF FCopy, Prompt, Intact, Agrees, Alive, Busy, Held, serverVars
    <2>3. FAssoc(L, c, y)'
      BY <1>1, <2>1 DEF FAssoc, AssocOK, Prompt, Alive, Busy, Sock, serverVars
    <2>. QED BY <2>2, <2>3
  <1>. QED BY <1>1, <1>2, <1>3, <1>5, <1>6, <1>7, FClientFrame

\* The reply is read.
LEMMA FReceiveFacts ==
  ASSUME NEW L, NEW X, NEW C, FInv(L, X, C), NEW c \in Clients, Busy(c),
         rep[Sock(c, call[c].id)] # <<>>
  PROVE  LET b == call[c].id
             k == Sock(c, b) IN
         /\ b \in Blocks /\ k \in Conns /\ b \in mapped[c] /\ Alive(c) /\ link[k] = "open"
         /\ Ack(c) \in Reply /\ Ack(c).type \in {"ACK", "NACK"}
         /\ Prompt(L, c, b) => /\ req[k] = <<>> /\ Tail(rep[k]) = <<>> /\ Ack(c) = Head(rep[k])
                               /\ FReply(X, c, Ack(c)) /\ AssocOK(c, b)
         /\ FCall(L, X, C, c) /\ FCopy(L, X, c, b)
         /\ local[c][b] \in Copy /\ base[c][b] \in Data
         /\ call[c] = [op |-> call[c].op, id |-> b]
  <1>. DEFINE b == call[c].id
              k == Sock(c, b)
  <1>1. b \in Blocks /\ k \in Conns /\ Alive(c)
    BY CallTypes DEF FInv, Alive
  <1>2. FCall(L, X, C, c) /\ FCopy(L, X, c, b) /\ FAssoc(L, c, b) /\ FConn(L, C, k)
    BY <1>1 DEF FInv
  <1>3. b \in mapped[c] /\ link[k] = "open"
    BY <1>2 DEF FCall, FConn
  <1>4. Prompt(L, c, b) => /\ req[k] = <<>> /\ Tail(rep[k]) = <<>> /\ FReply(X, c, Head(rep[k]))
                           /\ AssocOK(c, b)
    BY <1>2 DEF FCall, FAssoc
  <1>5. Head(rep[k]) \in Reply
    BY <1>1, HeadTailProperties DEF FInv, TypeInv, TypeOK, WireTypeOK
  <1>6. Ack(c) = Head(rep[k]) /\ Ack(c).type \in {"ACK", "NACK"}
    BY <1>5 DEF Ack, Reply
  <1>7. local[c][b] \in Copy /\ base[c][b] \in Data
    BY <1>1, TypeFacts DEF FInv
  <1>8. call[c] = [op |-> call[c].op, id |-> b]
    <2>1. call[c] \in [op : Calls, id : Blocks] \cup {Off, Idle, Fault}
      BY DEF FInv, TypeInv, TypeOK, ClientTypeOK
    <2>2. call[c] \in [op : Calls, id : Blocks]
      BY <2>1 DEF Busy, Calls, Off, Idle, Fault
    <2>. QED BY <2>2
  <1>. QED BY <1>1, <1>2, <1>3, <1>4, <1>5, <1>6, <1>7, <1>8

\* What a return has to establish: the copy it leaves, and that an
\* association on the server is one of the client.
LEMMA FReceiveFrame ==
  ASSUME NEW L, NEW X, NEW C, FInv(L, X, C), TypeInv', NEW c \in Clients, NEW op \in Calls,
         Receive(c, op), NEW b \in Blocks, b = call[c].id, UNCHANGED serverVars,
         \A d \in Clients : d # c => /\ mapped'[d] = mapped[d] /\ local'[d] = local[d]
                                   /\ base'[d] = base[d],
         \A x \in Blocks : x # b =>
            /\ x \in mapped'[c] <=> x \in mapped[c]
            /\ local'[c][x] = local[c][x] /\ base'[c][x] = base[c][x],
         FCopy(L, X, c, b)',
         Prompt(L, c, b) /\ Sock(c, b) \in mappedClients[b] => b \in mapped'[c]
  PROVE  FInv(L, X, C)'
  <1>. DEFINE k == Sock(c, b)
  <1>1. Busy(c) /\ rep[k] # <<>>
    BY DEF Receive, Busy
  <1>2. /\ b \in Blocks /\ k \in Conns /\ link[k] = "open" /\ Alive(c)
        /\ Prompt(L, c, b) => req[k] = <<>> /\ Tail(rep[k]) = <<>>
    BY <1>1, FReceiveFacts
  <1>3. /\ call'[c] = Idle /\ gen' = gen /\ link' = link /\ req' = req
        /\ k[1] = c /\ k[2] = Owner[b] /\ k[3] = gen[c]
        /\ rep'[k] = Tail(rep[k]) /\ \A j \in Conns : j # k => rep'[j] = rep[j]
        /\ \A d \in Clients : d # c => call'[d] = call[d]
    <2>1. rep \in [Conns -> Seq(Reply)] /\ DOMAIN call = Clients
      BY DEF FInv, TypeInv, TypeOK, WireTypeOK, ClientTypeOK
    <2>. QED BY <1>2, <2>1 DEF Receive, Sock
  <1>4. ~Busy(c)' /\ Alive(c)' /\ call'[c] # Fault
    BY <1>3, IdleIsNoCall DEF Busy, Alive, Idle, Fault
  <1>5. ASSUME NEW j \in Conns, j[1] = c PROVE FConn(L, C, j)'
    <2>1. FConn(L, C, j)
      BY DEF FInv
    <2>2. CASE j = k
      BY <1>2, <1>3, <1>4, <2>1, <2>2 DEF FConn, Prompt, serverVars
    <2>3. CASE j # k
      <3>1. link[j] = "open" /\ <<c, j[2]>> \notin L => req[j] = <<>> /\ rep[j] = <<>>
        BY <1>1, <1>5, <2>1, <2>3 DEF FConn, Engaged
      <3>. QED BY <1>2, <1>3, <1>4, <1>5, <2>1, <2>3, <3>1 DEF FConn, serverVars
    <2>. QED BY <2>2, <2>3
  <1>6. FCall(L, X, C, c)'
    BY <1>4 DEF FCall
  <1>7. ASSUME NEW x \in Blocks PROVE FCopy(L, X, c, x)'
    <2>1. CASE x = b BY <2>1
    <2>2. CASE x # b
      <3>1. FCopy(L, X, c, x) /\ (x \in Held(c)' => x \in Held(c))
        <4>1. call[c] # [op |-> "MAP", id |-> x] BY <2>2
        <4>. QED BY <2>2, <4>1 DEF FInv, Held
      <3>. QED BY <1>2, <1>4, <2>2, <3>1 DEF FCopy, Prompt, Intact, Agrees, serverVars
    <2>. QED BY <2>1, <2>2
  <1>8. ASSUME NEW x \in Blocks, Prompt(L, c, x) PROVE AssocOK(c, x)'
    <2>1. /\ AssocOK(c, x) /\ mappedClients' = mappedClients /\ Sock(c, x)' = Sock(c, x)
          /\ Idle # [op |-> "MAP", id |-> x] /\ Idle # [op |-> "UNMAP", id |-> x]
      BY <1>3, <1>8 DEF FInv, FAssoc, serverVars, Sock, Idle
    <2>2. Sock(c, x) \in mappedClients[x] => x \in mapped'[c]
      BY <1>2, <1>8, <2>1 DEF AssocOK
    <2>. QED BY <1>3, <2>1, <2>2 DEF AssocOK
  <1>9. \A x \in Blocks : FAssoc(L, c, x)'
    BY <1>8 DEF FAssoc, Prompt
  <1>10. \A j \in Conns : j[1] # c => link'[j] = link[j] /\ req'[j] = req[j] /\ rep'[j] = rep[j]
    BY <1>3
  <1>. QED BY <1>3, <1>5, <1>6, <1>7, <1>9, <1>10, FClientFrame

\* A return that leaves the mapping, and sets the copy and its base.
LEMMA FReturnSame ==
  ASSUME NEW L, NEW X, NEW C, FInv(L, X, C), TypeInv', NEW c \in Clients, NEW op \in Calls,
         Receive(c, op), NEW b \in Blocks, b = call[c].id, UNCHANGED <<mapped, serverVars>>,
         \A d \in Clients : d # c => local'[d] = local[d] /\ base'[d] = base[d],
         \A x \in Blocks : x # b => local'[c][x] = local[c][x] /\ base'[c][x] = base[c][x],
         Prompt(L, c, b) => local'[c][b].id = b,
         Intact(L, X, c, b) /\ b \in Hosted =>
            /\ Agrees(local'[c][b].rev, base'[c][b], b)
            /\ ~local'[c][b].valid => local'[c][b].rev < blocks[b].rev
  PROVE  FInv(L, X, C)'
  <1>1. Busy(c) /\ rep[Sock(c, b)] # <<>>
    BY DEF Receive, Busy
  <1>2. b \in mapped[c]
    BY <1>1, FReceiveFacts
  <1>3. Alive(c)'
    <2>1. call'[c] = Idle
      BY DEF Receive, FInv, TypeInv, TypeOK, ClientTypeOK
    <2>. QED BY <2>1 DEF Alive
  <1>4. FCopy(L, X, c, b)'
    BY <1>3 DEF FCopy, Prompt, Intact, Agrees, Held, serverVars
  <1>. QED BY <1>2, <1>4, FReceiveFrame

\* A return that leaves the copy alone.
LEMMA FReturnKeep ==
  ASSUME NEW L, NEW X, NEW C, FInv(L, X, C), TypeInv', NEW c \in Clients,
         NEW op \in Calls \ {"MAP"}, Receive(c, op), UNCHANGED <<mapped, local, base, serverVars>>
  PROVE  FInv(L, X, C)'
  <1>1. Busy(c) /\ rep[Sock(c, call[c].id)] # <<>> /\ call[c].op = op
    BY DEF Receive, Busy
  <1>2. PICK b \in Blocks : b = call[c].id
    BY <1>1, FReceiveFacts
  <1>3. FCopy(L, X, c, b) /\ b \in mapped[c] /\ Alive(c)
    BY <1>1, <1>2, FReceiveFacts
  <1>4. Intact(L, X, c, b) /\ b \in Hosted =>
          /\ Agrees(local[c][b].rev, base[c][b], b)
          /\ ~local[c][b].valid => local[c][b].rev < blocks[b].rev
    BY <1>1, <1>3 DEF FCopy, Held
  <1>. QED BY <1>2, <1>3, <1>4, FReturnSame DEF FCopy

\* An ACK of MAP or UPDATE without a block comes only to a client that is late.
LEMMA FNullBlockStep ==
  ASSUME NEW L, NEW X, NEW C, FInv(L, X, C), TypeInv', NEW c \in Clients,
         NEW op \in {"MAP", "UPDATE"}, NullBlock(c, op), UNCHANGED serverVars
  PROVE  FInv(L, X, C)'
  <1>1. /\ Busy(c) /\ rep[Sock(c, call[c].id)] # <<>> /\ call[c].op = op
        /\ Ack(c).type = "ACK" /\ Ack(c).block = NoBlock
    BY DEF NullBlock, Busy, Calls
  <1>2. call[c].id \in Blocks /\ (Prompt(L, c, call[c].id) => FReply(X, c, Ack(c)))
    BY <1>1, FReceiveFacts
  <1>3. ~Prompt(L, c, call[c].id)
    BY <1>1, <1>2 DEF FReply
  <1>4. \E s \in Servers : <<c, s>> \in L
    BY <1>2, <1>3, WireAssumption DEF Prompt
  <1>5. /\ call' = [call EXCEPT ![c] = Fault] /\ Reset(c) /\ CloseAll(c)
        /\ UNCHANGED <<gen, req>>
    BY DEF NullBlock
  <1>. QED BY <1>4, <1>5, FDeath

\* dm_block_map and dm_block_update install the block of the answer.
LEMMA FInstallStep ==
  ASSUME NEW L, NEW X, NEW C, FInv(L, X, C), TypeInv', NEW c \in Clients,
         NEW op \in {"MAP", "UPDATE"}, Receive(c, op), UNCHANGED <<mapped, serverVars>>,
         Ack(c).type = "ACK", Ack(c).block # NoBlock, NEW v \in BOOLEAN,
         Install(c, call[c].id, Ack(c).block, v), op = "MAP" => v = local[c][call[c].id].valid,
         op = "UPDATE" => v /\ local[c][call[c].id].rev # Ack(c).block.rev
  PROVE  FInv(L, X, C)'
  <1>1. op \in Calls
    BY DEF Calls
  <1>2. Busy(c) /\ rep[Sock(c, call[c].id)] # <<>> /\ call[c].op = op
    BY <1>1 DEF Receive, Busy
  <1>3. PICK b \in Blocks : b = call[c].id
    BY <1>2, FReceiveFacts
  <1>4. /\ Ack(c) \in Reply /\ FCall(L, X, C, c)
        /\ Prompt(L, c, b) => FReply(X, c, Ack(c))
    BY <1>2, <1>3, FReceiveFacts
  <1>5. v
    BY <1>2, <1>3, <1>4 DEF FCall
  <1>6. PICK blk \in BlockInfo : blk = Ack(c).block
    BY <1>4 DEF Reply
  <1>7. Prompt(L, c, b) => blk.id = b
    BY <1>2, <1>3, <1>4, <1>6 DEF FReply
  <1>8. Intact(L, X, c, b) /\ b \in Hosted => blk.data # NoData /\ Agrees(blk.rev, blk.data, b)
    <2>. SUFFICES ASSUME Intact(L, X, c, b), b \in Hosted
                  PROVE  blk.data # NoData /\ Agrees(blk.rev, blk.data, b)
      OBVIOUS
    <2>1. ReplyOK(c, Ack(c))
      BY <1>3, <1>4 DEF Intact, FReply
    <2>. QED BY <1>2, <1>3, <1>6, <2>1 DEF ReplyOK
  <1>9. /\ local'[c][b].id = blk.id /\ local'[c][b].rev = blk.rev /\ local'[c][b].valid = v
        /\ base'[c][b] = Content(blk)
        /\ \A d \in Clients : d # c => local'[d] = local[d] /\ base'[d] = base[d]
        /\ \A x \in Blocks : x # b => local'[c][x] = local[c][x] /\ base'[c][x] = base[c][x]
    <2>1. Install(c, b, blk, v) /\ TypeInv
      BY <1>3, <1>6 DEF FInv
    <2>. QED BY <2>1, InstallFacts
  <1>10. Intact(L, X, c, b) /\ b \in Hosted =>
            /\ Agrees(local'[c][b].rev, base'[c][b], b)
            /\ ~local'[c][b].valid => local'[c][b].rev < blocks[b].rev
    BY <1>5, <1>8, <1>9 DEF Content
  <1>. QED BY <1>1, <1>3, <1>7, <1>9, <1>10, FReturnSame

LEMMA FReturnMapStep ==
  ASSUME NEW L, NEW X, NEW C, FInv(L, X, C), TypeInv', NEW c \in Clients, ReturnMap(c),
         UNCHANGED serverVars
  PROVE  FInv(L, X, C)'
  <1>1. CASE NullBlock(c, "MAP")
    BY <1>1, FNullBlockStep
  <1>2. CASE Receive(c, "MAP") /\ Ack(c).type = "NACK" /\ UNCHANGED <<mapped, local, base>>
    <2>1. Busy(c) /\ rep[Sock(c, call[c].id)] # <<>> /\ call[c].op = "MAP" /\ "MAP" \in Calls
      BY <1>2 DEF Receive, Busy, Calls
    <2>2. PICK b \in Blocks : b = call[c].id
      BY <2>1, FReceiveFacts
    <2>3. Prompt(L, c, b) => FReply(X, c, Ack(c))
      BY <2>1, <2>2, FReceiveFacts
    <2>4. ~(Intact(L, X, c, b) /\ b \in Hosted)
      <3>. SUFFICES ASSUME Intact(L, X, c, b), b \in Hosted PROVE FALSE
        OBVIOUS
      <3>1. ReplyOK(c, Ack(c))
        BY <2>2, <2>3 DEF FReply, Intact
      <3>2. Ack(c).type = "ACK"
        BY <2>1, <2>2, <3>1 DEF ReplyOK
      <3>. QED BY <1>2, <3>2
    <2>5. Prompt(L, c, b) => local[c][b].id = b
      BY <2>1, <2>2, FReceiveFacts DEF FCopy
    <2>. QED BY <1>2, <2>1, <2>2, <2>4, <2>5, FReturnSame
  <1>3. CASE /\ Receive(c, "MAP") /\ mapped' = mapped
             /\ Ack(c).type = "ACK" /\ Ack(c).block # NoBlock
             /\ Install(c, call[c].id, Ack(c).block, local[c][call[c].id].valid)
    <2>1. Busy(c)
      BY <1>3 DEF Receive, Busy, Calls
    <2>2. call[c].id \in Blocks
      BY <2>1, CallTypes DEF FInv
    <2>3. PICK v \in BOOLEAN : v = local[c][call[c].id].valid
      BY <2>2, TypeFacts DEF FInv, Copy
    <2>. QED BY <1>3, <2>3, FInstallStep
  <1>. QED BY <1>1, <1>2, <1>3 DEF ReturnMap

LEMMA FReturnUpdateStep ==
  ASSUME NEW L, NEW X, NEW C, FInv(L, X, C), TypeInv', NEW c \in Clients, ReturnUpdate(c),
         UNCHANGED serverVars
  PROVE  FInv(L, X, C)'
  <1>1. CASE NullBlock(c, "UPDATE")
    BY <1>1, FNullBlockStep
  <1>2. CASE Receive(c, "UPDATE") /\ UNCHANGED <<mapped, local, base>>
    BY <1>2, FReturnKeep DEF Calls
  <1>3. CASE /\ Receive(c, "UPDATE") /\ mapped' = mapped
             /\ Ack(c).type = "ACK" /\ Ack(c).block # NoBlock
             /\ local[c][call[c].id].rev # Ack(c).block.rev
             /\ Install(c, call[c].id, Ack(c).block, TRUE)
    BY <1>3, FInstallStep
  <1>. QED BY <1>1, <1>2, <1>3 DEF ReturnUpdate

LEMMA FReturnUnmapStep ==
  ASSUME NEW L, NEW X, NEW C, FInv(L, X, C), TypeInv', NEW c \in Clients, ReturnUnmap(c),
         UNCHANGED serverVars
  PROVE  FInv(L, X, C)'
  <1>1. Receive(c, "UNMAP") /\ "UNMAP" \in Calls \ {"MAP"}
    BY DEF ReturnUnmap, Calls
  <1>2. Busy(c) /\ rep[Sock(c, call[c].id)] # <<>> /\ call[c].op = "UNMAP"
    BY <1>1 DEF Receive, Busy
  <1>3. PICK b \in Blocks : b = call[c].id
    BY <1>2, FReceiveFacts
  <1>4. CASE Ack(c).type = "NACK"
    <2>1. UNCHANGED <<mapped, local, base>>
      BY <1>4 DEF ReturnUnmap
    <2>. QED BY <1>1, <2>1, FReturnKeep
  <1>5. CASE Ack(c).type # "NACK"
    <2>. DEFINE empty == NoCopy(b)
    <2>1. /\ mapped' = [mapped EXCEPT ![c] = mapped[c] \ {b}]
          /\ SetCopy(c, b, empty) /\ base' = [base EXCEPT ![c][b] = Zero]
      BY <1>3, <1>5 DEF ReturnUnmap
    <2>2. empty.id = b
      BY DEF NoCopy, NewCopy
    <2>. HIDE DEF empty
    <2>3. /\ local'[c][b] = empty /\ \A d \in Clients : d # c => local'[d] = local[d]
          /\ \A x \in Blocks : x # b => local'[c][x] = local[c][x]
      BY <2>1, CopyFrame DEF FInv
    <2>4. /\ \A d \in Clients : d # c => base'[d] = base[d]
          /\ \A x \in Blocks : x # b => base'[c][x] = base[c][x]
      BY <2>1 DEF FInv, TypeInv, TypeOK, ClientTypeOK
    <2>5. mapped'[c] = mapped[c] \ {b} /\ \A d \in Clients : d # c => mapped'[d] = mapped[d]
      BY <2>1 DEF FInv, TypeInv, TypeOK, ClientTypeOK
    <2>6. local'[c][b].id = b
      BY <2>2, <2>3
    <2>7. FCopy(L, X, c, b)'
      BY <2>5, <2>6 DEF FCopy, Held
    <2>8. Prompt(L, c, b) => Sock(c, b) \notin mappedClients[b]
      <3>1. /\ call[c] = [op |-> "UNMAP", id |-> b] /\ Alive(c)
            /\ Prompt(L, c, b) => Ack(c) = Head(rep[Sock(c, b)]) /\ AssocOK(c, b)
        BY <1>2, <1>3, FReceiveFacts
      <3>. QED BY <1>2, <1>3, <1>5, <3>1 DEF AssocOK
    <2>. QED BY <1>1, <1>3, <2>3, <2>4, <2>5, <2>7, <2>8, FReceiveFrame
  <1>. QED BY <1>4, <1>5

LEMMA FReturnWriteStep ==
  ASSUME NEW L, NEW X, NEW C, FInv(L, X, C), TypeInv', NEW c \in Clients, ReturnWrite(c),
         UNCHANGED serverVars
  PROVE  FInv(L, X, C)'
  <1>1. Receive(c, "WRITE") /\ mapped' = mapped /\ "WRITE" \in Calls
    BY DEF ReturnWrite, Calls
  <1>2. Busy(c) /\ rep[Sock(c, call[c].id)] # <<>> /\ call[c].op = "WRITE"
    BY <1>1 DEF Receive, Busy
  <1>3. PICK b \in Blocks : b = call[c].id
    BY <1>2, FReceiveFacts
  <1>4. /\ FCopy(L, X, c, b) /\ FCall(L, X, C, c) /\ Ack(c).type \in {"ACK", "NACK"}
        /\ b \in mapped[c] /\ Alive(c) /\ local[c][b] \in Copy
        /\ Prompt(L, c, b) => FReply(X, c, Ack(c))
    BY <1>2, <1>3, FReceiveFacts
  <1>5. local[c][b].valid /\ (Prompt(L, c, b) => local[c][b].id = b)
    BY <1>2, <1>3, <1>4 DEF FCall, FCopy
  <1>6. Intact(L, X, c, b) => ReplyOK(c, Ack(c))
    BY <1>3, <1>4 DEF Intact, FReply
  <1>7. CASE Ack(c).type = "NACK"
    <2>. DEFINE l == [local[c][b] EXCEPT !.valid = FALSE]
    <2>1. SetCopy(c, b, l) /\ base' = base
      BY <1>3, <1>7 DEF ReturnWrite
    <2>2. l.id = local[c][b].id /\ l.rev = local[c][b].rev
      BY <1>4 DEF Copy
    <2>. HIDE DEF l
    <2>3. /\ local'[c][b] = l /\ \A d \in Clients : d # c => local'[d] = local[d]
          /\ \A x \in Blocks : x # b => local'[c][x] = local[c][x]
      BY <2>1, CopyFrame DEF FInv
    <2>4. Intact(L, X, c, b) /\ b \in Hosted => /\ Agrees(local[c][b].rev, base[c][b], b)
                                                /\ local[c][b].rev < blocks[b].rev
      BY <1>2, <1>3, <1>4, <1>6, <1>7 DEF ReplyOK, FCopy, Held
    <2>5. Intact(L, X, c, b) /\ b \in Hosted =>
            Agrees(local'[c][b].rev, base'[c][b], b) /\ local'[c][b].rev < blocks[b].rev
      BY <2>1, <2>2, <2>3, <2>4
    <2>6. Prompt(L, c, b) => local'[c][b].id = b
      BY <1>5, <2>2, <2>3
    <2>. QED BY <1>1, <1>3, <2>1, <2>3, <2>5, <2>6, FReturnSame
  <1>8. CASE Ack(c).type = "ACK"
    <2>. DEFINE l == [local[c][b] EXCEPT !.rev = @ + 1]
                d0 == local[c][b].data
    <2>1. SetCopy(c, b, l) /\ base' = [base EXCEPT ![c][b] = d0]
      BY <1>3, <1>8 DEF ReturnWrite
    <2>2. l.id = local[c][b].id /\ l.rev = local[c][b].rev + 1 /\ l.valid
      BY <1>4, <1>5 DEF Copy
    <2>. HIDE DEF l, d0
    <2>3. /\ local'[c][b] = l /\ \A d \in Clients : d # c => local'[d] = local[d]
          /\ \A x \in Blocks : x # b => local'[c][x] = local[c][x]
      BY <2>1, CopyFrame DEF FInv
    <2>4. /\ base'[c][b] = d0 /\ \A d \in Clients : d # c => base'[d] = base[d]
          /\ \A x \in Blocks : x # b => base'[c][x] = base[c][x]
      BY <2>1 DEF FInv, TypeInv, TypeOK, ClientTypeOK
    <2>5. Intact(L, X, c, b) /\ b \in Hosted => Agrees(local[c][b].rev + 1, d0, b)
      BY <1>2, <1>3, <1>6, <1>8 DEF ReplyOK, d0
    <2>6. Intact(L, X, c, b) /\ b \in Hosted => Agrees(local'[c][b].rev, base'[c][b], b)
      BY <2>2, <2>3, <2>4, <2>5
    <2>7. (Prompt(L, c, b) => local'[c][b].id = b) /\ local'[c][b].valid
      BY <1>5, <2>2, <2>3
    <2>. QED BY <1>1, <1>3, <2>3, <2>4, <2>6, <2>7, FReturnSame
  <1>. QED BY <1>4, <1>7, <1>8

LEMMA FReturnWaitStep ==
  ASSUME NEW L, NEW X, NEW C, FInv(L, X, C), TypeInv', NEW c \in Clients, ReturnWait(c),
         UNCHANGED serverVars
  PROVE  FInv(L, X, C)'
  <1>1. Receive(c, "WAIT") /\ mapped' = mapped /\ base' = base /\ "WAIT" \in Calls \ {"MAP"}
    BY DEF ReturnWait, Calls
  <1>2. Busy(c) /\ rep[Sock(c, call[c].id)] # <<>> /\ call[c].op = "WAIT"
    BY <1>1 DEF Receive, Busy
  <1>3. PICK b \in Blocks : b = call[c].id
    BY <1>2, FReceiveFacts
  <1>4. /\ FCopy(L, X, c, b) /\ Ack(c).type \in {"ACK", "NACK"}
        /\ b \in mapped[c] /\ Alive(c) /\ local[c][b] \in Copy
        /\ Prompt(L, c, b) => FReply(X, c, Ack(c))
    BY <1>2, <1>3, FReceiveFacts
  <1>5. CASE Ack(c).type = "NACK"
    <2>1. local' = local
      BY <1>5 DEF ReturnWait
    <2>. QED BY <1>1, <2>1, FReturnKeep
  <1>6. CASE Ack(c).type = "ACK"
    <2>. DEFINE l == [local[c][b] EXCEPT !.valid = FALSE]
    <2>1. SetCopy(c, b, l)
      BY <1>3, <1>6 DEF ReturnWait
    <2>2. l.id = local[c][b].id /\ l.rev = local[c][b].rev
      BY <1>4 DEF Copy
    <2>. HIDE DEF l
    <2>3. /\ local'[c][b] = l /\ \A d \in Clients : d # c => local'[d] = local[d]
          /\ \A x \in Blocks : x # b => local'[c][x] = local[c][x]
      BY <2>1, CopyFrame DEF FInv
    <2>4. Intact(L, X, c, b) /\ b \in Hosted => /\ Agrees(local[c][b].rev, base[c][b], b)
                                                /\ local[c][b].rev < blocks[b].rev
      BY <1>2, <1>3, <1>4, <1>6 DEF FReply, ReplyOK, FCopy, Held, Intact
    <2>5. Intact(L, X, c, b) /\ b \in Hosted =>
            Agrees(local'[c][b].rev, base'[c][b], b) /\ local'[c][b].rev < blocks[b].rev
      BY <1>1, <2>2, <2>3, <2>4
    <2>6. Prompt(L, c, b) => local'[c][b].id = b
      BY <1>4, <2>2, <2>3 DEF FCopy
    <2>. QED BY <1>1, <1>3, <2>3, <2>5, <2>6, FReturnSame
  <1>. QED BY <1>4, <1>5, <1>6

\* A step of DMSystem preserves the invariant, whoever has been hit before.
LEMMA FStep ==
  ASSUME NEW L, NEW X, NEW C, FInv(L, X, C), Next
  PROVE  FInv(L, X, C)'
  <1>1. TypeInv'
    BY TypeStep DEF FInv, TimedNext
  <1>2. ASSUME NEW c \in Clients, ClientStep(c), UNCHANGED serverVars PROVE FInv(L, X, C)'
    <2>1. CASE DmInit(c) BY <1>1, <1>2, <2>1, FDmInitStep
    <2>2. CASE Exit(c)
      <3>1. /\ call' = [call EXCEPT ![c] = Off] /\ Reset(c) /\ CloseAll(c)
            /\ UNCHANGED <<gen, req>>
        BY <2>2 DEF Exit
      <3>2. Off # Fault
        BY DEF Off, Fault
      <3>. QED BY <1>1, <1>2, <3>1, <3>2, FDeath
    <2>3. CASE Begin(c)
      <3>1. PICK b \in Blocks :
              \/ \E d \in Data : BeginMap(c, b, d) \/ Store(c, b, d)
              \/ BeginUnmap(c, b) \/ BeginUpdate(c, b) \/ BeginWrite(c, b) \/ BeginWait(c, b)
        BY <2>3 DEF Begin
      <3>. QED BY <1>1, <1>2, <3>1, FBeginMapStep, FStoreStep, FBeginSameStep
    <2>4. CASE Return(c)
      BY <1>1, <1>2, <2>4, FReturnMapStep, FReturnUnmapStep, FReturnUpdateStep,
         FReturnWriteStep, FReturnWaitStep DEF Return
    <2>. QED BY <1>2, <2>1, <2>2, <2>3, <2>4 DEF ClientStep
  <1>3. ASSUME NEW k \in Conns, ServerStep(k), UNCHANGED clientVars PROVE FInv(L, X, C)'
    BY <1>1, <1>3, FServerStep
  <1>. QED BY <1>2, <1>3 DEF Next

LEMMA FStutter ==
  ASSUME NEW L, NEW X, NEW C, FInv(L, X, C), UNCHANGED vars
  PROVE  FInv(L, X, C)'
  <1>. UNCHANGED <<link, req, rep, blocks, mappedClients, thread, mapped, local, call, gen, base>>
    BY DEF vars, wireVars, serverVars, clientVars
  <1>1. TypeInv'
    BY TypeStep DEF FInv
  <1>2. ASSUME NEW k \in Conns PROVE FConn(L, C, k)'
    <2>1. FConn(L, C, k) BY DEF FInv
    <2>. QED BY <2>1 DEF FConn, Alive, Busy, Engaged, Sock
  <1>3. ASSUME NEW c \in Clients, NEW b \in Blocks PROVE FCopy(L, X, c, b)' /\ FAssoc(L, c, b)'
    <2>1. FCopy(L, X, c, b) /\ FAssoc(L, c, b) BY DEF FInv
    <2>. QED BY <2>1
         DEF FCopy, FAssoc, AssocOK, Agrees, Prompt, Intact, Held, Alive, Busy, Sock
  <1>4. ASSUME NEW c \in Clients PROVE FCall(L, X, C, c)'
    <2>1. FCall(L, X, C, c) BY DEF FInv
    <2>. QED BY <2>1
         DEF FCall, FReply, ReplyOK, RequestOf, Agrees, Prompt, Alive, Busy, Sock
  <1>. QED BY <1>1, <1>2, <1>3, <1>4 DEF FInv

-----------------------------------------------------------------------------
(* Who has been hit changes. *)

LEMMA FGrow ==
  ASSUME NEW L, NEW X, NEW C, NEW M, NEW Y, FInv(L, X, C), L \subseteq M, X \subseteq Y
  PROVE  FInv(M, Y, C)
  <1>1. \A c, b : (Prompt(M, c, b) => Prompt(L, c, b)) /\ (Intact(M, Y, c, b) => Intact(L, X, c, b))
    BY DEF Prompt, Intact
  <1>2. ASSUME NEW k \in Conns PROVE FConn(M, C, k)
    <2>1. FConn(L, C, k) BY DEF FInv
    <2>. QED BY <2>1 DEF FConn
  <1>3. ASSUME NEW c \in Clients, NEW b \in Blocks PROVE FCopy(M, Y, c, b) /\ FAssoc(M, c, b)
    <2>1. FCopy(L, X, c, b) /\ FAssoc(L, c, b) BY DEF FInv
    <2>. QED BY <1>1, <2>1 DEF FCopy, FAssoc
  <1>4. ASSUME NEW c \in Clients PROVE FCall(M, Y, C, c)
    <2>1. FCall(L, X, C, c) BY DEF FInv
    <2>2. \A r : FReply(X, c, r) => FReply(Y, c, r)
      BY DEF FReply
    <2>. QED BY <1>1, <2>1, <2>2 DEF FCall
  <1>. QED BY <1>2, <1>3, <1>4 DEF FInv

\* What a step leaves behind with the process, or with the mapping, it concerned.
LEMMA FForget ==
  ASSUME NEW L, NEW X, NEW C, NEW M, NEW Y, FInv(L, X, C)',
         \A c \in Clients, s \in Servers : <<c, s>> \in L /\ <<c, s>> \notin M => call'[c] = Off,
         \A c \in Clients, b \in Blocks : <<c, b>> \in X /\ <<c, b>> \notin Y => b \notin mapped'[c]
  PROVE  FInv(M, Y, C)'
  <1>1. \A c \in Clients : call'[c] = Off => ~Alive(c)' /\ ~Busy(c)' /\ call'[c] # Fault
    BY DEF Alive, Busy, Off, Idle, Fault, Calls
  <1>2. \A b \in Blocks : Owner[b] \in Servers
    BY WireAssumption
  <1>3. \A k \in Conns : k[1] \in Clients /\ k[2] \in Servers
    BY DEF Conns
  <1>4. ASSUME NEW k \in Conns PROVE FConn(M, C, k)'
    <2>1. FConn(L, C, k)' BY DEF FInv
    <2>. QED BY <1>1, <1>3, <2>1 DEF FConn
  <1>5. ASSUME NEW c \in Clients, NEW b \in Blocks PROVE FCopy(M, Y, c, b)' /\ FAssoc(M, c, b)'
    <2>1. FCopy(L, X, c, b)' /\ FAssoc(L, c, b)' BY DEF FInv
    <2>2. Alive(c)' /\ Prompt(M, c, b) => Prompt(L, c, b)
      BY <1>1, <1>2 DEF Prompt
    <2>3. Alive(c)' /\ Intact(M, Y, c, b) /\ b \in Held(c)' => Intact(L, X, c, b)
      BY <2>2 DEF Intact, Held
    <2>. QED BY <2>1, <2>2, <2>3 DEF FCopy, FAssoc, AssocOK, Prompt, Intact
  <1>6. ASSUME NEW c \in Clients PROVE FCall(M, Y, C, c)'
    <2>1. FCall(L, X, C, c)' BY DEF FInv
    <2>2. CASE Busy(c)'
      <3>1. call'[c].id \in Blocks /\ call'[c] # Fault
        BY <2>2 DEF FInv, TypeInv, TypeOK, ClientTypeOK, Busy, Calls, Off, Idle, Fault
      <3>2. PICK b \in Blocks : b = call'[c].id
        BY <3>1
      <3>3. b \in mapped'[c] /\ (Prompt(M, c, b) => Prompt(L, c, b))
        BY <1>1, <1>2, <2>1, <2>2, <3>2 DEF FCall, Prompt
      <3>4. \A r : FReply(X, c, r)' => FReply(Y, c, r)'
        BY <3>2, <3>3 DEF FReply, ReplyOK, Agrees
      <3>. QED BY <2>1, <2>2, <3>1, <3>2, <3>3, <3>4 DEF FCall, Prompt, Alive
    <2>3. CASE ~Busy(c)'
      <3>1. call'[c] = Fault => \E s \in Servers : <<c, s>> \in M
        BY <2>1, <1>1 DEF FCall
      <3>. QED BY <2>1, <2>3, <3>1 DEF FCall
    <2>. QED BY <2>2, <2>3
  <1>. QED BY <1>4, <1>5, <1>6 DEF FInv

-----------------------------------------------------------------------------
(* A call ends without an answer. *)

\* Its client is in application code again; its request, and the answer to it,
\* are forgotten or somebody's who has been hit.
LEMMA FEndCall ==
  ASSUME NEW L, NEW X, NEW C, FInv(L, X, C), TypeInv', NEW c \in Clients, Busy(c),
         call' = [call EXCEPT ![c] = Idle], UNCHANGED serverVars,
         UNCHANGED <<link, rep, mapped, local, gen, base>>,
         \A k \in Conns : ~Engaged(c, k) => req'[k] = req[k],
         \/ <<c, Owner[call[c].id]>> \in L
         \/ LET k == Sock(c, call[c].id) IN req'[k] = <<>> /\ rep[k] = <<>>,
         call[c].op = "MAP" => ~Intact(L, X, c, call[c].id)
  PROVE  FInv(L, X, C)'
  <1>1. /\ call'[c] = Idle /\ ~Busy(c)' /\ Alive(c)' /\ call'[c] # Fault /\ Alive(c)
        /\ \A d \in Clients : d # c => call'[d] = call[d]
    BY IdleIsNoCall DEF FInv, TypeInv, TypeOK, ClientTypeOK, Busy, Alive, Idle, Fault
  <1>2. \A k \in Conns : k[1] # c => req'[k] = req[k]
    BY DEF Engaged, Sock
  <1>3. ASSUME NEW k \in Conns, k[1] = c PROVE FConn(L, C, k)'
    <2>1. FConn(L, C, k)
      BY DEF FInv
    <2>2. link[k] = "open" /\ <<c, k[2]>> \notin L => req'[k] = <<>> /\ rep[k] = <<>>
      <3>1. CASE Engaged(c, k)
        BY <3>1 DEF Engaged, Sock
      <3>2. CASE ~Engaged(c, k)
        BY <1>3, <2>1, <3>2 DEF FConn
      <3>. QED BY <3>1, <3>2
    <2>3. req'[k] = req[k] \/ (Engaged(c, k) /\ link[k] = "open")
      <3>1. Engaged(c, k) => k[3] = gen[c]
        BY DEF Engaged, Sock
      <3>. QED BY <1>1, <1>3, <2>1, <3>1 DEF FConn
    <2>. QED BY <1>1, <1>3, <2>1, <2>2, <2>3 DEF FConn, serverVars
  <1>4. FCall(L, X, C, c)'
    BY <1>1 DEF FCall
  <1>5. ASSUME NEW b \in Blocks PROVE FCopy(L, X, c, b)' /\ FAssoc(L, c, b)'
    <2>1. FCopy(L, X, c, b) /\ FAssoc(L, c, b)
      BY DEF FInv
    <2>2. Intact(L, X, c, b) /\ b \in mapped[c] /\ b \in Hosted => b \in Held(c)
      BY DEF Held
    <2>3. FCopy(L, X, c, b)'
      BY <1>1, <2>1, <2>2 DEF FCopy, Prompt, Intact, Held, Agrees, serverVars
    <2>4. FAssoc(L, c, b)'
      BY <1>1, <2>1 DEF FAssoc, AssocOK, Idle, Prompt, Sock, serverVars
    <2>. QED BY <2>3, <2>4
  <1>. QED BY <1>1, <1>2, <1>3, <1>4, <1>5, FClientFrame

LEMMA FTimeoutStep ==
  ASSUME NEW L, NEW X, NEW C, FInv(L, X, C), NEW c \in Clients, Timeout(c),
         UNCHANGED serverVars, <<c, Owner[call[c].id]>> \in L
  PROVE  FInv(L, X, C)'
  <1>1. TypeInv'
    BY TypeTimeout DEF FInv
  <1>2. /\ Busy(c) /\ call' = [call EXCEPT ![c] = Idle]
        /\ UNCHANGED <<link, rep, mapped, local, gen, base, req>>
    BY DEF Timeout, wireVars
  <1>3. ~Intact(L, X, c, call[c].id)
    BY DEF Intact, Prompt
  <1>. QED BY <1>1, <1>2, <1>3, FEndCall

LEMMA TypeBroken ==
  ASSUME TypeInv, NEW c \in Clients, Broken(c)
  PROVE  TypeInv'
  <1>1. ClientTypeOK' /\ call'[c] = Idle /\ gen' = gen /\ local' = local
        /\ \A d \in Clients : d # c => call'[d] = call[d]
    BY DEF Broken, TypeInv, TypeOK, ClientTypeOK
  <1>2. gen'[c] > 0 /\ call'[c].op # "WRITE"
    BY <1>1, IdleIsNoCall DEF Broken, TypeInv, Alive
  <1>3. /\ req \in [Conns -> Seq(Request)] /\ req \in [Conns -> Seq(BoundedRequest)]
        /\ <<>> \in Seq(Request) /\ <<>> \in Seq(BoundedRequest)
    BY DEF TypeInv, TypeOK, WireTypeOK
  <1>4. req' \in [Conns -> Seq(Request)] /\ req' \in [Conns -> Seq(BoundedRequest)]
    BY <1>3 DEF Broken
  <1>5. WireTypeOK'
    BY <1>4 DEF Broken, TypeInv, TypeOK, WireTypeOK
  <1>6. UNCHANGED serverVars
    BY DEF Broken
  <1>. QED BY <1>1, <1>2, <1>4, <1>5, <1>6, TypeFrame

LEMMA FBrokenStep ==
  ASSUME NEW L, NEW X, NEW C, FInv(L, X, C), NEW c \in Clients, Broken(c),
         call[c].op = "MAP" => <<c, call[c].id>> \in X
  PROVE  FInv(L, X, C)'
  <1>. DEFINE k == Sock(c, call[c].id)
  <1>1. TypeInv'
    BY TypeBroken DEF FInv
  <1>2. /\ Busy(c) /\ call' = [call EXCEPT ![c] = Idle] /\ rep[k] = <<>>
        /\ req' = [req EXCEPT ![k] = <<>>]
        /\ UNCHANGED <<link, rep, mapped, local, gen, base>> /\ UNCHANGED serverVars
    BY DEF Broken
  <1>3. k \in Conns
    BY <1>2, CallTypes DEF FInv
  <1>4. req'[k] = <<>> /\ \A j \in Conns : ~Engaged(c, j) => req'[j] = req[j]
    BY <1>2, <1>3 DEF FInv, TypeInv, TypeOK, WireTypeOK, Engaged
  <1>5. call[c].op = "MAP" => ~Intact(L, X, c, call[c].id)
    BY DEF Intact
  <1>. QED BY <1>1, <1>2, <1>4, <1>5, FEndCall

-----------------------------------------------------------------------------
(* A server ends. *)

\* Its connections, and what its clients have mapped.
Gone(s) == {k \in Conns : k[2] = s /\ link[k] # "new"}
Orphans(s) == {f \in Clients \X Blocks : Owner[f[2]] = s /\ f[2] \in mapped[f[1]]}

LEMMA TypeCrash ==
  ASSUME TypeInv, NEW s \in Servers, Crash(s)
  PROVE  TypeInv'
  <1>1. UNCHANGED <<link, rep, mapped, local, call, gen, base>>
    BY DEF Crash, clientVars
  <1>2. 0 \in Revs /\ Zero \in Data
    BY WireAssumption DEF Revs
  <1>3. blocks' \in [Blocks -> [rev : Revs, data : Data]]
    BY <1>2 DEF Crash, TypeInv, TypeOK, ServerTypeOK
  <1>4. mappedClients' \in [Blocks -> SUBSET Conns]
    BY DEF Crash, TypeInv, TypeOK, ServerTypeOK
  <1>5. thread' \in [Conns -> {"recv", "done"}]
    BY DEF Crash, TypeInv, TypeOK, ServerTypeOK
  <1>6. /\ req \in [Conns -> Seq(Request)] /\ req \in [Conns -> Seq(BoundedRequest)]
        /\ <<>> \in Seq(Request) /\ <<>> \in Seq(BoundedRequest)
    BY DEF TypeInv, TypeOK, WireTypeOK
  <1>7. req' \in [Conns -> Seq(Request)] /\ req' \in [Conns -> Seq(BoundedRequest)]
    BY <1>6 DEF Crash
  <1>8. WireTypeOK' /\ ServerTypeOK' /\ ClientTypeOK'
    BY <1>1, <1>3, <1>4, <1>5, <1>7 DEF TypeInv, TypeOK, WireTypeOK, ServerTypeOK, ClientTypeOK
  <1>. QED BY <1>1, <1>7, <1>8 DEF TypeInv, TypeOK, Alive, Busy

LEMMA FCrashStep ==
  ASSUME NEW L, NEW X, NEW C, NEW Y, NEW D, FInv(L, X, C), NEW s \in Servers, Crash(s),
         Y = X \cup Orphans(s), D = C \cup Gone(s)
  PROVE  FInv(L, Y, D)'
  <1>1. TypeInv'
    BY TypeCrash DEF FInv
  <1>2. /\ UNCHANGED <<link, rep, mapped, local, call, gen, base>>
        /\ \A b \in Blocks : Owner[b] = s => mappedClients'[b] = {}
        /\ \A b \in Blocks : Owner[b] # s =>
             blocks'[b] = blocks[b] /\ mappedClients'[b] = mappedClients[b]
        /\ \A k \in Gone(s) : thread'[k] = "done" /\ req'[k] = <<>>
        /\ \A k \in Conns : k \notin Gone(s) => thread'[k] = thread[k] /\ req'[k] = req[k]
    BY DEF Crash, clientVars, Gone
  <1>3. /\ \A c \in Clients : Busy(c)' = Busy(c) /\ Alive(c)' = Alive(c)
        /\ \A c \in Clients, k \in Conns : Engaged(c, k)' = Engaged(c, k)
        /\ \A c \in Clients, b \in Blocks : Sock(c, b)' = Sock(c, b) /\ Held(c)' = Held(c)
    BY <1>2 DEF Busy, Alive, Engaged, Sock, Held
  <1>4. \A c \in Clients, b \in Blocks : Intact(L, Y, c, b) => Intact(L, X, c, b)
    BY DEF Intact
  <1>5. \A c \in Clients, b \in Blocks :
          Owner[b] = s /\ b \in mapped[c] => <<c, b>> \in Y
    BY DEF Orphans
  <1>6. ASSUME NEW k \in Conns PROVE FConn(L, D, k)'
    <2>1. FConn(L, C, k) /\ k[1] \in Clients
      BY TypeFacts DEF FInv
    <2>2. \A b \in Blocks : k \in mappedClients'[b] => k \in mappedClients[b]
      BY <1>2
    <2>3. CASE k \in Gone(s)
      <3>1. thread'[k] = "done" /\ req'[k] = <<>> /\ k \in D /\ link[k] # "new"
        BY <1>2, <2>3 DEF Gone
      <3>. QED BY <1>2, <1>3, <2>1, <2>2, <3>1 DEF FConn
    <2>4. CASE k \notin Gone(s)
      <3>1. thread'[k] = thread[k] /\ req'[k] = req[k] /\ (k \in D <=> k \in C)
        BY <1>2, <2>4
      <3>. QED BY <1>2, <1>3, <2>1, <2>2, <3>1 DEF FConn
    <2>. QED BY <2>3, <2>4
  <1>7. ASSUME NEW c \in Clients, NEW b \in Blocks PROVE FCopy(L, Y, c, b)' /\ FAssoc(L, c, b)'
    <2>1. FCopy(L, X, c, b) /\ FAssoc(L, c, b) /\ (Alive(c) => Sock(c, b) \in Conns)
      BY CallTypes DEF FInv
    <2>2. CASE Owner[b] = s
      <3>1. b \in Held(c) => ~Intact(L, Y, c, b)
        BY <1>5, <2>2 DEF Held, Intact
      <3>2. FCopy(L, Y, c, b)'
        BY <1>2, <1>3, <2>1, <3>1 DEF FCopy, Prompt, Intact
      <3>3. FAssoc(L, c, b)'
        BY <1>2, <2>2 DEF FAssoc, AssocOK
      <3>. QED BY <3>2, <3>3
    <2>3. CASE Owner[b] # s
      <3>1. blocks'[b] = blocks[b] /\ mappedClients'[b] = mappedClients[b]
        BY <1>2, <2>3
      <3>2. FCopy(L, Y, c, b)'
        BY <1>2, <1>3, <1>4, <2>1, <3>1 DEF FCopy, Prompt, Intact, Agrees
      <3>3. Sock(c, b) \notin Gone(s)
        BY <2>3 DEF Gone, Sock
      <3>4. FAssoc(L, c, b)'
        BY <1>2, <1>3, <2>1, <3>1, <3>3 DEF FAssoc, AssocOK, Prompt
      <3>. QED BY <3>2, <3>4
    <2>. QED BY <2>2, <2>3
  <1>8. ASSUME NEW c \in Clients PROVE FCall(L, Y, D, c)'
    <2>1. FCall(L, X, C, c)
      BY DEF FInv
    <2>2. CASE ~Busy(c)
      BY <1>2, <1>3, <2>1, <2>2 DEF FCall
    <2>3. CASE Busy(c)
      <3>. DEFINE k == Sock(c, call[c].id)
      <3>1. call[c].id \in Blocks /\ k \in Conns /\ k' = k /\ Alive(c) /\ k[3] = gen[c] /\ k[1] = c
        BY <1>2, <2>3, CallTypes DEF FInv, Sock, Alive
      <3>2. PICK b \in Blocks : b = call[c].id
        BY <3>1
      <3>3. b \in mapped[c] /\ link[k] = "open" /\ k[2] = Owner[b]
        <4>1. FConn(L, C, k) BY <3>1 DEF FInv
        <4>. QED BY <2>1, <2>3, <3>1, <3>2, <4>1 DEF FCall, FConn, Sock
      <3>4. RequestOf(c)' = RequestOf(c) /\ Prompt(L, c, b)' = Prompt(L, c, b)
        BY <1>2 DEF RequestOf, Prompt
      <3>. HIDE DEF k
      <3>5. CASE Owner[b] = s
        <4>1. req'[k] = <<>> /\ k \in D /\ rep'[k] = rep[k]
          BY <1>2, <3>1, <3>3, <3>5 DEF Gone
        <4>2. \A r : FReply(X, c, r) => FReply(Y, c, r)'
          BY <1>2, <1>5, <3>2, <3>3, <3>5 DEF FReply
        <4>. QED BY <1>2, <1>3, <2>1, <2>3, <3>1, <3>2, <3>3, <4>1, <4>2 DEF FCall, Prompt, k
      <3>6. CASE Owner[b] # s
        <4>1. req'[k] = req[k] /\ rep'[k] = rep[k] /\ (k \in D <=> k \in C)
              /\ blocks'[b] = blocks[b]
          BY <1>2, <3>1, <3>3, <3>6 DEF Gone
        <4>2. \A r : FReply(X, c, r) => FReply(Y, c, r)'
          BY <1>2, <3>2, <4>1 DEF FReply, ReplyOK, Agrees
        <4>3. Prompt(L, c, b) =>
                \/ req[k] # <<>> /\ rep[k] = <<>> /\ Head(req[k]) = RequestOf(c)
                \/ req[k] = <<>> /\ rep[k] # <<>> /\ Tail(rep[k]) = <<>> /\ FReply(X, c, Head(rep[k]))
                \/ req[k] = <<>> /\ rep[k] = <<>> /\ k \in C
          BY <2>1, <2>3, <3>2 DEF FCall, k
        <4>4. Prompt(L, c, b)' =>
                \/ req'[k] # <<>> /\ rep'[k] = <<>> /\ Head(req'[k]) = RequestOf(c)'
                \/ /\ req'[k] = <<>> /\ rep'[k] # <<>> /\ Tail(rep'[k]) = <<>>
                   /\ FReply(Y, c, Head(rep[k]))'
                \/ req'[k] = <<>> /\ rep'[k] = <<>> /\ k \in D
          <5>1. FReply(X, c, Head(rep[k])) => FReply(Y, c, Head(rep[k]))'
            <6>1. PICK r : r = Head(rep[k])
              OBVIOUS
            <6>2. FReply(X, c, r) => FReply(Y, c, r)'
              BY <4>2
            <6>3. r = Head(rep'[k])
              BY <4>1, <6>1
            <6>. QED BY <3>1, <6>1, <6>2, <6>3 DEF FReply, ReplyOK
          <5>. QED BY <3>4, <4>1, <4>3, <5>1
        <4>5. Busy(c)' /\ Alive(c)' /\ call'[c] = call[c] /\ b \in mapped'[c] /\ local'[c] = local[c]
              /\ call'[c] # Fault
          BY <1>2, <1>3, <2>3, <3>1, <3>3 DEF Busy, Fault, Calls
        <4>6. call[c].op \in {"MAP", "WRITE", "WAIT"} => local[c][b].valid
          BY <2>1, <2>3, <3>2 DEF FCall
        <4>. QED BY <3>1, <3>2, <4>4, <4>5, <4>6 DEF FCall, k
      <3>. QED BY <3>5, <3>6
    <2>. QED BY <2>2, <2>3
  <1>. QED BY <1>1, <1>6, <1>7, <1>8 DEF FInv

-----------------------------------------------------------------------------
(* What the invariant says of those who have not been hit. *)

LEMMA FInit ==
  ASSUME NEW L, NEW X, Init
  PROVE  FInv(L, X, {})
  <1>1. TypeInv
    BY TypeInit
  <1>2. \A c \in Clients : /\ call[c] = Off /\ mapped[c] = {} /\ gen[c] = 0
                           /\ ~Busy(c) /\ ~Alive(c) /\ call[c] # Fault
    BY DEF Init, ClientInit, Busy, Alive, Calls, Off, Idle, Fault
  <1>3. ASSUME NEW k \in Conns PROVE FConn(L, {}, k)
    <2>1. link[k] = "new" /\ req[k] = <<>> /\ rep[k] = <<>> /\ thread[k] = "recv"
          /\ \A b \in Blocks : mappedClients[b] = {}
      BY DEF Init, WireInit, ServerInit
    <2>2. k[1] \in Clients
      BY TypeFacts, <1>1
    <2>. QED BY <1>2, <2>1, <2>2 DEF FConn
  <1>4. ASSUME NEW c \in Clients, NEW b \in Blocks PROVE FCopy(L, X, c, b) /\ FAssoc(L, c, b)
    <2>. DEFINE empty == NoCopy(b)
    <2>1. local[c][b] = empty
      BY DEF Init, ClientInit
    <2>2. empty.id = b
      BY DEF NoCopy, NewCopy
    <2>3. local[c][b].id = b
      BY <2>1, <2>2
    <2>. QED BY <1>2, <2>3 DEF FCopy, FAssoc, AssocOK
  <1>5. \A c \in Clients : FCall(L, X, {}, c)
    BY <1>2 DEF FCall
  <1>. QED BY <1>1, <1>3, <1>4, <1>5 DEF FInv

LEMMA FCoherent ==
  ASSUME NEW L, NEW X, NEW C, FInv(L, X, C), NEW c \in Clients, Alive(c), NEW b \in Held(c),
         Intact(L, X, c, b)
  PROVE  /\ local[c][b].rev = blocks[b].rev => base[c][b] = blocks[b].data
         /\ local[c][b].rev <= blocks[b].rev
         /\ ~local[c][b].valid => local[c][b].rev < blocks[b].rev
  <1>1. b \in Blocks
    BY TypeFacts DEF FInv, Held
  <1>2. FCopy(L, X, c, b)
    BY <1>1 DEF FInv
  <1>. QED BY <1>2 DEF FCopy, Agrees

LEMMA TailShorter ==
  ASSUME NEW S, NEW s \in Seq(S), s # <<>>
  PROVE  Tail(s) # s
  <1>1. PICK n \in Nat : n = Len(s)
    OBVIOUS
  <1>2. PICK t : t = Len(Tail(s))
    OBVIOUS
  <1>3. t = n - 1
    BY <1>1, <1>2, HeadTailProperties
  <1>4. t # n
    BY <1>3
  <1>. QED BY <1>1, <1>2, <1>4, Zenon

\* If a step takes a WRITE of somebody not hit, it replaces the content the
\* writer's copy was made from.
SafeWrite(L, X, b, k) ==
  (/\ req[k] # <<>> /\ req'[k] = Tail(req[k])
   /\ Head(req[k]).type = "WRITE" /\ Head(req[k]).id = b /\ link[k] = "open"
   /\ <<k[1], k[2]>> \notin L /\ <<k[1], b>> \notin X /\ blocks'[b] # blocks[b])
    => Head(req[k]).base = blocks[b].data

LEMMA FWritesSafe ==
  ASSUME NEW L, NEW X, NEW C, FInv(L, X, C), Next, NEW b \in Blocks, NEW k \in Conns
  PROVE  SafeWrite(L, X, b, k)
  <1>. SUFFICES ASSUME req[k] # <<>>, req'[k] = Tail(req[k]),
                       Head(req[k]).type = "WRITE", Head(req[k]).id = b, link[k] = "open",
                       <<k[1], k[2]>> \notin L, <<k[1], b>> \notin X, blocks'[b] # blocks[b]
                PROVE  Head(req[k]).base = blocks[b].data
    BY DEF SafeWrite
  <1>1. PICK j \in Conns : HandleWrite(j)
    <2>1. PICK j \in Conns : ServerStep(j)
      BY DEF Next, serverVars
    <2>. QED BY <2>1 DEF ServerStep, HandleMap, HandleUnmap, HandleUpdate, HandleWait, Disconnect
  <1>. DEFINE m == Head(req[j])
  <1>2. /\ b # m.id => blocks'[b] = blocks[b]
        /\ Taken(j, m) \/ WriteRefused(j, m)
    BY <1>1, FWriteEffect DEF FInv
  <1>3. Taken(j, m) /\ b = m.id
    BY <1>2 DEF WriteRefused
  <1>4. j = k
    <2>1. req \in [Conns -> Seq(Request)]
      BY DEF FInv, TypeInv, TypeOK, WireTypeOK
    <2>2. j # k => req'[k] = req[k]
      BY <1>3, <2>1 DEF Taken, Answer
    <2>3. Tail(req[k]) # req[k]
      BY <2>1, TailShorter
    <2>. QED BY <2>2, <2>3
  <1>5. b \in Hosted /\ blocks[b].rev = m.rev
    BY <1>3 DEF Taken, Found
  <1>6. Engaged(k[1], k) /\ k[1] \in Clients
    BY FRequestConn
  <1>7. m.base = base[k[1]][b] /\ Agrees(m.rev, base[k[1]][b], b)
    BY <1>3, <1>4, <1>5, <1>6, FRequestFacts
  <1>. QED BY <1>4, <1>5, <1>7 DEF Agrees

-----------------------------------------------------------------------------
(* Time-outs. *)

TimeoutsInv == FInv(late, {}, {})

LEMMA FLate ==
  ASSUME NEW L, FInv(L, {}, {})', late' = L
  PROVE  TimeoutsInv'
  BY DEF TimeoutsInv, FInv, FConn, FCall, FCopy, FAssoc, Prompt, Intact

LEMMA FLateNow ==
  ASSUME NEW L, late = L
  PROVE  TimeoutsInv <=> FInv(L, {}, {})
  BY DEF TimeoutsInv

LEMMA OnTimeStep ==
  ASSUME TimeoutsInv, OnTime
  PROVE  TimeoutsInv'
  <1>1. PICK L : L = late
    OBVIOUS
  <1>2. PICK M : M = late'
    OBVIOUS
  <1>3. FInv(L, {}, {})
    BY <1>1, FLateNow
  <1>4. FInv(L, {}, {})'
    BY <1>3, FStep DEF OnTime
  <1>5. \A c \in Clients, s \in Servers : <<c, s>> \in L /\ <<c, s>> \notin M => call'[c] = Off
    BY <1>1, <1>2 DEF OnTime
  <1>6. FInv(M, {}, {})'
    BY <1>4, <1>5, FForget
  <1>. QED BY <1>2, <1>6, FLate

LEMMA TooLateStep ==
  ASSUME TimeoutsInv, NEW c \in Clients, TooLate(c)
  PROVE  TimeoutsInv'
  <1>1. PICK L : L = late
    OBVIOUS
  <1>2. PICK M : M = late'
    OBVIOUS
  <1>3. L \subseteq M /\ <<c, Owner[call[c].id]>> \in M
    BY <1>1, <1>2 DEF TooLate
  <1>4. FInv(M, {}, {})
    <2>1. FInv(L, {}, {})
      BY <1>1, FLateNow
    <2>. QED BY <1>3, <2>1, FGrow
  <1>5. FInv(M, {}, {})'
    BY <1>3, <1>4, FTimeoutStep DEF TooLate
  <1>. QED BY <1>2, <1>5, FLate

LEMMA TimeoutsStep == TimeoutsInv /\ [TimeoutsNext]_timeoutVars => TimeoutsInv'
  <1>. SUFFICES ASSUME TimeoutsInv, [TimeoutsNext]_timeoutVars PROVE TimeoutsInv'
    OBVIOUS
  <1>1. CASE UNCHANGED timeoutVars
    <2>1. PICK L : L = late
      OBVIOUS
    <2>2. FInv(L, {}, {}) /\ UNCHANGED vars /\ late' = L
      BY <1>1, <2>1, FLateNow DEF timeoutVars
    <2>3. FInv(L, {}, {})'
      BY <2>2, FStutter
    <2>. QED BY <2>2, <2>3, FLate
  <1>. QED BY <1>1, OnTimeStep, TooLateStep DEF TimeoutsNext

\* The invariant of the system with time-outs: about the servers that were
\* always in time for a client, all is as if nobody had ever been late.
THEOREM TimeoutsInvariant == TimeoutsSpec => []TimeoutsInv
  <1>1. TimeoutsInit => TimeoutsInv
    <2>. SUFFICES ASSUME TimeoutsInit PROVE TimeoutsInv
      OBVIOUS
    <2>1. PICK L : L = late
      OBVIOUS
    <2>. QED BY <2>1, FInit, FLateNow DEF TimeoutsInit
  <1>. QED BY <1>1, TimeoutsStep, PTL DEF TimeoutsSpec

\* A time-out spoils only the copies its client has of the late server's
\* blocks, and only a client that was late can read a missing block.
THEOREM TimeoutsStayLocal == TimeoutsSpec => []ConfusionIsLocal
  <1>1. TimeoutsInv => ConfusionIsLocal
    <2>. SUFFICES ASSUME TimeoutsInv PROVE ConfusionIsLocal
      OBVIOUS
    <2>1. PICK L : L = late
      OBVIOUS
    <2>2. FInv(L, {}, {})
      BY <2>1, FLateNow
    <2>3. ASSUME NEW c \in Clients, Alive(c), NEW b \in Held(c), <<c, Owner[b]>> \notin late
          PROVE  /\ local[c][b].rev = blocks[b].rev => base[c][b] = blocks[b].data
                 /\ local[c][b].rev <= blocks[b].rev
                 /\ ~local[c][b].valid => local[c][b].rev < blocks[b].rev
      <3>1. Intact(L, {}, c, b)
        BY <2>1, <2>3 DEF Intact, Prompt
      <3>. QED BY <2>2, <2>3, <3>1, FCoherent
    <2>4. \A c \in Clients : call[c] = Fault => \E s \in Servers : <<c, s>> \in late
      BY <2>1, <2>2 DEF FInv, FCall
    <2>. QED BY <2>3, <2>4 DEF ConfusionIsLocal
  <1>. QED BY <1>1, TimeoutsInvariant, PTL

\* A client that was never answered too late by a server overwrites there only
\* the content its copy was made from.
OnTimeWrite ==
  \A b \in Blocks, k \in Conns :
    (/\ req[k] # <<>> /\ req'[k] = Tail(req[k])
     /\ Head(req[k]).type = "WRITE" /\ Head(req[k]).id = b
     /\ link[k] = "open" /\ <<k[1], k[2]>> \notin late
     /\ blocks'[b] # blocks[b])
      => Head(req[k]).base = blocks[b].data

THEOREM TimeoutsWriteSafely == TimeoutsSpec => OnTimeWritesSafe
  <1>1. TimeoutsInv /\ [TimeoutsNext]_timeoutVars => [OnTimeWrite]_timeoutVars
    <2>. SUFFICES ASSUME TimeoutsInv, TimeoutsNext, NEW b \in Blocks, NEW k \in Conns,
                         req[k] # <<>>, req'[k] = Tail(req[k]), Head(req[k]).type = "WRITE",
                         Head(req[k]).id = b, link[k] = "open", <<k[1], k[2]>> \notin late,
                         blocks'[b] # blocks[b]
                  PROVE  Head(req[k]).base = blocks[b].data
      BY DEF OnTimeWrite
    <2>1. PICK L : L = late
      OBVIOUS
    <2>2. FInv(L, {}, {})
      BY <2>1, FLateNow
    <2>3. Next
      BY DEF TimeoutsNext, OnTime, TooLate, serverVars
    <2>4. SafeWrite(L, {}, b, k)
      BY <2>2, <2>3, FWritesSafe
    <2>. QED BY <2>1, <2>4 DEF SafeWrite
  <1>2. TimeoutsSpec => [][OnTimeWrite]_timeoutVars
    BY <1>1, TimeoutsInvariant, PTL DEF TimeoutsSpec
  <1>. QED BY <1>2 DEF OnTimeWritesSafe, OnTimeWrite

-----------------------------------------------------------------------------
(* Restarts. *)

RestartInv == FInv({}, crossed, cut)

LEMMA FCrossed ==
  ASSUME NEW X, NEW C, FInv({}, X, C)', crossed' = X, cut' = C
  PROVE  RestartInv'
  BY DEF RestartInv, FInv, FConn, FCall, FCopy, FAssoc, FReply, Prompt, Intact

LEMMA FCrossedNow ==
  ASSUME NEW X, NEW C, crossed = X, cut = C
  PROVE  RestartInv <=> FInv({}, X, C)
  BY DEF RestartInv

LEMMA ForgetStep ==
  ASSUME RestartInv, FaultTypeOK, Next, Forget
  PROVE  RestartInv' /\ FaultTypeOK'
  <1>1. PICK X : X = crossed
    OBVIOUS
  <1>2. PICK Y : Y = crossed'
    OBVIOUS
  <1>3. PICK C : C = cut /\ C = cut'
    BY DEF Forget
  <1>4. FInv({}, X, C)
    BY <1>1, <1>3, FCrossedNow
  <1>5. FInv({}, X, C)'
    BY <1>4, FStep
  <1>6. \A c \in Clients, b \in Blocks : <<c, b>> \in X /\ <<c, b>> \notin Y => b \notin mapped'[c]
    BY <1>1, <1>2 DEF Forget
  <1>7. FInv({}, Y, C)'
    BY <1>5, <1>6, FForget
  <1>8. FaultTypeOK'
    BY DEF FaultTypeOK, Forget
  <1>. QED BY <1>2, <1>3, <1>7, <1>8, FCrossed

LEMMA CrashStep ==
  ASSUME RestartInv, FaultTypeOK, NEW s \in Servers, Crash(s)
  PROVE  RestartInv' /\ FaultTypeOK'
  <1>1. PICK X : X = crossed
    OBVIOUS
  <1>2. PICK C : C = cut
    OBVIOUS
  <1>3. PICK Y : Y = X \cup Orphans(s)
    OBVIOUS
  <1>4. PICK D : D = C \cup Gone(s)
    OBVIOUS
  <1>5. crossed' = Y /\ cut' = D
    BY <1>1, <1>2, <1>3, <1>4 DEF Crash, Orphans, Gone
  <1>6. FInv({}, X, C)
    BY <1>1, <1>2, FCrossedNow
  <1>7. FInv({}, Y, D)'
    BY <1>3, <1>4, <1>6, FCrashStep
  <1>8. FaultTypeOK'
    <2>1. /\ crashes[s] \in 0 .. MaxCrashes /\ crashes[s] < MaxCrashes
          /\ crashes' = [crashes EXCEPT ![s] = crashes[s] + 1]
      BY DEF FaultTypeOK, Crash
    <2>2. crashes[s] + 1 \in 0 .. MaxCrashes
      BY <2>1, MaxCrashesAssumption
    <2>3. crashes' \in [Servers -> 0 .. MaxCrashes]
      BY <2>1, <2>2 DEF FaultTypeOK
    <2>4. cut' \subseteq Conns /\ crossed' \subseteq Clients \X Blocks
      BY <1>1, <1>2, <1>3, <1>4, <1>5 DEF FaultTypeOK, Orphans, Gone
    <2>. QED BY <2>3, <2>4 DEF FaultTypeOK
  <1>. QED BY <1>5, <1>7, <1>8, FCrossed

LEMMA BrokenStep ==
  ASSUME RestartInv, FaultTypeOK, NEW c \in Clients, Broken(c)
  PROVE  RestartInv' /\ FaultTypeOK'
  <1>1. PICK X : X = crossed
    OBVIOUS
  <1>2. PICK Y : Y = crossed'
    OBVIOUS
  <1>3. PICK C : C = cut /\ C = cut'
    BY DEF Broken
  <1>4. X \subseteq Y /\ (call[c].op = "MAP" => <<c, call[c].id>> \in Y)
    BY <1>1, <1>2 DEF Broken
  <1>5. FInv({}, X, C)
    BY <1>1, <1>3, FCrossedNow
  <1>6. FInv({}, Y, C)
    BY <1>4, <1>5, FGrow
  <1>7. FInv({}, Y, C)'
    BY <1>4, <1>6, FBrokenStep
  <1>8. FaultTypeOK'
    <2>1. call[c].id \in Blocks
      BY <1>5, CallTypes DEF Broken, FInv
    <2>. QED BY <2>1 DEF FaultTypeOK, Broken
  <1>. QED BY <1>2, <1>3, <1>7, <1>8, FCrossed

LEMMA RestartStep ==
  RestartInv /\ FaultTypeOK /\ [RestartNext]_restartVars => RestartInv' /\ FaultTypeOK'
  <1>. SUFFICES ASSUME RestartInv, FaultTypeOK, [RestartNext]_restartVars
                PROVE  RestartInv' /\ FaultTypeOK'
    OBVIOUS
  <1>1. CASE UNCHANGED restartVars
    <2>1. PICK X : X = crossed
      OBVIOUS
    <2>2. PICK C : C = cut
      OBVIOUS
    <2>3. UNCHANGED vars /\ UNCHANGED faultVars
      BY <1>1 DEF restartVars
    <2>4. FInv({}, X, C)
      BY <2>1, <2>2, FCrossedNow
    <2>5. FInv({}, X, C)'
      BY <2>3, <2>4, FStutter
    <2>6. FaultTypeOK' /\ crossed' = X /\ cut' = C
      BY <2>1, <2>2, <2>3 DEF FaultTypeOK, faultVars
    <2>. QED BY <2>5, <2>6, FCrossed
  <1>. QED BY <1>1, ForgetStep, CrashStep, BrokenStep DEF RestartNext

\* The invariant of the system whose servers end and start again: about copies
\* mapped since then, all is as if no server had ever ended.
THEOREM RestartInvariant == RestartSpec => [](RestartInv /\ FaultTypeOK)
  <1>1. RestartInit => RestartInv /\ FaultTypeOK
    <2>. SUFFICES ASSUME RestartInit PROVE RestartInv /\ FaultTypeOK
      OBVIOUS
    <2>1. PICK X : X = crossed
      OBVIOUS
    <2>2. FInv({}, X, {}) /\ cut = {}
      BY FInit DEF RestartInit
    <2>3. RestartInv
      BY <2>1, <2>2, FCrossedNow
    <2>4. FaultTypeOK
      BY MaxCrashesAssumption DEF RestartInit, FaultTypeOK
    <2>. QED BY <2>3, <2>4
  <1>. QED BY <1>1, RestartStep, PTL DEF RestartSpec

\* Every variable stays in its set when servers end and start again.
THEOREM RestartTypes == RestartSpec => []RestartTypeOK
  <1>1. RestartInv /\ FaultTypeOK => RestartTypeOK
    BY DEF RestartInv, FInv, TypeInv, RestartTypeOK
  <1>. QED BY <1>1, RestartInvariant, PTL

\* A copy mapped since its server's last start is coherent with the present
\* process, whatever the client keeps from the processes before.
THEOREM MappedSinceIsCoherent == RestartSpec => []MappedSinceCoherent
  <1>1. RestartInv => MappedSinceCoherent
    <2>. SUFFICES ASSUME RestartInv, NEW c \in Clients, Alive(c), NEW b \in Held(c),
                         <<c, b>> \notin crossed
                  PROVE  /\ local[c][b].rev = blocks[b].rev => base[c][b] = blocks[b].data
                         /\ local[c][b].rev <= blocks[b].rev
                         /\ ~local[c][b].valid => local[c][b].rev < blocks[b].rev
      BY DEF MappedSinceCoherent
    <2>1. PICK X : X = crossed
      OBVIOUS
    <2>2. PICK C : C = cut
      OBVIOUS
    <2>3. FInv({}, X, C)
      BY <2>1, <2>2, FCrossedNow
    <2>4. Intact({}, X, c, b)
      BY <2>1 DEF Intact, Prompt
    <2>. QED BY <2>3, <2>4, FCoherent
  <1>. QED BY <1>1, RestartInvariant, PTL

\* A WRITE from such a copy replaces only the content the copy was made from.
MappedSinceWrite ==
  \A b \in Blocks, k \in Conns :
    (/\ req[k] # <<>> /\ req'[k] = Tail(req[k]) /\ crashes' = crashes
     /\ Head(req[k]).type = "WRITE" /\ Head(req[k]).id = b
     /\ link[k] = "open" /\ <<k[1], b>> \notin crossed
     /\ blocks'[b] # blocks[b])
      => Head(req[k]).base = blocks[b].data

THEOREM MappedSinceWriteSafely == RestartSpec => MappedSinceWritesSafe
  <1>1. RestartInv /\ FaultTypeOK /\ [RestartNext]_restartVars => [MappedSinceWrite]_restartVars
    <2>. SUFFICES ASSUME RestartInv, FaultTypeOK, RestartNext, NEW b \in Blocks, NEW k \in Conns,
                         req[k] # <<>>, req'[k] = Tail(req[k]), crashes' = crashes,
                         Head(req[k]).type = "WRITE", Head(req[k]).id = b, link[k] = "open",
                         <<k[1], b>> \notin crossed, blocks'[b] # blocks[b]
                  PROVE  Head(req[k]).base = blocks[b].data
      BY DEF MappedSinceWrite
    <2>1. PICK X : X = crossed
      OBVIOUS
    <2>2. PICK C : C = cut
      OBVIOUS
    <2>3. FInv({}, X, C)
      BY <2>1, <2>2, FCrossedNow
    <2>4. Next
      <3>1. ASSUME NEW s \in Servers, Crash(s) PROVE FALSE
        <4>1. crashes[s] \in Nat /\ crashes'[s] = crashes[s] + 1
          BY <3>1 DEF Crash, FaultTypeOK
        <4>. QED BY <4>1
      <3>2. ASSUME NEW c \in Clients, Broken(c) PROVE FALSE
        BY <3>2 DEF Broken, serverVars
      <3>. QED BY <3>1, <3>2 DEF RestartNext
    <2>5. SafeWrite({}, X, b, k)
      BY <2>3, <2>4, FWritesSafe
    <2>. QED BY <2>1, <2>5 DEF SafeWrite
  <1>2. RestartSpec => [][MappedSinceWrite]_restartVars
    BY <1>1, RestartInvariant, PTL DEF RestartSpec
  <1>. QED BY <1>2 DEF MappedSinceWritesSafe, MappedSinceWrite

-----------------------------------------------------------------------------
(* Client and server agree on what is mapped.  An association the client   *)
(* has is stored by the present process of the server under one of the     *)
(* client's open connections, except while the MAP is under way, while the *)
(* answer to the UNMAP has not been read, and when it owes nothing to that *)
(* process.  Nobody is late here.                                          *)

Stored(C, c, b) ==
  \E g \in 1 .. gen[c] :
    LET k == <<c, Owner[b], g>> IN k \in mappedClients[b] /\ link[k] = "open" /\ k \notin C

Unsettled(c, b) ==
  LET answer == rep[Sock(c, b)] IN
  \/ call[c] = [op |-> "MAP", id |-> b] /\ answer = <<>>
  \/ call[c] = [op |-> "UNMAP", id |-> b] /\ answer # <<>> /\ Head(answer).type # "NACK"

Settled(X, C, c) ==
  Alive(c) => \A b \in mapped[c] \cap Hosted :
    <<c, b>> \notin X => Unsettled(c, b) \/ Stored(C, c, b)

AssocInv(X, C) == FInv({}, X, C) /\ \A c \in Clients : Settled(X, C, c)

-----------------------------------------------------------------------------
\* What was stored stays stored where no connection closes and none leaves the
\* block's list.
LEMMA StoredStays ==
  ASSUME NEW C, TypeInv, NEW c \in Clients, NEW b \in Blocks, Stored(C, c, b),
         gen'[c] \in Nat, gen[c] <= gen'[c],
         \A k \in Conns : k[1] = c /\ k \in mappedClients[b] /\ link[k] = "open" /\ k \notin C
                            => k \in mappedClients'[b] /\ link'[k] = "open"
  PROVE  Stored(C, c, b)'
  <1>1. PICK g \in 1 .. gen[c] :
          LET k == <<c, Owner[b], g>> IN k \in mappedClients[b] /\ link[k] = "open" /\ k \notin C
    BY DEF Stored
  <1>2. <<c, Owner[b], g>> \in Conns
    BY <1>1 DEF TypeInv, TypeOK, ServerTypeOK
  <1>3. g \in 1 .. gen'[c]
    BY <1>1, TypeFacts
  <1>. QED BY <1>1, <1>2, <1>3 DEF Stored

\* Who waits for the answer to a request.
LEMMA WaitedFor ==
  ASSUME NEW X, NEW C, FInv({}, X, C), NEW k \in Conns, req[k] # <<>>
  PROVE  /\ link[k] = "open" => Engaged(k[1], k) /\ k[1] \in Clients /\ rep[k] = <<>>
         /\ \A c \in Clients, b \in Blocks : Alive(c) /\ k = Sock(c, b) => c = k[1] /\ link[k] = "open"
  <1>1. <<k[1], k[2]>> \notin {}
    OBVIOUS
  <1>. QED BY <1>1, FRequestConn, FEngaged

LEMMA WhatFor ==
  ASSUME NEW X, NEW C, FInv({}, X, C), NEW k \in Conns, req[k] # <<>>,
         NEW c \in Clients, Engaged(c, k)
  PROVE  LET m == Head(req[k]) IN
         /\ m.type = call[c].op /\ m.id = call[c].id /\ m.id \in Blocks
         /\ k = Sock(c, m.id) /\ Owner[m.id] = k[2] /\ link[k] = "open"
  <1>1. PICK L : L = {} /\ FInv(L, X, C) /\ <<c, k[2]>> \notin L
    OBVIOUS
  <1>2. link[k] = "open"
    BY <1>1, FEngaged
  <1>3. LET m == Head(req[k]) IN
        /\ m.type = call[c].op /\ m.id = call[c].id /\ m.id \in Blocks
        /\ k = Sock(c, m.id) /\ Owner[m.id] = k[2]
    BY <1>1, FRequestFacts
  <1>. QED BY <1>2, <1>3

-----------------------------------------------------------------------------
(* The server's handlers. *)

\* Whether a handler answers a request or refuses it, what it takes away from
\* an open connection is what the client has asked it to.
LEMMA HandlerKeeps ==
  ASSUME NEW X, NEW C, AssocInv(X, C), NEW k \in Conns, ServerStep(k), NEW b \in Blocks, NEW j \in Conns,
         j \in mappedClients[b], link[j] = "open"
  PROVE  \/ j \in mappedClients'[b]
         \/ HandleUnmap(k) /\ j = k /\ Head(req[k]).id = b /\ Found(k, b)
  <1>1. mappedClients \in [Blocks -> SUBSET Conns]
    BY DEF AssocInv, FInv, TypeInv, TypeOK, ServerTypeOK
  <1>2. CASE HandleMap(k)
    <2>1. req[k] # <<>> BY <1>2 DEF HandleMap, Serving
    <2>2. Head(req[k]).id \in Blocks
      BY <2>1, HeadType DEF AssocInv, FInv, Request
    <2>. QED BY <1>1, <1>2, <2>2 DEF HandleMap
  <1>3. CASE HandleUnmap(k)
    <2>1. req[k] # <<>> BY <1>3 DEF HandleUnmap, Serving
    <2>2. Head(req[k]).id \in Blocks
      BY <2>1, HeadType DEF AssocInv, FInv, Request
    <2>. QED BY <1>1, <1>3, <2>2 DEF HandleUnmap
  <1>4. CASE HandleUpdate(k) \/ HandleWrite(k) \/ HandleWait(k) \/ Disconnect(k)
    BY <1>4 DEF HandleUpdate, HandleWrite, HandleWait, Disconnect
  <1>. QED BY <1>2, <1>3, <1>4 DEF ServerStep

\* A MAP of a block the server has is over when it has been answered.
LEMMA MapStores ==
  ASSUME NEW X, NEW C, AssocInv(X, C), NEW k \in Conns, HandleMap(k), UNCHANGED clientVars,
         NEW c \in Clients, NEW b \in Hosted, b \in Blocks,
         call[c] = [op |-> "MAP", id |-> b], k = Sock(c, b)
  PROVE  Stored(C, c, b)'
  <1>. DEFINE m == Head(req[k])
  <1>1. req[k] # <<>> /\ Busy(c) /\ Engaged(c, k)
    BY DEF HandleMap, Serving, Busy, Engaged, Calls
  <1>2. m.id = b /\ k[2] = Owner[b] /\ link[k] = "open"
    BY <1>1, WhatFor DEF AssocInv
  <1>3. Found(k, m.id)
    BY <1>2 DEF Found
  <1>4. link' = link /\ k \in mappedClients'[b] /\ k \notin C
    <2>1. mappedClients \in [Blocks -> SUBSET Conns]
      BY DEF AssocInv, FInv, TypeInv, TypeOK, ServerTypeOK
    <2>2. FConn({}, C, k) /\ thread[k] = "recv"
      BY DEF HandleMap, Serving, AssocInv, FInv
    <2>3. k \notin C
      BY <2>2 DEF FConn
    <2>. QED BY <1>2, <1>3, <2>1, <2>3 DEF HandleMap, Answer
  <1>5. gen[c] \in Nat /\ gen[c] > 0 /\ gen' = gen
    BY <1>1, TypeFacts DEF AssocInv, FInv, TypeInv, Alive, clientVars
  <1>6. k = <<c, Owner[b], gen[c]>> /\ gen[c] \in 1 .. gen'[c]
    BY <1>5 DEF Sock
  <1>. QED BY <1>2, <1>4, <1>6 DEF Stored

\* The replies a handler does not add stay as they are.
LEMMA HandlerReplies ==
  ASSUME NEW X, NEW C, AssocInv(X, C), NEW k \in Conns, ServerStep(k)
  PROVE  /\ link' = link
         /\ \A j \in Conns : j # k \/ link[k] # "open" \/ rep[j] # <<>> => rep'[j] = rep[j]
         /\ \A c \in Clients, b \in Blocks :
              Alive(c) /\ k = Sock(c, b) /\ rep'[k] # rep[k] => req[k] # <<>> /\ Engaged(c, k)
  <1>1. CASE Disconnect(k) BY <1>1 DEF Disconnect, wireVars
  <1>2. CASE ~Disconnect(k)
    <2>1. req[k] # <<>> /\ \E a : Answer(k, a)
      BY <1>2 DEF ServerStep, HandleMap, HandleUnmap, HandleUpdate, HandleWrite, HandleWait, Serving
    <2>2. link' = link /\ \A j \in Conns : j # k \/ link[k] # "open" => rep'[j] = rep[j]
      <3>1. rep \in [Conns -> Seq(Reply)]
        BY DEF AssocInv, FInv, TypeInv, TypeOK, WireTypeOK
      <3>. QED BY <2>1, <3>1 DEF Answer
    <2>3. link[k] = "open" => Engaged(k[1], k)
      BY <2>1, WaitedFor DEF AssocInv
    <2>4. link[k] = "open" => rep[k] = <<>>
      BY <2>1, WaitedFor DEF AssocInv
    <2>5. \A c \in Clients, b \in Blocks : k = Sock(c, b) => k[1] = c
      BY DEF Sock
    <2>. QED BY <2>1, <2>2, <2>3, <2>4, <2>5
  <1>. QED BY <1>1, <1>2

LEMMA ServerSettles ==
  ASSUME NEW X, NEW C, AssocInv(X, C), NEW k \in Conns, ServerStep(k), UNCHANGED clientVars
  PROVE  \A c \in Clients : Settled(X, C, c)'
  <1>1. SUFFICES ASSUME NEW c \in Clients, Alive(c)', NEW b \in Blocks,
                        b \in mapped'[c], b \in Hosted, <<c, b>> \notin X, ~Unsettled(c, b)'
                 PROVE  Stored(C, c, b)'
    <2>1. \A d \in Clients : mapped'[d] \subseteq Blocks
      BY TypeFacts DEF AssocInv, FInv, clientVars
    <2>. QED BY <2>1 DEF Settled
  <1>2. Alive(c) /\ b \in mapped[c] /\ Sock(c, b) = Sock(c, b)' /\ call'[c] = call[c]
        /\ gen' = gen /\ gen[c] \in Nat
    BY <1>1, TypeFacts DEF clientVars, Alive, Busy, Sock, AssocInv, FInv
  <1>3. Sock(c, b) \in Conns
    BY <1>2, CallTypes DEF AssocInv, FInv
  <1>. DEFINE j == Sock(c, b)
  <1>4. CASE Unsettled(c, b)
    <2>1. rep'[j] # rep[j]
      BY <1>1, <1>2, <1>4 DEF Unsettled
    <2>2. j = k /\ rep[j] = <<>> /\ req[k] # <<>> /\ Engaged(c, k)
      BY <1>2, <1>3, <2>1, HandlerReplies
    <2>3. call[c] = [op |-> "MAP", id |-> b]
      BY <1>4, <2>2 DEF Unsettled
    <2>4. Head(req[k]).type = "MAP"
      BY <2>2, <2>3, WhatFor DEF AssocInv
    <2>5. HandleMap(k)
      BY <2>2, <2>4
      DEF ServerStep, HandleUnmap, HandleUpdate, HandleWrite, HandleWait, Disconnect, Serving
    <2>. QED BY <1>1, <2>2, <2>3, <2>5, MapStores
  <1>5. CASE ~Unsettled(c, b)
    <2>1. Stored(C, c, b)
      BY <1>1, <1>2, <1>5 DEF AssocInv, Settled
    <2>2. ASSUME NEW i \in Conns, i[1] = c, i \in mappedClients[b], link[i] = "open", i \notin C
          PROVE  i \in mappedClients'[b] /\ link'[i] = "open"
      <3>1. CASE i \in mappedClients'[b]
        BY <2>2, <3>1, HandlerReplies
      <3>2. CASE i \notin mappedClients'[b]
        <4>1. HandleUnmap(k) /\ i = k /\ Head(req[k]).id = b /\ Found(k, b)
          BY <2>2, <3>2, HandlerKeeps
        <4>2. req[k] # <<>> /\ Head(req[k]).type = "UNMAP"
          BY <4>1 DEF HandleUnmap, Serving
        <4>3. Engaged(c, k)
          BY <2>2, <4>1, <4>2, WaitedFor DEF AssocInv
        <4>4. call[c].op = "UNMAP" /\ call[c].id = b /\ k = j
          BY <4>1, <4>2, <4>3, WhatFor DEF AssocInv
        <4>5. call[c] = [op |-> "UNMAP", id |-> b]
          BY <4>3, <4>4 DEF AssocInv, FInv, TypeInv, TypeOK, ClientTypeOK, Engaged, Busy,
                            Off, Idle, Fault, Calls
        <4>6. Answer(k, PlainAck) /\ PlainAck \in Reply
          BY <2>2, <4>1 DEF HandleUnmap, PlainAck, Reply
        <4>7. rep'[k] # <<>> /\ Head(rep'[k]) = PlainAck
          <5>1. PICK L : L = {}
            OBVIOUS
          <5>2. <<k[1], k[2]>> \notin L /\ link[k] = "open" /\ FInv(L, X, C)
            BY <2>2, <4>1, <5>1 DEF AssocInv
          <5>3. PICK a \in Reply : a = PlainAck
            BY <4>6
          <5>4. Answer(k, a)
            BY <4>6, <5>3
          <5>5. rep'[k] # <<>> /\ Head(rep'[k]) = a
            BY <4>2, <5>2, <5>4, FAnswerEffect
          <5>. QED BY <5>3, <5>5
        <4>8. Unsettled(c, b)'
          BY <1>2, <4>4, <4>5, <4>7 DEF Unsettled, PlainAck
        <4>. QED BY <1>1, <4>8
      <3>. QED BY <3>1, <3>2
    <2>. QED BY <1>2, <2>1, <2>2, StoredStays DEF AssocInv, FInv
  <1>. QED BY <1>4, <1>5

-----------------------------------------------------------------------------
(* The clients. *)

LEMMA TypeFactsNext ==
  ASSUME TypeInv', NEW c \in Clients
  PROVE  gen'[c] \in Nat
  <1>1. gen'[c] \in 0 .. MaxInits
    BY DEF TypeInv, TypeOK, ClientTypeOK
  <1>. QED BY <1>1

\* A step of client c alone, which begins no association it does not wait for
\* and closes its connections only with all its associations.
LEMMA ClientSettles ==
  ASSUME NEW X, NEW C, AssocInv(X, C), TypeInv', NEW c \in Clients, mappedClients' = mappedClients,
         gen[c] <= gen'[c],
         \A d \in Clients : d # c =>
            call'[d] = call[d] /\ gen'[d] = gen[d] /\ mapped'[d] = mapped[d],
         \A k \in Conns : k[1] # c => rep'[k] = rep[k],
         \A k \in Conns : link[k] = "open" /\ (k[1] = c => mapped'[c] # {}) => link'[k] = "open",
         \A b \in mapped'[c] :
            Unsettled(c, b)' \/ (b \in mapped[c] /\ Alive(c) /\ ~Unsettled(c, b))
  PROVE  \A d \in Clients : Settled(X, C, d)'
  <1>1. SUFFICES ASSUME NEW d \in Clients, Alive(d)', NEW b \in Blocks,
                        b \in mapped'[d], b \in Hosted, <<d, b>> \notin X, ~Unsettled(d, b)'
                 PROVE  Stored(C, d, b)'
    <2>1. \A d \in Clients : mapped'[d] \subseteq Blocks
      BY DEF TypeInv, TypeOK, ClientTypeOK
    <2>. QED BY <2>1 DEF Settled
  <1>2. gen[d] \in Nat /\ gen'[d] \in Nat /\ gen[d] <= gen'[d]
    <2>1. gen[d] \in Nat
      BY TypeFacts DEF AssocInv, FInv
    <2>2. gen'[d] \in Nat
      BY TypeFactsNext
    <2>. QED BY <2>1, <2>2
  <1>3. Alive(d) /\ b \in mapped[d] /\ ~Unsettled(d, b)
    <2>1. CASE d = c BY <1>1, <2>1
    <2>2. CASE d # c
      <3>1. Alive(d) /\ b \in mapped[d] /\ Sock(d, b)' = Sock(d, b)
        BY <1>1, <2>2 DEF Alive, Busy, Sock
      <3>2. Sock(d, b) \in Conns /\ Sock(d, b)[1] # c
        BY <2>2, <3>1, CallTypes DEF AssocInv, FInv, Sock
      <3>. QED BY <1>1, <2>2, <3>1, <3>2 DEF Unsettled
    <2>. QED BY <2>1, <2>2
  <1>4. Stored(C, d, b)
    BY <1>1, <1>3 DEF AssocInv, Settled
  <1>5. \A k \in Conns : k[1] = d /\ k \in mappedClients[b] /\ link[k] = "open" /\ k \notin C
                           => k \in mappedClients'[b] /\ link'[k] = "open"
    BY <1>1
  <1>. QED BY <1>2, <1>4, <1>5, StoredStays DEF AssocInv, FInv

LEMMA IdleSettled ==
  ASSUME NEW c \in Clients, NEW b, call[c] = Idle
  PROVE  Alive(c) /\ ~Unsettled(c, b)
  BY DEF Alive, Unsettled, Idle

LEMMA DmInitSettles ==
  ASSUME NEW X, NEW C, AssocInv(X, C), TypeInv', NEW c \in Clients, DmInit(c), UNCHANGED serverVars
  PROVE  \A d \in Clients : Settled(X, C, d)'
  <1>1. /\ call \in [Clients -> [op : Calls, id : Blocks] \cup {Off, Idle, Fault}]
        /\ gen \in [Clients -> 0 .. MaxInits] /\ gen[c] \in Nat
    BY TypeFacts DEF AssocInv, FInv, TypeInv, TypeOK, ClientTypeOK
  <1>2. gen'[c] = gen[c] + 1 /\ mapped' = mapped /\ rep' = rep /\ mappedClients' = mappedClients
        /\ \A d \in Clients : d # c => call'[d] = call[d] /\ gen'[d] = gen[d]
    BY <1>1 DEF DmInit, serverVars
  <1>3. \A k \in Conns : link[k] = "open" => link'[k] = "open"
    BY DEF DmInit
  <1>4. \A b \in mapped'[c] : b \in mapped[c] /\ Alive(c) /\ ~Unsettled(c, b)
    <2>1. CASE call[c] = Idle
      BY <1>2, <2>1, IdleSettled
    <2>2. CASE call[c] = Off
      <3>1. ~Alive(c) /\ FCall({}, X, C, c)
        BY <2>2 DEF Alive, Busy, Off, Idle, Calls, AssocInv, FInv
      <3>. QED BY <1>2, <3>1 DEF FCall
    <2>. QED BY <2>1, <2>2 DEF DmInit
  <1>. QED BY <1>1, <1>2, <1>3, <1>4, ClientSettles

LEMMA DeathSettles ==
  ASSUME NEW X, NEW C, AssocInv(X, C), TypeInv', NEW c \in Clients, Reset(c), CloseAll(c), gen' = gen,
         \A d \in Clients : d # c => call'[d] = call[d], mappedClients' = mappedClients
  PROVE  \A d \in Clients : Settled(X, C, d)'
  <1>1. mapped'[c] = {} /\ \A d \in Clients : d # c => mapped'[d] = mapped[d]
    BY DEF Reset, AssocInv, FInv, TypeInv, TypeOK, ClientTypeOK
  <1>2. \A k \in Conns : k[1] # c => rep'[k] = rep[k] /\ link'[k] = link[k]
    BY DEF CloseAll
  <1>3. gen[c] \in Nat
    BY TypeFacts DEF AssocInv, FInv
  <1>. QED BY <1>1, <1>2, <1>3, ClientSettles

LEMMA BeginSettles ==
  ASSUME NEW X, NEW C, AssocInv(X, C), TypeInv', NEW c \in Clients, Begin(c), UNCHANGED serverVars
  PROVE  \A d \in Clients : Settled(X, C, d)'
  <1>1. PICK b \in Blocks :
          \/ \E d \in Data : BeginMap(c, b, d) \/ Store(c, b, d)
          \/ BeginUnmap(c, b) \/ BeginUpdate(c, b) \/ BeginWrite(c, b) \/ BeginWait(c, b)
    BY DEF Begin
  <1>2. /\ call[c] = Idle /\ gen' = gen /\ link' = link /\ rep' = rep
        /\ gen[c] \in Nat /\ mappedClients' = mappedClients
        /\ \A d \in Clients : d # c => call'[d] = call[d]
    BY <1>1, TypeFacts
    DEF BeginMap, Store, BeginUnmap, BeginUpdate, BeginWrite, BeginWait, Send, wireVars,
        serverVars, AssocInv, FInv, TypeInv, TypeOK, ClientTypeOK
  <1>3. \A x : Alive(c) /\ ~Unsettled(c, x)
    BY <1>2, IdleSettled
  <1>4. CASE \E d \in Data : BeginMap(c, b, d)
    <2>1. /\ mapped'[c] = mapped[c] \cup {b}
          /\ \A d \in Clients : d # c => mapped'[d] = mapped[d]
      BY <1>4 DEF BeginMap, AssocInv, FInv, TypeInv, TypeOK, ClientTypeOK
    <2>2. call'[c] = [op |-> "MAP", id |-> b]
      BY <1>4 DEF BeginMap, Send, AssocInv, FInv, TypeInv, TypeOK, ClientTypeOK
    <2>3. rep[Sock(c, b)] = <<>>
      <3>1. Sock(c, b) \in Conns /\ FConn({}, C, Sock(c, b))
        BY <1>3, CallTypes DEF AssocInv, FInv
      <3>2. ~Engaged(c, Sock(c, b)) /\ Sock(c, b)[1] = c
        BY <1>2 DEF Engaged, Busy, Idle, Calls, Sock
      <3>. QED BY <3>1, <3>2 DEF FConn
    <2>4. Unsettled(c, b)'
      BY <1>2, <2>2, <2>3 DEF Unsettled, Sock
    <2>. QED BY <1>2, <1>3, <2>1, <2>4, ClientSettles
  <1>5. CASE mapped' = mapped
    BY <1>2, <1>3, <1>5, ClientSettles
  <1>. QED BY <1>1, <1>4, <1>5
       DEF Store, BeginUnmap, BeginUpdate, BeginWrite, BeginWait

LEMMA ReturnSettles ==
  ASSUME NEW X, NEW C, AssocInv(X, C), TypeInv', NEW c \in Clients, Return(c), UNCHANGED serverVars
  PROVE  \A d \in Clients : Settled(X, C, d)'
  <1>. DEFINE b == call[c].id
              k == Sock(c, b)
  <1>1. CASE NullBlock(c, "MAP") \/ NullBlock(c, "UPDATE")
    <2>1. /\ Reset(c) /\ CloseAll(c) /\ gen' = gen /\ mappedClients' = mappedClients
          /\ \A d \in Clients : d # c => call'[d] = call[d]
      BY <1>1 DEF NullBlock, serverVars, AssocInv, FInv, TypeInv, TypeOK, ClientTypeOK
    <2>. QED BY <2>1, DeathSettles
  <1>2. CASE \E op \in Calls : Receive(c, op)
    <2>1. Busy(c) /\ Alive(c) /\ rep[k] # <<>> /\ call[c].op \in Calls
      BY <1>2 DEF Receive, Busy, Alive
    <2>2. k \in Conns /\ k[1] = c /\ gen[c] \in Nat
      BY <2>1, CallTypes, TypeFacts DEF AssocInv, FInv, Sock
    <2>3. /\ gen' = gen /\ link' = link /\ mappedClients' = mappedClients
          /\ \A d \in Clients : d # c => call'[d] = call[d]
          /\ \A j \in Conns : j[1] # c => rep'[j] = rep[j]
      <3>1. PICK op \in Calls : Receive(c, op)
        BY <1>2
      <3>. QED BY <2>2, <3>1
           DEF Receive, serverVars, AssocInv, FInv, TypeInv, TypeOK, ClientTypeOK, WireTypeOK
    <2>4. CASE mapped' = mapped /\ ~(call[c].op = "UNMAP" /\ Ack(c).type # "NACK")
      <3>1. \A x \in Blocks : ~Unsettled(c, x)
        BY <2>1, <2>4 DEF Unsettled, Ack
      <3>2. mapped[c] \subseteq Blocks
        BY TypeFacts DEF AssocInv, FInv
      <3>. QED BY <2>1, <2>2, <2>3, <2>4, <3>1, <3>2, ClientSettles
    <2>5. CASE call[c].op = "UNMAP" /\ mapped' = [mapped EXCEPT ![c] = @ \ {b}]
      <3>1. mapped'[c] = mapped[c] \ {b} /\ \A d \in Clients : d # c => mapped'[d] = mapped[d]
        BY <2>5 DEF AssocInv, FInv, TypeInv, TypeOK, ClientTypeOK
      <3>2. \A x : x # b => ~Unsettled(c, x)
        BY DEF Unsettled
      <3>. QED BY <2>1, <2>2, <2>3, <3>1, <3>2, ClientSettles
    <2>. QED BY <1>1, <1>2, <2>4, <2>5
         DEF Return, ReturnMap, ReturnUnmap, ReturnUpdate, ReturnWrite, ReturnWait, Receive, AssocInv
  <1>. QED BY <1>1, <1>2
       DEF Return, ReturnMap, ReturnUnmap, ReturnUpdate, ReturnWrite, ReturnWait, Calls

-----------------------------------------------------------------------------
(* The system as a whole. *)

LEMMA AssocInit ==
  ASSUME NEW X, Init
  PROVE  AssocInv(X, {})
  <1>1. \A c \in Clients : mapped[c] = {}
    BY DEF Init, ClientInit
  <1>. QED BY <1>1, FInit DEF AssocInv, Settled

LEMMA AssocStep ==
  ASSUME NEW X, NEW C, AssocInv(X, C), [Next]_vars
  PROVE  AssocInv(X, C)'
  <1>1. FInv({}, X, C)' /\ TypeInv'
    <2>1. FInv({}, X, C)'
      BY FStep, FStutter DEF AssocInv
    <2>. QED BY <2>1 DEF FInv
  <1>2. ASSUME NEW c \in Clients, ClientStep(c), UNCHANGED serverVars
        PROVE  \A d \in Clients : Settled(X, C, d)'
    <2>1. CASE DmInit(c) BY <1>1, <1>2, <2>1, DmInitSettles
    <2>2. CASE Exit(c)
      <3>1. \A d \in Clients : d # c => call'[d] = call[d]
        BY <2>2 DEF Exit, AssocInv, FInv, TypeInv, TypeOK, ClientTypeOK
      <3>. QED BY <1>1, <1>2, <2>2, <3>1, DeathSettles DEF Exit, serverVars
    <2>3. CASE Begin(c) BY <1>1, <1>2, <2>3, BeginSettles
    <2>4. CASE Return(c) BY <1>1, <1>2, <2>4, ReturnSettles
    <2>. QED BY <1>2, <2>1, <2>2, <2>3, <2>4 DEF ClientStep
  <1>3. ASSUME NEW k \in Conns, ServerStep(k), UNCHANGED clientVars
        PROVE  \A d \in Clients : Settled(X, C, d)'
    BY <1>3, ServerSettles
  <1>4. CASE UNCHANGED vars
    <2>1. ASSUME NEW c \in Clients PROVE Settled(X, C, c)'
      <3>1. Settled(X, C, c) BY DEF AssocInv
      <3>. QED BY <1>4, <3>1 DEF Settled, Stored, Unsettled, Alive, Busy, Sock, vars,
                                 wireVars, serverVars, clientVars
    <2>. QED BY <1>1, <2>1 DEF AssocInv
  <1>. QED BY <1>1, <1>2, <1>3, <1>4 DEF AssocInv, Next

\* What a client in application code may conclude.
LEMMA AssocImplies ==
  ASSUME NEW X, NEW C, AssocInv(X, C), NEW c \in Clients, call[c] = Idle, NEW b \in Hosted
  PROVE  /\ b \in mapped[c] /\ <<c, b>> \notin X => Stored(C, c, b)
         /\ Sock(c, b) \in mappedClients[b] => b \in mapped[c]
  <1>1. Alive(c) /\ ~Unsettled(c, b) /\ b \in Blocks
    BY IdleSettled, WireAssumption
  <1>2. FAssoc({}, c, b) /\ Settled(X, C, c)
    BY <1>1 DEF AssocInv, FInv
  <1>3. AssocOK(c, b)
    BY <1>2 DEF FAssoc, Prompt
  <1>. QED BY <1>1, <1>2, <1>3 DEF AssocOK, Settled

\* Between its calls a client and the server agree on what is mapped, however
\* often the client connected again and whatever the other clients do.
THEOREM AssociationsKept == Spec => []AssociationsAgree
  <1>. DEFINE Inv == AssocInv({}, {})
  <1>1. Init => Inv
    BY AssocInit
  <1>2. Inv /\ [Next]_vars => Inv'
    BY AssocStep
  <1>3. Inv => AssociationsAgree
    <2>. SUFFICES ASSUME Inv, NEW c \in Clients, call[c] = Idle, NEW b \in Hosted
                  PROVE  /\ b \in mapped[c] => Stored({}, c, b)
                         /\ Sock(c, b) \in mappedClients[b] => b \in mapped[c]
      BY DEF AssociationsAgree, Stored
    <2>1. PICK X : X = {}
      OBVIOUS
    <2>2. AssocInv(X, {}) /\ <<c, b>> \notin X
      BY <2>1
    <2>. QED BY <2>2, AssocImplies
  <1>. QED BY <1>1, <1>2, <1>3, PTL DEF Spec

-----------------------------------------------------------------------------
(* Restarts. *)

AgreeInv == RestartInv /\ FaultTypeOK /\ \A c \in Clients : Settled(crossed, cut, c)

LEMMA AgreeNow ==
  ASSUME NEW X, NEW C, crossed = X, cut = C
  PROVE  AgreeInv <=> AssocInv(X, C) /\ FaultTypeOK
  BY FCrossedNow DEF AgreeInv, AssocInv

LEMMA AgreeNext ==
  ASSUME NEW X, NEW C, \A c \in Clients : Settled(X, C, c)', crossed' = X, cut' = C
  PROVE  \A c \in Clients : Settled(crossed, cut, c)'
  BY DEF Settled, Stored

\* What is forgotten is not mapped any more.
LEMMA SettledForget ==
  ASSUME NEW X, NEW C, NEW Y, NEW c \in Clients, Settled(X, C, c)',
         \A b \in mapped'[c] : <<c, b>> \in X => <<c, b>> \in Y
  PROVE  Settled(Y, C, c)'
  BY DEF Settled

\* A server that ends leaves no association of its own to answer for.
LEMMA SettledCrash ==
  ASSUME NEW X, NEW C, NEW Y, NEW D, FInv({}, X, C), NEW s \in Servers, Crash(s),
         Y = X \cup Orphans(s), D = C \cup Gone(s), NEW c \in Clients, Settled(X, C, c)
  PROVE  Settled(Y, D, c)'
  <1>1. UNCHANGED <<link, rep, mapped, call, gen>>
    BY DEF Crash, clientVars
  <1>2. SUFFICES ASSUME Alive(c), NEW b \in Blocks, b \in mapped[c], b \in Hosted,
                        <<c, b>> \notin Y, ~Unsettled(c, b)
                 PROVE  Stored(D, c, b)'
    <2>1. mapped[c] \subseteq Blocks
      BY TypeFacts DEF FInv
    <2>. QED BY <1>1, <2>1 DEF Settled, Unsettled, Alive, Busy, Sock
  <1>3. Owner[b] # s /\ Stored(C, c, b)
    BY <1>2 DEF Orphans, Settled
  <1>4. mappedClients'[b] = mappedClients[b]
    BY <1>3 DEF Crash
  <1>5. \A g : <<c, Owner[b], g>> \notin Gone(s)
    BY <1>3 DEF Gone
  <1>. QED BY <1>1, <1>3, <1>4, <1>5 DEF Stored

\* A call that breaks leaves only the association of a MAP open.
LEMMA SettledBroken ==
  ASSUME NEW X, NEW C, FInv({}, X, C), NEW c \in Clients, Broken(c),
         call[c].op = "MAP" => <<c, call[c].id>> \in X,
         NEW d \in Clients, Settled(X, C, d)
  PROVE  Settled(X, C, d)'
  <1>1. /\ UNCHANGED <<link, rep, mapped, gen, mappedClients>> /\ Busy(c)
        /\ rep[Sock(c, call[c].id)] = <<>> /\ call'[c] = Idle
        /\ \A e \in Clients : e # c => call'[e] = call[e]
    BY DEF Broken, serverVars, FInv, TypeInv, TypeOK, ClientTypeOK
  <1>2. \A b : Stored(C, d, b)' <=> Stored(C, d, b)
    BY <1>1 DEF Stored
  <1>3. CASE d # c
    BY <1>1, <1>2, <1>3 DEF Settled, Unsettled, Alive, Busy, Sock
  <1>4. CASE d = c
    <2>1. \A b : <<c, b>> \notin X => ~Unsettled(c, b)
      BY <1>1 DEF Unsettled
    <2>2. Alive(c)
      BY <1>1 DEF Alive
    <2>. QED BY <1>1, <1>2, <1>4, <2>1, <2>2 DEF Settled
  <1>. QED BY <1>3, <1>4

LEMMA AgreeStep == AgreeInv /\ [RestartNext]_restartVars => AgreeInv'
  <1>. SUFFICES ASSUME AgreeInv, [RestartNext]_restartVars PROVE AgreeInv'
    OBVIOUS
  <1>1. RestartInv' /\ FaultTypeOK'
    BY RestartStep DEF AgreeInv
  <1>2. PICK X : X = crossed
    OBVIOUS
  <1>3. PICK C : C = cut
    OBVIOUS
  <1>4. PICK Y : Y = crossed'
    OBVIOUS
  <1>5. PICK D : D = cut'
    OBVIOUS
  <1>6. AssocInv(X, C) /\ FInv({}, X, C) /\ \A c \in Clients : Settled(X, C, c)
    BY <1>2, <1>3, AgreeNow DEF AssocInv
  <1>7. CASE UNCHANGED restartVars \/ (Next /\ Forget)
    <2>1. [Next]_vars /\ D = C
      BY <1>3, <1>5, <1>7 DEF restartVars, faultVars, Forget
    <2>2. \A c \in Clients : Settled(X, C, c)'
      BY <1>6, <2>1, AssocStep DEF AssocInv
    <2>3. \A c \in Clients : \A b \in mapped'[c] : <<c, b>> \in X => <<c, b>> \in Y
      BY <1>2, <1>4, <1>7 DEF restartVars, faultVars, Forget
    <2>4. \A c \in Clients : Settled(Y, C, c)'
      BY <2>2, <2>3, SettledForget
    <2>. QED BY <1>1, <1>4, <1>5, <2>1, <2>4, AgreeNext DEF AgreeInv
  <1>8. ASSUME NEW s \in Servers, Crash(s) PROVE AgreeInv'
    <2>1. Y = X \cup Orphans(s) /\ D = C \cup Gone(s)
      BY <1>2, <1>3, <1>4, <1>5, <1>8 DEF Crash, Orphans, Gone
    <2>2. \A c \in Clients : Settled(Y, D, c)'
      BY <1>6, <1>8, <2>1, SettledCrash
    <2>. QED BY <1>1, <1>4, <1>5, <2>2, AgreeNext DEF AgreeInv
  <1>9. ASSUME NEW c \in Clients, Broken(c) PROVE AgreeInv'
    <2>1. X \subseteq Y /\ D = C /\ (call[c].op = "MAP" => <<c, call[c].id>> \in Y)
      BY <1>2, <1>3, <1>4, <1>5, <1>9 DEF Broken
    <2>2. FInv({}, Y, C)
      BY <1>6, <2>1, FGrow
    <2>3. \A d \in Clients : Settled(Y, C, d)
      BY <1>6, <2>1 DEF Settled
    <2>4. \A d \in Clients : Settled(Y, C, d)'
      BY <1>9, <2>1, <2>2, <2>3, SettledBroken
    <2>. QED BY <1>1, <1>4, <1>5, <2>1, <2>4, AgreeNext DEF AgreeInv
  <1>. QED BY <1>7, <1>8, <1>9 DEF RestartNext

\* Between its calls a client agrees with the present server process on what
\* it has mapped since that process started, and the process takes no
\* association of the one before for its own.
THEOREM MappedSinceKept == RestartSpec => []MappedSinceAgree
  <1>1. RestartInit => AgreeInv
    <2>. SUFFICES ASSUME RestartInit PROVE AgreeInv
      OBVIOUS
    <2>1. PICK X : X = crossed
      OBVIOUS
    <2>2. AssocInv(X, {}) /\ cut = {}
      BY AssocInit DEF RestartInit
    <2>3. FaultTypeOK
      BY MaxCrashesAssumption DEF RestartInit, FaultTypeOK
    <2>. QED BY <2>1, <2>2, <2>3, AgreeNow
  <1>2. AgreeInv => MappedSinceAgree
    <2>. SUFFICES ASSUME AgreeInv, NEW c \in Clients, call[c] = Idle, NEW b \in Hosted
                  PROVE  /\ b \in mapped[c] /\ <<c, b>> \notin crossed => Stored(cut, c, b)
                         /\ Sock(c, b) \in mappedClients[b] => b \in mapped[c]
      BY DEF MappedSinceAgree, Stored
    <2>1. PICK X : X = crossed
      OBVIOUS
    <2>2. PICK C : C = cut
      OBVIOUS
    <2>3. AssocInv(X, C)
      BY <2>1, <2>2, AgreeNow
    <2>4. /\ b \in mapped[c] /\ <<c, b>> \notin X => Stored(C, c, b)
          /\ Sock(c, b) \in mappedClients[b] => b \in mapped[c]
      BY <2>3, AssocImplies
    <2>. QED BY <2>1, <2>2, <2>4
  <1>. QED BY <1>1, <1>2, AgreeStep, PTL DEF RestartSpec
=============================================================================
