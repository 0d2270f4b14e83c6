--------------------------- MODULE DMSystemProofs ---------------------------
(***************************************************************************)
(* Types of DMSystem, time-outs included, and its safety without them:     *)
(* Inductive is an invariant, and the properties follow from it.  A step   *)
(* either changes the connections and variables of one client              *)
(* (ClientFrame) or answers one request (AnswerFrame); the blocks'         *)
(* revisions only grow.  Last, that DMSystem implements SharedMemory.      *)
(***************************************************************************)
EXTENDS DMInvariant, DMMemory, SequenceTheorems, TLAPS

-----------------------------------------------------------------------------
(* Types, time-outs included. *)

LEMMA RequestTypes ==
  ASSUME NEW b \in Copy
  PROVE  /\ \A op \in Calls : op # "WRITE" => ShallowRequest(op, b) \in BoundedRequest
         /\ \A d \in Data : b.rev < MaxRev => WriteRequest(b, d) \in BoundedRequest
  BY DEF Copy, Calls, ShallowRequest, WriteRequest, BoundedRequest, Request

LEMMA ReplyTypes ==
  ASSUME NEW b \in [rev : Revs, data : Data], NEW id \in Blocks
  PROVE  Nack \in Reply /\ PlainAck \in Reply
         /\ ShallowAck(id, b) \in Reply /\ FullAck(id, b) \in Reply
  BY DEF Nack, PlainAck, ShallowAck, FullAck, Reply, BlockInfo

LEMMA ContentType ==
  ASSUME NEW m, m.data \in Data \cup {NoData}
  PROVE  Content(m) \in Data
  BY WireAssumption DEF Content

LEMMA CallTypes ==
  ASSUME TypeInv, NEW c \in Clients
  PROVE  /\ Busy(c) => call[c].id \in Blocks /\ Sock(c, call[c].id) \in Conns
         /\ Alive(c) => \A b \in Blocks : Sock(c, b) \in Conns
  <1>1. call[c] \in [op : Calls, id : Blocks] \cup {Off, Idle, Fault}
    BY DEF TypeInv, TypeOK, ClientTypeOK
  <1>2. Busy(c) => call[c].id \in Blocks
    BY <1>1 DEF Busy, Calls, Off, Idle, Fault
  <1>3. Alive(c) => gen[c] \in 1 .. MaxInits
    BY WireAssumption DEF TypeInv, TypeOK, ClientTypeOK
  <1>4. Alive(c) => \A b \in Blocks : Sock(c, b) \in Conns
    BY <1>3, WireAssumption DEF Sock, Conns
  <1>. QED BY <1>2, <1>4 DEF Alive

LEMMA TypeInit == Init => TypeInv
  BY WireAssumption, NoBlockAssumption
  DEF Init, WireInit, ServerInit, ClientInit, TypeInv, TypeOK, WireTypeOK,
      ServerTypeOK, ClientTypeOK, Revs, NoCopy, NewCopy, Copy, Alive, Busy, Off, Idle, Calls

-----------------------------------------------------------------------------
(* The server's handlers. *)

LEMMA HeadType ==
  ASSUME TypeInv, NEW k \in Conns, req[k] # <<>>
  PROVE  /\ Head(req[k]) \in BoundedRequest /\ Head(req[k]) \in Request
         /\ Tail(req[k]) \in Seq(BoundedRequest)
  BY HeadTailProperties DEF TypeInv, BoundedRequest

LEMMA RequestSeqs ==
  ASSUME NEW s \in Seq(BoundedRequest)
  PROVE  s \in Seq(Request)
  BY DEF BoundedRequest

LEMMA AnswerType ==
  ASSUME TypeInv, NEW k \in Conns, req[k] # <<>>, NEW a \in Reply, Answer(k, a)
  PROVE  /\ WireTypeOK' /\ req' \in [Conns -> Seq(BoundedRequest)]
         /\ thread' \in [Conns -> {"recv", "done"}]
  <1>1. req' \in [Conns -> Seq(BoundedRequest)]
    BY HeadType DEF Answer, TypeInv
  <1>2. req' \in [Conns -> Seq(Request)]
    BY <1>1, RequestSeqs
  <1>3. rep' \in [Conns -> Seq(Reply)]
    <2>1. rep \in [Conns -> Seq(Reply)] BY DEF TypeInv, TypeOK, WireTypeOK
    <2>2. Append(rep[k], a) \in Seq(Reply) BY <2>1, AppendProperties
    <2>. QED BY <2>1, <2>2 DEF Answer
  <1>4. link' \in [Conns -> {"new", "open", "closed"}]
    BY DEF Answer, TypeInv, TypeOK, WireTypeOK
  <1>5. thread' \in [Conns -> {"recv", "done"}]
    BY DEF Answer, TypeInv, TypeOK, ServerTypeOK
  <1>. QED BY <1>1, <1>2, <1>3, <1>4, <1>5 DEF WireTypeOK

LEMMA TypeServerStep ==
  ASSUME TypeInv, NEW k \in Conns, ServerStep(k), UNCHANGED clientVars
  PROVE  TypeInv'
  <1>. DEFINE m == Head(req[k])
  <1>1. ASSUME UNCHANGED clientVars,
               blocks' \in [Blocks -> [rev : Revs, data : Data]],
               mappedClients' \in [Blocks -> SUBSET Conns],
               thread' \in [Conns -> {"recv", "done"}],
               WireTypeOK', req' \in [Conns -> Seq(BoundedRequest)]
        PROVE  TypeInv'
    BY <1>1 DEF TypeInv, TypeOK, ServerTypeOK, ClientTypeOK, clientVars, Alive, Busy
  <1>2. ASSUME req[k] # <<>>
        PROVE  /\ m \in Request /\ m.id \in Blocks
               /\ m.type = "WRITE" => m.rev < MaxRev /\ m.rev \in Nat
               /\ blocks[m.id] \in [rev : Revs, data : Data] /\ Content(m) \in Data
    <2>1. m \in Request /\ m \in BoundedRequest
      BY <1>2, HeadType
    <2>. QED BY <2>1, ContentType
         DEF Request, BoundedRequest, Revs, TypeInv, TypeOK, ServerTypeOK
  <1>3. blocks \in [Blocks -> [rev : Revs, data : Data]]
        /\ mappedClients \in [Blocks -> SUBSET Conns]
    BY DEF TypeInv, TypeOK, ServerTypeOK
  <1>4. CASE HandleMap(k)
    <2>1. req[k] # <<>> BY <1>4 DEF HandleMap, Serving
    <2>2. PICK a \in Reply : Answer(k, a)
      BY <1>2, <1>4, <2>1, ReplyTypes DEF HandleMap
    <2>3. mappedClients' \in [Blocks -> SUBSET Conns] /\ blocks' = blocks
      BY <1>2, <1>3, <1>4, <2>1 DEF HandleMap
    <2>. QED BY <1>1, <1>3, <2>1, <2>2, <2>3, AnswerType
  <1>5. CASE HandleUnmap(k)
    <2>1. req[k] # <<>> BY <1>5 DEF HandleUnmap, Serving
    <2>2. PICK a \in Reply : Answer(k, a)
      BY <1>2, <1>5, <2>1, ReplyTypes DEF HandleUnmap
    <2>3. mappedClients' \in [Blocks -> SUBSET Conns] /\ blocks' = blocks
      BY <1>2, <1>3, <1>5, <2>1 DEF HandleUnmap
    <2>. QED BY <1>1, <1>3, <2>1, <2>2, <2>3, AnswerType
  <1>6. CASE HandleUpdate(k)
    <2>1. req[k] # <<>> BY <1>6 DEF HandleUpdate, Serving
    <2>2. PICK a \in Reply : Answer(k, a)
      BY <1>2, <1>6, <2>1, ReplyTypes DEF HandleUpdate
    <2>3. mappedClients' = mappedClients /\ blocks' = blocks
      BY <1>6 DEF HandleUpdate
    <2>. QED BY <1>1, <1>3, <2>1, <2>2, <2>3, AnswerType
  <1>7. CASE HandleWrite(k)
    <2>1. req[k] # <<>> /\ m.type = "WRITE" BY <1>7 DEF HandleWrite, Serving
    <2>2. PICK a \in Reply : Answer(k, a)
      BY <1>2, <1>7, <2>1, ReplyTypes DEF HandleWrite
    <2>3. m.rev + 1 \in Revs
      BY <1>2, <2>1, WireAssumption DEF Revs
    <2>4. blocks' \in [Blocks -> [rev : Revs, data : Data]] /\ mappedClients' = mappedClients
      BY <1>2, <1>3, <1>7, <2>1, <2>3 DEF HandleWrite
    <2>. QED BY <1>1, <1>3, <2>1, <2>2, <2>4, AnswerType
  <1>8. CASE HandleWait(k)
    <2>1. req[k] # <<>> BY <1>8 DEF HandleWait, Serving
    <2>2. Answer(k, PlainAck) /\ PlainAck \in Reply
      BY <1>2, <1>8, <2>1, ReplyTypes DEF HandleWait
    <2>3. mappedClients' = mappedClients /\ blocks' = blocks
      BY <1>8 DEF HandleWait
    <2>. QED BY <1>1, <1>3, <2>1, <2>2, <2>3, AnswerType
  <1>9. CASE Disconnect(k)
    BY <1>9 DEF Disconnect, TypeInv, TypeOK, WireTypeOK, ServerTypeOK, ClientTypeOK,
                clientVars, wireVars, Alive, Busy
  <1>. QED BY <1>4, <1>5, <1>6, <1>7, <1>8, <1>9 DEF ServerStep

-----------------------------------------------------------------------------
(* The client's calls. *)

LEMMA SendType ==
  ASSUME TypeInv, NEW c \in Clients, NEW b \in Blocks, NEW op \in Calls,
         NEW m \in BoundedRequest, call[c] = Idle, Send(c, op, b, m)
  PROVE  /\ WireTypeOK' /\ req' \in [Conns -> Seq(BoundedRequest)]
         /\ call' \in [Clients -> [op : Calls, id : Blocks] \cup {Off, Idle, Fault}]
         /\ gen' = gen /\ call' = [call EXCEPT ![c] = [op |-> op, id |-> b]]
  <1>1. Sock(c, b) \in Conns
    BY CallTypes DEF Alive
  <1>2. req' \in [Conns -> Seq(BoundedRequest)]
    <2>1. req \in [Conns -> Seq(BoundedRequest)] BY DEF TypeInv
    <2>2. Append(req[Sock(c, b)], m) \in Seq(BoundedRequest)
      BY <1>1, <2>1, AppendProperties
    <2>. QED BY <2>1, <2>2 DEF Send
  <1>3. req' \in [Conns -> Seq(Request)]
    BY <1>2, RequestSeqs
  <1>. QED BY <1>2, <1>3 DEF Send, TypeInv, TypeOK, WireTypeOK, ClientTypeOK

\* A step of client c that leaves the types of what it changes right.
LEMMA TypeFrame ==
  ASSUME TypeInv, NEW c \in Clients, UNCHANGED serverVars,
         WireTypeOK', req' \in [Conns -> Seq(BoundedRequest)], ClientTypeOK',
         \A d \in Clients : d # c =>
            call'[d] = call[d] /\ local'[d] = local[d] /\ gen'[d] = gen[d],
         Alive(c)' => gen'[c] > 0,
         call'[c].op = "WRITE" => local'[c][call'[c].id].rev < MaxRev
  PROVE  TypeInv'
  <1>1. TypeOK'
    BY DEF TypeInv, TypeOK, ServerTypeOK, serverVars
  <1>2. \A d \in Clients : /\ Alive(d)' => gen'[d] > 0
                          /\ call'[d].op = "WRITE" => local'[d][call'[d].id].rev < MaxRev
    <2>. SUFFICES ASSUME NEW d \in Clients
                  PROVE  /\ Alive(d)' => gen'[d] > 0
                         /\ call'[d].op = "WRITE" => local'[d][call'[d].id].rev < MaxRev
      OBVIOUS
    <2>1. CASE d = c BY <2>1 DEF Alive, Busy
    <2>2. CASE d # c
      <3>1. call'[d] = call[d] /\ local'[d] = local[d] /\ gen'[d] = gen[d]
        BY <2>2
      <3>. QED BY <3>1 DEF TypeInv, Alive, Busy
    <2>. QED BY <2>1, <2>2
  <1>. QED BY <1>1, <1>2 DEF TypeInv, Alive, Busy

LEMMA IdleIsNoCall ==
  ASSUME NEW v \in {Off, Idle, Fault}
  PROVE  v.op \notin Calls /\ v.op # "WRITE"
  BY DEF Off, Idle, Fault, Calls

LEMMA LocalTypes ==
  ASSUME TypeInv, NEW c \in Clients, NEW b \in Blocks
  PROVE  /\ local \in [Clients -> [Blocks -> Copy]] /\ local[c][b] \in Copy
         /\ base \in [Clients -> [Blocks -> Data]] /\ base[c][b] \in Data
         /\ NoCopy(b) \in Copy
         /\ \A d \in Data : NewCopy(b, d) \in Copy
  <1>1. \A d \in Data : NewCopy(b, d) \in Copy
    BY WireAssumption DEF NewCopy, Copy, Revs
  <1>2. NoCopy(b) \in Copy
    BY <1>1, WireAssumption DEF NoCopy
  <1>3. local \in [Clients -> [Blocks -> Copy]] /\ base \in [Clients -> [Blocks -> Data]]
    BY DEF TypeInv, TypeOK, ClientTypeOK
  <1>. QED BY <1>1, <1>2, <1>3

LEMMA CopyExcept ==
  ASSUME NEW l \in Copy
  PROVE  /\ \A d \in Data : [l EXCEPT !.data = d] \in Copy
         /\ [l EXCEPT !.valid = FALSE] \in Copy
         /\ \A r \in Revs : [l EXCEPT !.rev = r] \in Copy
  BY DEF Copy

LEMMA SetCopyType ==
  ASSUME TypeInv, NEW c \in Clients, NEW b \in Blocks, NEW l \in Copy, SetCopy(c, b, l)
  PROVE  /\ local' \in [Clients -> [Blocks -> Copy]] /\ local'[c][b] = l
         /\ \A d \in Clients : d # c => local'[d] = local[d]
         /\ \A d \in Clients, a \in Blocks : <<d, a>> # <<c, b>> => local'[d][a] = local[d][a]
  BY LocalTypes DEF SetCopy

LEMMA SetBaseType ==
  ASSUME TypeInv, NEW c \in Clients, NEW b \in Blocks, NEW d \in Data,
         base' = [base EXCEPT ![c][b] = d]
  PROVE  /\ base' \in [Clients -> [Blocks -> Data]] /\ base'[c][b] = d
         /\ \A e \in Clients, a \in Blocks : <<e, a>> # <<c, b>> => base'[e][a] = base[e][a]
  BY LocalTypes

LEMMA TypeBegin ==
  ASSUME TypeInv, NEW c \in Clients, Begin(c), UNCHANGED serverVars
  PROVE  TypeInv'
  <1>1. PICK b \in Blocks :
          \/ \E d \in Data : BeginMap(c, b, d) \/ Store(c, b, d)
          \/ BeginUnmap(c, b) \/ BeginUpdate(c, b)
          \/ BeginWrite(c, b) \/ BeginWait(c, b)
    BY DEF Begin
  <1>2. ASSUME NEW op \in Calls, NEW m \in BoundedRequest, Send(c, op, b, m),
               call[c] = Idle,
               mapped' \in [Clients -> SUBSET Blocks],
               local' \in [Clients -> [Blocks -> Copy]],
               base' \in [Clients -> [Blocks -> Data]],
               \A d \in Clients : d # c => local'[d] = local[d],
               op = "WRITE" => local'[c][b].rev < MaxRev
        PROVE  TypeInv'
    <2>1. /\ WireTypeOK' /\ req' \in [Conns -> Seq(BoundedRequest)]
          /\ call' \in [Clients -> [op : Calls, id : Blocks] \cup {Off, Idle, Fault}]
          /\ gen' = gen /\ call' = [call EXCEPT ![c] = [op |-> op, id |-> b]]
      BY <1>2, SendType
    <2>2. call'[c] = [op |-> op, id |-> b] /\ \A d \in Clients : d # c => call'[d] = call[d]
      BY <2>1 DEF TypeInv, TypeOK, ClientTypeOK
    <2>3. ClientTypeOK'
      BY <1>2, <2>1 DEF ClientTypeOK, TypeInv, TypeOK
    <2>4. gen'[c] > 0
      BY <1>2, <2>1 DEF TypeInv, Alive
    <2>5. call'[c].op = "WRITE" => local'[c][call'[c].id].rev < MaxRev
      BY <1>2, <2>2
    <2>. QED BY <1>2, <2>1, <2>2, <2>3, <2>4, <2>5, TypeFrame
  <1>3. mapped \in [Clients -> SUBSET Blocks]
    BY DEF TypeInv, TypeOK, ClientTypeOK
  <1>4. ASSUME NEW d \in Data, BeginMap(c, b, d) PROVE TypeInv'
    <2>. DEFINE new == NewCopy(b, d)
    <2>1. new \in Copy /\ ShallowRequest("MAP", new) \in BoundedRequest /\ "MAP" \in Calls
      BY LocalTypes, RequestTypes DEF Calls
    <2>2. mapped' \in [Clients -> SUBSET Blocks]
      BY <1>3, <1>4 DEF BeginMap
    <2>3. local' \in [Clients -> [Blocks -> Copy]] /\ \A e \in Clients : e # c => local'[e] = local[e]
      BY <1>4, <2>1, SetCopyType DEF BeginMap
    <2>4. base' \in [Clients -> [Blocks -> Data]]
      BY <1>4, LocalTypes DEF BeginMap
    <2>5. Send(c, "MAP", b, ShallowRequest("MAP", new)) /\ call[c] = Idle
      BY <1>4 DEF BeginMap
    <2>. QED BY <1>2, <2>1, <2>2, <2>3, <2>4, <2>5
  <1>5. ASSUME NEW d \in Data, Store(c, b, d) PROVE TypeInv'
    <2>1. local' \in [Clients -> [Blocks -> Copy]]
      <3>1. [local[c][b] EXCEPT !.data = d] \in Copy
        BY LocalTypes, CopyExcept
      <3>. QED BY <1>5, <3>1, SetCopyType DEF Store
    <2>2. ClientTypeOK' /\ WireTypeOK' /\ req' \in [Conns -> Seq(BoundedRequest)]
      BY <1>5, <2>1 DEF Store, TypeInv, TypeOK, ClientTypeOK, WireTypeOK, wireVars
    <2>3. call' = call /\ gen' = gen /\ call[c] = Idle
      BY <1>5 DEF Store
    <2>4. \A e \in Clients : e # c => local'[e] = local[e]
      BY <1>5, LocalTypes, CopyExcept, SetCopyType DEF Store
    <2>5. gen'[c] > 0 /\ call'[c].op # "WRITE"
      BY <2>3, IdleIsNoCall DEF TypeInv, Alive
    <2>. QED BY <2>2, <2>3, <2>4, <2>5, TypeFrame
  <1>6. ASSUME BeginUnmap(c, b) \/ BeginUpdate(c, b) \/ BeginWrite(c, b) \/ BeginWait(c, b)
        PROVE  TypeInv'
    <2>1. mapped' = mapped /\ local' = local /\ base' = base /\ call[c] = Idle
      BY <1>6 DEF BeginUnmap, BeginUpdate, BeginWrite, BeginWait
    <2>2. local[c][b] \in Copy /\ base[c][b] \in Data
      BY LocalTypes
    <2>3. /\ {"UNMAP", "UPDATE", "WRITE", "WAIT"} \subseteq Calls
          /\ \A op \in Calls : op # "WRITE" => ShallowRequest(op, local[c][b]) \in BoundedRequest
          /\ local[c][b].rev < MaxRev => WriteRequest(local[c][b], base[c][b]) \in BoundedRequest
      BY <2>2, RequestTypes DEF Calls
    <2>4. PICK op \in Calls, m \in BoundedRequest :
            Send(c, op, b, m) /\ (op = "WRITE" => local[c][b].rev < MaxRev)
      <3>1. CASE BeginUnmap(c, b) BY <3>1, <2>3 DEF BeginUnmap
      <3>2. CASE BeginUpdate(c, b) BY <3>2, <2>3 DEF BeginUpdate
      <3>3. CASE BeginWrite(c, b) BY <3>3, <2>3 DEF BeginWrite
      <3>4. CASE BeginWait(c, b) BY <3>4, <2>3 DEF BeginWait
      <3>. QED BY <1>6, <3>1, <3>2, <3>3, <3>4
    <2>. QED BY <1>2, <1>3, <2>1, <2>4, LocalTypes
  <1>. QED BY <1>1, <1>4, <1>5, <1>6

LEMMA WireUnchanged ==
  ASSUME TypeInv, UNCHANGED wireVars
  PROVE  WireTypeOK' /\ req' \in [Conns -> Seq(BoundedRequest)]
  BY DEF TypeInv, TypeOK, WireTypeOK, wireVars

LEMMA TypeDmInit ==
  ASSUME TypeInv, NEW c \in Clients, DmInit(c), UNCHANGED serverVars
  PROVE  TypeInv'
  <1>1. WireTypeOK' /\ req' \in [Conns -> Seq(BoundedRequest)]
    BY DEF DmInit, TypeInv, TypeOK, WireTypeOK
  <1>2. gen[c] \in 0 .. MaxInits /\ gen[c] < MaxInits /\ gen' = [gen EXCEPT ![c] = gen[c] + 1]
    BY DEF DmInit, TypeInv, TypeOK, ClientTypeOK
  <1>3. gen' \in [Clients -> 0 .. MaxInits] /\ gen'[c] > 0
        /\ \A d \in Clients : d # c => gen'[d] = gen[d]
    BY <1>2, WireAssumption DEF TypeInv, TypeOK, ClientTypeOK
  <1>4. ClientTypeOK' /\ call'[c] = Idle /\ local' = local
        /\ \A d \in Clients : d # c => call'[d] = call[d]
    BY <1>3 DEF DmInit, TypeInv, TypeOK, ClientTypeOK
  <1>5. call'[c].op # "WRITE"
    BY <1>4, IdleIsNoCall
  <1>. QED BY <1>1, <1>3, <1>4, <1>5, TypeFrame

\* A process that dies: Exit, and the null dereference.
LEMMA TypeDeath ==
  ASSUME TypeInv, NEW c \in Clients, UNCHANGED serverVars, NEW v \in {Off, Fault},
         call' = [call EXCEPT ![c] = v], Reset(c), CloseAll(c), UNCHANGED <<gen, req>>
  PROVE  TypeInv'
  <1>1. link' \in [Conns -> {"new", "open", "closed"}]
    BY DEF CloseAll, TypeInv, TypeOK, WireTypeOK
  <1>2. rep' \in [Conns -> Seq(Reply)]
    BY DEF CloseAll, TypeInv, TypeOK, WireTypeOK
  <1>3. WireTypeOK' /\ req' \in [Conns -> Seq(BoundedRequest)]
    BY <1>1, <1>2 DEF TypeInv, TypeOK, WireTypeOK
  <1>4. mapped' \in [Clients -> SUBSET Blocks]
    BY DEF Reset, TypeInv, TypeOK, ClientTypeOK
  <1>5. local' \in [Clients -> [Blocks -> Copy]] /\ \A d \in Clients : d # c => local'[d] = local[d]
    BY LocalTypes DEF Reset, TypeInv, TypeOK, ClientTypeOK
  <1>6. base' \in [Clients -> [Blocks -> Data]]
    BY WireAssumption DEF Reset, TypeInv, TypeOK, ClientTypeOK
  <1>7. /\ call' \in [Clients -> [op : Calls, id : Blocks] \cup {Off, Idle, Fault}]
        /\ call'[c] = v /\ \A d \in Clients : d # c => call'[d] = call[d]
    BY DEF TypeInv, TypeOK, ClientTypeOK
  <1>8. ClientTypeOK' /\ gen' = gen
    BY <1>4, <1>5, <1>6, <1>7 DEF ClientTypeOK, TypeInv, TypeOK
  <1>9. ~Alive(c)' /\ call'[c].op # "WRITE"
    BY <1>7, IdleIsNoCall DEF Alive, Busy, Off, Idle, Fault
  <1>. QED BY <1>3, <1>5, <1>7, <1>8, <1>9, TypeFrame

\* What a call that got its reply can rely on.
LEMMA ReceiveType ==
  ASSUME TypeInv, NEW c \in Clients, NEW op \in Calls, Receive(c, op)
  PROVE  /\ call[c].id \in Blocks /\ Sock(c, call[c].id) \in Conns
         /\ rep[Sock(c, call[c].id)] # <<>> /\ Ack(c) \in Reply
         /\ WireTypeOK' /\ req' \in [Conns -> Seq(BoundedRequest)]
         /\ call' \in [Clients -> [op : Calls, id : Blocks] \cup {Off, Idle, Fault}]
         /\ gen' = gen /\ call' = [call EXCEPT ![c] = Idle]
  <1>1. Busy(c) /\ call[c].id \in Blocks /\ Sock(c, call[c].id) \in Conns
    BY CallTypes DEF Receive, Busy
  <1>2. rep[Sock(c, call[c].id)] # <<>> /\ rep \in [Conns -> Seq(Reply)]
    BY DEF Receive, TypeInv, TypeOK, WireTypeOK
  <1>3. Ack(c) \in Reply /\ Tail(rep[Sock(c, call[c].id)]) \in Seq(Reply)
    BY <1>1, <1>2, HeadTailProperties DEF Ack
  <1>4. rep' \in [Conns -> Seq(Reply)]
    BY <1>1, <1>2, <1>3 DEF Receive
  <1>5. WireTypeOK' /\ req' \in [Conns -> Seq(BoundedRequest)]
    BY <1>4 DEF Receive, TypeInv, TypeOK, WireTypeOK
  <1>. QED BY <1>1, <1>2, <1>3, <1>5 DEF Receive, TypeInv, TypeOK, ClientTypeOK

LEMMA InstallType ==
  ASSUME TypeInv, NEW c \in Clients, NEW b \in Blocks, NEW blk \in BlockInfo,
         NEW valid \in BOOLEAN, Install(c, b, blk, valid)
  PROVE  /\ local' \in [Clients -> [Blocks -> Copy]] /\ base' \in [Clients -> [Blocks -> Data]]
         /\ local'[c][b] = [id |-> blk.id, rev |-> blk.rev, data |-> Content(blk), valid |-> valid]
         /\ base'[c][b] = Content(blk)
         /\ \A d \in Clients, a \in Blocks : <<d, a>> # <<c, b>> =>
              local'[d][a] = local[d][a] /\ base'[d][a] = base[d][a]
         /\ \A d \in Clients : d # c => local'[d] = local[d]
  <1>1. Content(blk) \in Data
    BY ContentType DEF BlockInfo
  <1>2. [id |-> blk.id, rev |-> blk.rev, data |-> Content(blk), valid |-> valid] \in Copy
    BY <1>1 DEF BlockInfo, Copy
  <1>. QED BY <1>1, <1>2, SetCopyType, LocalTypes DEF Install

LEMMA AckTypes ==
  ASSUME NEW r \in Reply, r.block # NoBlock
  PROVE  r.block \in BlockInfo
  BY DEF Reply

LEMMA TypeReturn ==
  ASSUME TypeInv, NEW c \in Clients, Return(c), UNCHANGED serverVars
  PROVE  TypeInv'
  <1>. DEFINE b == call[c].id
  <1>1. ASSUME NEW op \in Calls, Receive(c, op),
               mapped' \in [Clients -> SUBSET Blocks],
               local' \in [Clients -> [Blocks -> Copy]],
               base' \in [Clients -> [Blocks -> Data]],
               \A d \in Clients : d # c => local'[d] = local[d]
        PROVE  TypeInv'
    <2>1. /\ WireTypeOK' /\ req' \in [Conns -> Seq(BoundedRequest)]
          /\ call' \in [Clients -> [op : Calls, id : Blocks] \cup {Off, Idle, Fault}]
          /\ gen' = gen /\ call' = [call EXCEPT ![c] = Idle] /\ Sock(c, b) \in Conns
      BY <1>1, ReceiveType
    <2>2. call'[c] = Idle /\ \A d \in Clients : d # c => call'[d] = call[d]
      BY <2>1 DEF TypeInv, TypeOK, ClientTypeOK
    <2>3. ClientTypeOK'
      BY <1>1, <2>1 DEF ClientTypeOK, TypeInv, TypeOK
    <2>4. gen'[c] > 0 /\ call'[c].op # "WRITE"
      BY <1>1, <2>1, <2>2, IdleIsNoCall DEF TypeInv, Alive, Busy, Receive
    <2>. QED BY <1>1, <2>1, <2>2, <2>3, <2>4, TypeFrame
  <1>2. /\ mapped \in [Clients -> SUBSET Blocks]
        /\ local \in [Clients -> [Blocks -> Copy]] /\ base \in [Clients -> [Blocks -> Data]]
    BY DEF TypeInv, TypeOK, ClientTypeOK
  <1>3. ASSUME NEW op \in Calls, NullBlock(c, op) PROVE TypeInv'
    BY <1>3, TypeDeath DEF NullBlock
  <1>4. ASSUME NEW op \in Calls, Receive(c, op), Ack(c).block # NoBlock, NEW valid \in BOOLEAN,
               Install(c, b, Ack(c).block, valid), mapped' = mapped
        PROVE  TypeInv'
    <2>1. b \in Blocks /\ Ack(c).block \in BlockInfo
      BY <1>4, ReceiveType, AckTypes
    <2>2. local' \in [Clients -> [Blocks -> Copy]] /\ base' \in [Clients -> [Blocks -> Data]]
          /\ \A d \in Clients : d # c => local'[d] = local[d]
      <3>1. PICK blk \in BlockInfo : blk = Ack(c).block
        BY <2>1
      <3>2. Install(c, b, blk, valid)
        BY <1>4, <3>1
      <3>3. local' \in [Clients -> [Blocks -> Copy]] /\ base' \in [Clients -> [Blocks -> Data]]
        BY <2>1, <3>2, InstallType
      <3>4. \A d \in Clients : d # c => local'[d] = local[d]
        BY <1>2, <3>2 DEF Install, SetCopy
      <3>. QED BY <3>3, <3>4
    <2>3. mapped' \in [Clients -> SUBSET Blocks]
      BY <1>2, <1>4
    <2>. QED BY <1>1, <1>4, <2>2, <2>3
  <1>5. {"MAP", "UNMAP", "UPDATE", "WRITE", "WAIT"} \subseteq Calls
    BY DEF Calls
  <1>6. CASE ReturnMap(c)
    <2>1. CASE NullBlock(c, "MAP") BY <1>3, <1>5, <2>1
    <2>2. CASE Receive(c, "MAP") /\ mapped' = mapped /\ UNCHANGED <<local, base>>
      BY <1>1, <1>2, <1>5, <2>2
    <2>3. CASE Receive(c, "MAP") /\ mapped' = mapped /\ Ack(c).block # NoBlock
               /\ Install(c, b, Ack(c).block, local[c][b].valid)
      <3>1. local[c][b].valid \in BOOLEAN
        BY <1>5, <2>3, ReceiveType, LocalTypes DEF Copy
      <3>. QED BY <1>4, <1>5, <2>3, <3>1
    <2>. QED BY <1>6, <2>1, <2>2, <2>3 DEF ReturnMap
  <1>7. CASE ReturnUnmap(c)
    <2>1. Receive(c, "UNMAP") /\ b \in Blocks
      BY <1>5, <1>7, ReceiveType DEF ReturnUnmap
    <2>2. mapped' \in [Clients -> SUBSET Blocks]
      BY <1>2, <1>7 DEF ReturnUnmap
    <2>3. local' \in [Clients -> [Blocks -> Copy]] /\ \A d \in Clients : d # c => local'[d] = local[d]
      BY <1>2, <1>7, <2>1, LocalTypes, SetCopyType DEF ReturnUnmap
    <2>4. base' \in [Clients -> [Blocks -> Data]]
      BY <1>2, <1>7, <2>1, WireAssumption, SetBaseType DEF ReturnUnmap
    <2>. QED BY <1>1, <1>5, <2>1, <2>2, <2>3, <2>4
  <1>8. CASE ReturnUpdate(c)
    <2>1. CASE NullBlock(c, "UPDATE") BY <1>3, <1>5, <2>1
    <2>2. CASE Receive(c, "UPDATE") /\ mapped' = mapped /\ UNCHANGED <<local, base>>
      BY <1>1, <1>2, <1>5, <2>2
    <2>3. CASE Receive(c, "UPDATE") /\ mapped' = mapped /\ Ack(c).block # NoBlock
               /\ Install(c, b, Ack(c).block, TRUE)
      BY <1>4, <1>5, <2>3
    <2>. QED BY <1>8, <2>1, <2>2, <2>3 DEF ReturnUpdate
  <1>9. CASE ReturnWrite(c)
    <2>1. Receive(c, "WRITE") /\ mapped' = mapped /\ b \in Blocks /\ local[c][b] \in Copy
      BY <1>5, <1>9, ReceiveType, LocalTypes DEF ReturnWrite
    <2>2. local[c][b].rev < MaxRev /\ local[c][b].rev \in Nat
      BY <2>1 DEF Receive, TypeInv, Copy, Revs
    <2>3. local[c][b].rev + 1 \in Revs
      BY <2>2, WireAssumption DEF Revs
    <2>4. PICK l \in Copy : SetCopy(c, b, l)
      BY <1>9, <2>1, <2>3, CopyExcept DEF ReturnWrite
    <2>5. base' \in [Clients -> [Blocks -> Data]]
      <3>1. local[c][b].data \in Data BY <2>1 DEF Copy
      <3>. QED BY <1>2, <1>9, <2>1, <3>1, SetBaseType DEF ReturnWrite
    <2>. QED BY <1>1, <1>2, <1>5, <2>1, <2>4, <2>5, SetCopyType
  <1>10. CASE ReturnWait(c)
    <2>1. Receive(c, "WAIT") /\ mapped' = mapped /\ base' = base /\ b \in Blocks /\ local[c][b] \in Copy
      BY <1>5, <1>10, ReceiveType, LocalTypes DEF ReturnWait
    <2>2. UNCHANGED local \/ \E l \in Copy : SetCopy(c, b, l)
      BY <1>10, <2>1, CopyExcept DEF ReturnWait
    <2>. QED BY <1>1, <1>2, <1>5, <2>1, <2>2, SetCopyType
  <1>. QED BY <1>6, <1>7, <1>8, <1>9, <1>10 DEF Return

LEMMA TypeTimeout ==
  ASSUME TypeInv, NEW c \in Clients, Timeout(c), UNCHANGED serverVars
  PROVE  TypeInv'
  <1>1. ClientTypeOK' /\ call'[c] = Idle /\ gen' = gen /\ local' = local
        /\ \A d \in Clients : d # c => call'[d] = call[d]
    BY DEF Timeout, TypeInv, TypeOK, ClientTypeOK
  <1>2. gen'[c] > 0 /\ call'[c].op # "WRITE"
    BY <1>1, IdleIsNoCall DEF Timeout, TypeInv, Alive
  <1>3. UNCHANGED wireVars
    BY DEF Timeout
  <1>. QED BY <1>1, <1>2, <1>3, WireUnchanged, TypeFrame

-----------------------------------------------------------------------------
LEMMA TypeStep == TypeInv /\ [TimedNext]_vars => TypeInv'
  <1>. SUFFICES ASSUME TypeInv, [TimedNext]_vars PROVE TypeInv'
    OBVIOUS
  <1>1. ASSUME NEW c \in Clients, ClientStep(c), UNCHANGED serverVars PROVE TypeInv'
    <2>1. CASE DmInit(c) BY <1>1, <2>1, TypeDmInit
    <2>2. CASE Exit(c) BY <1>1, <2>2, TypeDeath DEF Exit
    <2>3. CASE Begin(c) BY <1>1, <2>3, TypeBegin
    <2>4. CASE Return(c) BY <1>1, <2>4, TypeReturn
    <2>. QED BY <1>1, <2>1, <2>2, <2>3, <2>4 DEF ClientStep
  <1>2. CASE UNCHANGED vars
    BY <1>2 DEF vars, wireVars, serverVars, clientVars, TypeInv, TypeOK, WireTypeOK,
                ServerTypeOK, ClientTypeOK, Alive, Busy
  <1>. QED BY <1>1, <1>2, TypeServerStep, TypeTimeout DEF TimedNext, Next

\* Every variable stays in its set, time-outs or not: in particular no
\* revision passes the bound and no copy gets a missing content.
THEOREM TypeCorrect == TimedSpec => []TypeOK
  <1>1. TypeInv => TypeOK BY DEF TypeInv
  <1>. QED BY <1>1, TypeInit, TypeStep, PTL DEF TimedSpec
-----------------------------------------------------------------------------
(* Safety without time-outs. *)

\* A block keeps its revision and content, or gets a higher revision.
Grows(b) == blocks'[b] = blocks[b] \/ blocks[b].rev < blocks'[b].rev

LEMMA TypeFacts ==
  ASSUME TypeInv
  PROVE  /\ \A b \in Blocks : blocks[b].rev \in Nat /\ blocks[b].data \in Data
         /\ \A c \in Clients, b \in Blocks :
              /\ local[c][b] \in Copy /\ local[c][b].rev \in Nat /\ local[c][b].data \in Data
              /\ base[c][b] \in Data
         /\ \A c \in Clients : mapped[c] \subseteq Blocks /\ gen[c] \in Nat
         /\ \A k \in Conns : k[1] \in Clients /\ k[2] \in Servers /\ k[3] \in Nat
  <1>1. \A b \in Blocks : blocks[b].rev \in Nat /\ blocks[b].data \in Data
    BY DEF TypeInv, TypeOK, ServerTypeOK, Revs
  <1>2. ASSUME NEW c \in Clients, NEW b \in Blocks
        PROVE  /\ local[c][b] \in Copy /\ local[c][b].rev \in Nat /\ local[c][b].data \in Data
               /\ base[c][b] \in Data
    <2>1. local[c][b] \in Copy /\ base[c][b] \in Data
      BY LocalTypes
    <2>. QED BY <2>1 DEF Copy, Revs
  <1>3. ASSUME NEW c \in Clients PROVE mapped[c] \subseteq Blocks /\ gen[c] \in Nat
    <2>1. mapped[c] \in SUBSET Blocks /\ gen[c] \in 0 .. MaxInits
      BY DEF TypeInv, TypeOK, ClientTypeOK
    <2>. QED BY <2>1
  <1>4. \A k \in Conns : k[1] \in Clients /\ k[2] \in Servers /\ k[3] \in Nat
    BY DEF Conns
  <1>. QED BY <1>1, <1>2, <1>3, <1>4

\* Agrees(rev, x, b)', of a rev and an x that stay what they are.
AgreesNext(rev, x, b) ==
  rev <= blocks'[b].rev /\ (rev = blocks'[b].rev => x = blocks'[b].data)

LEMMA AgreesGrows ==
  ASSUME TypeInv, TypeInv', NEW b \in Blocks, Grows(b), NEW rev \in Nat, NEW x, Agrees(rev, x, b)
  PROVE  AgreesNext(rev, x, b)
  <1>1. blocks[b].rev \in Nat /\ blocks'[b].rev \in Nat
    BY DEF TypeInv, TypeOK, ServerTypeOK, Revs
  <1>. QED BY <1>1 DEF Agrees, AgreesNext, Grows

LEMMA LessGrows ==
  ASSUME TypeInv, TypeInv', NEW b \in Blocks, Grows(b), NEW rev \in Nat, rev < blocks[b].rev
  PROVE  rev < blocks'[b].rev
  <1>1. blocks[b].rev \in Nat /\ blocks'[b].rev \in Nat
    BY DEF TypeInv, TypeOK, ServerTypeOK, Revs
  <1>. QED BY <1>1 DEF Grows

LEMMA WriteOKGrows ==
  ASSUME TypeInv, TypeInv', NEW k \in Conns, WriteOK(k), \A b \in Blocks : Grows(b),
         req'[k] = req[k]
  PROVE  WriteOK(k)'
  <1>. DEFINE m == Head(req[k])
  <1>1. CASE req[k] # <<>> /\ m.type = "WRITE" /\ m.id \in Hosted
    <2>1. m.rev \in Nat /\ m.id \in Blocks
      BY <1>1, HeadType DEF Request, Revs
    <2>2. Agrees(m.rev, m.base, m.id)
      BY <1>1 DEF WriteOK
    <2>3. AgreesNext(m.rev, m.base, m.id)
      BY <2>1, <2>2, AgreesGrows
    <2>. QED BY <1>1, <2>3 DEF WriteOK, Agrees, AgreesNext
  <1>. QED BY <1>1 DEF WriteOK

LEMMA CopyOKGrows ==
  ASSUME TypeInv, TypeInv', NEW c \in Clients, NEW b \in Blocks, CopyOK(c, b), Grows(b),
         UNCHANGED clientVars
  PROVE  CopyOK(c, b)'
  <1>1. local[c][b].rev \in Nat
    BY TypeFacts
  <1>2. Agrees(local[c][b].rev, base[c][b], b) => AgreesNext(local[c][b].rev, base[c][b], b)
    BY <1>1, AgreesGrows
  <1>3. local[c][b].rev < blocks[b].rev => local[c][b].rev < blocks'[b].rev
    BY <1>1, LessGrows
  <1>. QED BY <1>2, <1>3 DEF CopyOK, clientVars, Alive, Busy, Held, Agrees, AgreesNext

LEMMA ReplyOKGrows ==
  ASSUME TypeInv, TypeInv', NEW c \in Clients, NEW r \in Reply, Busy(c), ReplyOK(c, r),
         \A b \in Blocks : Grows(b), UNCHANGED clientVars
  PROVE  ReplyOK(c, r)'
  <1>. DEFINE b == call[c].id
              l == local[c][b]
  <1>1. b \in Blocks /\ Grows(b) /\ l.rev \in Nat
    BY CallTypes, TypeFacts
  <1>2. Agrees(l.rev + 1, l.data, b) => AgreesNext(l.rev + 1, l.data, b)
    BY <1>1, AgreesGrows
  <1>3. l.rev < blocks[b].rev => l.rev < blocks'[b].rev
    BY <1>1, LessGrows
  <1>4. r.block # NoBlock /\ Agrees(r.block.rev, r.block.data, b)
          => AgreesNext(r.block.rev, r.block.data, b)
    <2>1. r.block # NoBlock => r.block.rev \in Nat
      BY DEF Reply, BlockInfo, Revs
    <2>. QED BY <1>1, <2>1, AgreesGrows
  <1>. QED BY <1>2, <1>3, <1>4 DEF ReplyOK, clientVars, Agrees, AgreesNext

-----------------------------------------------------------------------------
(* One request is answered. *)

\* Where the connection of a call is, and what is on it.
LEMMA EngagedConn ==
  ASSUME Inductive, NEW k \in Conns, req[k] # <<>>
  PROVE  /\ link[k] # "new" /\ k[3] <= gen[k[1]] /\ Tail(req[k]) = <<>>
         /\ link[k] = "open" => Engaged(k[1], k) /\ thread[k] = "recv"
         /\ \A c \in Clients, b \in Blocks : Alive(c) /\ k = Sock(c, b) =>
              c = k[1] /\ link[k] = "open"
         /\ \A c \in Clients : Engaged(c, k) =>
              /\ c = k[1] /\ link[k] = "open" /\ rep[k] = <<>> /\ call[c].id \in Blocks
              /\ Head(req[k]) = RequestOf(c) /\ call[c].id \in mapped[c]
  <1>1. ConnOK(k) /\ k[1] \in Clients /\ k[3] \in Nat /\ gen[k[1]] \in Nat
    BY TypeFacts DEF Inductive
  <1>2. link[k] # "new" /\ k[3] <= gen[k[1]] /\ Tail(req[k]) = <<>>
    BY <1>1 DEF ConnOK
  <1>3. link[k] = "open" => Engaged(k[1], k) /\ thread[k] = "recv"
    BY <1>1 DEF ConnOK
  <1>4. ASSUME NEW c \in Clients, NEW b, Alive(c), k = Sock(c, b)
        PROVE  c = k[1] /\ link[k] = "open"
    BY <1>1, <1>4 DEF ConnOK, Sock
  <1>5. ASSUME NEW c \in Clients, Engaged(c, k)
        PROVE  /\ c = k[1] /\ link[k] = "open" /\ rep[k] = <<>> /\ call[c].id \in Blocks
               /\ Head(req[k]) = RequestOf(c) /\ call[c].id \in mapped[c]
    <2>1. Busy(c) /\ Alive(c) /\ k = Sock(c, call[c].id)
      BY <1>5 DEF Engaged, Alive
    <2>2. call[c].id \in Blocks
      BY <2>1, CallTypes DEF Inductive
    <2>3. CallOK(c)
      BY DEF Inductive
    <2>. QED BY <1>4, <2>1, <2>2, <2>3 DEF CallOK
  <1>. QED BY <1>2, <1>3, <1>4, <1>5

LEMMA AppendEmpty ==
  ASSUME NEW x
  PROVE  /\ Append(<<>>, x) # <<>> /\ Head(Append(<<>>, x)) = x
         /\ Tail(Append(<<>>, x)) = <<>>
  OBVIOUS

LEMMA AnswerEffect ==
  ASSUME Inductive, NEW k \in Conns, req[k] # <<>>, NEW a \in Reply, Answer(k, a)
  PROVE  /\ link' = link /\ req'[k] = <<>>
         /\ \A j \in Conns : j # k => req'[j] = req[j] /\ rep'[j] = rep[j] /\ thread'[j] = thread[j]
         /\ link[k] = "open" => /\ thread'[k] = "recv" /\ rep'[k] # <<>>
                                /\ Tail(rep'[k]) = <<>> /\ Head(rep'[k]) = a
         /\ link[k] # "open" => rep'[k] = rep[k]
  <1>1. /\ req \in [Conns -> Seq(Request)] /\ rep \in [Conns -> Seq(Reply)]
        /\ thread \in [Conns -> {"recv", "done"}]
    BY DEF Inductive, TypeInv, TypeOK, WireTypeOK, ServerTypeOK
  <1>2. Tail(req[k]) = <<>> /\ (link[k] = "open" => thread[k] = "recv" /\ rep[k] = <<>>)
    BY EngagedConn, TypeFacts DEF Inductive
  <1>3. link[k] = "open" => /\ rep'[k] = Append(<<>>, a) /\ thread' = thread
                            /\ \A j \in Conns : j # k => rep'[j] = rep[j]
    BY <1>1, <1>2 DEF Answer
  <1>4. link[k] # "open" => rep' = rep /\ \A j \in Conns : j # k => thread'[j] = thread[j]
    BY <1>1 DEF Answer
  <1>5. link' = link /\ req'[k] = <<>> /\ \A j \in Conns : j # k => req'[j] = req[j]
    BY <1>1, <1>2 DEF Answer
  <1>. QED BY <1>2, <1>3, <1>4, <1>5, AppendEmpty

\* What a handler has to establish: that its answer is right for the call,
\* and what it means for the association of the connection.
LEMMA AnswerFrame ==
  ASSUME Inductive, TypeInv', NEW k \in Conns, req[k] # <<>>, NEW a \in Reply, Answer(k, a),
         UNCHANGED clientVars, \A b \in Blocks : Grows(b),
         \A j \in Conns : j # k =>
            \A b \in Blocks : j \in mappedClients'[b] => j \in mappedClients[b],
         \A c \in Clients : Engaged(c, k) => ReplyOK(c, a)',
         \A c \in Clients, b \in Blocks :
            Alive(c) /\ k = Sock(c, b) /\ k \in mappedClients'[b] =>
              /\ b \in mapped[c]
              /\ call[c] = [op |-> "UNMAP", id |-> b] => a.type = "NACK"
  PROVE  Inductive'
  <1>1. /\ link' = link /\ req'[k] = <<>>
        /\ \A j \in Conns : j # k => req'[j] = req[j] /\ rep'[j] = rep[j] /\ thread'[j] = thread[j]
        /\ link[k] = "open" => /\ thread'[k] = "recv" /\ rep'[k] # <<>>
                               /\ Tail(rep'[k]) = <<>> /\ Head(rep'[k]) = a
        /\ link[k] # "open" => rep'[k] = rep[k]
    BY AnswerEffect
  <1>2. /\ link[k] # "new" /\ k[3] <= gen[k[1]]
        /\ link[k] = "open" => Engaged(k[1], k)
        /\ k[1] \in Clients /\ k[3] \in Nat /\ gen[k[1]] \in Nat
    BY EngagedConn, TypeFacts DEF Inductive
  <1>3. \A c \in Clients : /\ Alive(c)' = Alive(c) /\ Busy(c)' = Busy(c)
                           /\ \A j \in Conns : Engaged(c, j)' = Engaged(c, j)
                           /\ \A b \in Blocks : Sock(c, b)' = Sock(c, b)
    BY DEF clientVars, Alive, Busy, Engaged, Sock
  <1>4. \A j \in Conns : ConnOK(j)'
    <2>. SUFFICES ASSUME NEW j \in Conns PROVE ConnOK(j)'
      OBVIOUS
    <2>. ConnOK(j) /\ j[1] \in Clients
      BY TypeFacts DEF Inductive
    <2>1. CASE j = k
      BY <1>1, <1>2, <1>3, <2>1 DEF ConnOK, clientVars
    <2>2. CASE j # k
      BY <1>1, <1>3, <2>2 DEF ConnOK, clientVars
    <2>. QED BY <2>1, <2>2
  <1>5. \A j \in Conns : WriteOK(j)'
    <2>. SUFFICES ASSUME NEW j \in Conns PROVE WriteOK(j)'
      OBVIOUS
    <2>1. CASE j = k BY <1>1, <2>1 DEF WriteOK
    <2>2. CASE j # k BY <1>1, <2>2, WriteOKGrows DEF Inductive
    <2>. QED BY <2>1, <2>2
  <1>6. \A c \in Clients, b \in Blocks : CopyOK(c, b)'
    BY CopyOKGrows DEF Inductive
  <1>7. \A c \in Clients, b \in Blocks : AssocOK(c, b)'
    <2>. SUFFICES ASSUME NEW c \in Clients, NEW b \in Blocks, Alive(c),
                         Sock(c, b) \in mappedClients'[b]
                  PROVE  AssocOK(c, b)'
      BY <1>3 DEF AssocOK
    <2>. AssocOK(c, b) /\ Sock(c, b) \in Conns
      BY CallTypes DEF Inductive
    <2>1. CASE Sock(c, b) = k
      <3>1. link[k] = "open"
        BY <2>1, EngagedConn
      <3>. QED BY <1>1, <1>3, <2>1, <3>1 DEF AssocOK, clientVars
    <2>2. CASE Sock(c, b) # k
      BY <1>1, <1>3, <2>2 DEF AssocOK, clientVars
    <2>. QED BY <2>1, <2>2
  <1>8. \A c \in Clients : CallOK(c)'
    <2>. SUFFICES ASSUME NEW c \in Clients PROVE CallOK(c)'
      OBVIOUS
    <2>. CallOK(c)
      BY DEF Inductive
    <2>1. CASE ~Busy(c)
      BY <1>3, <2>1 DEF CallOK, clientVars
    <2>2. CASE Engaged(c, k)
      <3>1. link[k] = "open" /\ k = Sock(c, call[c].id) /\ Busy(c)
        BY <2>2, EngagedConn DEF Engaged
      <3>2. ReplyOK(c, Head(rep[k]))'
        <4>1. ReplyOK(c, a)' /\ Head(rep'[k]) = a
          BY <1>1, <2>2, <3>1
        <4>. QED BY <4>1 DEF ReplyOK
      <3>3. /\ call' = call /\ mapped' = mapped /\ local' = local
            /\ Sock(c, call[c].id)' = k /\ Busy(c)' /\ Alive(c)'
        BY <3>1 DEF clientVars, Sock, Alive, Busy
      <3>4. rep'[k] # <<>> /\ Tail(rep'[k]) = <<>> /\ req'[k] = <<>>
        BY <1>1, <3>1
      <3>. QED BY <3>1, <3>2, <3>3, <3>4 DEF CallOK
    <2>3. CASE Busy(c) /\ ~Engaged(c, k)
      <3>. DEFINE j == Sock(c, call[c].id)
      <3>1. j \in Conns /\ j # k /\ req'[j] = req[j] /\ rep'[j] = rep[j] /\ j' = j
        BY <1>1, <2>3, CallTypes DEF Inductive, Engaged, clientVars, Sock
      <3>2. CASE req[j] # <<>>
        BY <1>3, <2>3, <3>1, <3>2 DEF CallOK, clientVars, RequestOf
      <3>3. CASE req[j] = <<>>
        <4>1. rep[j] # <<>> /\ Tail(rep[j]) = <<>> /\ ReplyOK(c, Head(rep[j]))
          BY <2>3, <3>3 DEF CallOK
        <4>2. Head(rep[j]) \in Reply
          BY <3>1, <4>1, HeadTailProperties DEF Inductive, TypeInv, TypeOK, WireTypeOK
        <4>3. PICK r \in Reply : r = Head(rep[j])
          BY <4>2
        <4>4. TypeInv /\ ReplyOK(c, r)
          BY <4>1, <4>3 DEF Inductive
        <4>5. ReplyOK(c, r)'
          BY <2>3, <4>4, ReplyOKGrows
        <4>6. ReplyOK(c, Head(rep[j]))'
          BY <3>1, <4>3, <4>5 DEF ReplyOK
        <4>. QED BY <1>3, <2>3, <3>1, <3>3, <4>1, <4>6 DEF CallOK, clientVars
      <3>. QED BY <3>2, <3>3
    <2>. QED BY <2>1, <2>2, <2>3 DEF Engaged
  <1>. QED BY <1>4, <1>5, <1>6, <1>7, <1>8 DEF Inductive, NoFault, clientVars

\* The request a handler sees, of the client that is still there.
LEMMA RequestFacts ==
  ASSUME Inductive, NEW k \in Conns, req[k] # <<>>, NEW c \in Clients, Engaged(c, k)
  PROVE  LET m == Head(req[k]) IN
         /\ m.type = call[c].op /\ m.id = call[c].id /\ m.id \in Blocks
         /\ m.rev = local[c][m.id].rev
         /\ m.type = "WRITE" => m.data = local[c][m.id].data /\ m.data # NoData
         /\ k = Sock(c, m.id) /\ Owner[m.id] = k[2] /\ Alive(c) /\ m.id \in mapped[c]
         /\ m.type # "MAP" => m.id \in mapped[c]
                /\ (m.id \in Hosted => Agrees(m.rev, base[c][m.id], m.id))
  <1>. DEFINE m == Head(req[k])
              b == call[c].id
  <1>1. /\ b \in Blocks /\ m = RequestOf(c) /\ b \in mapped[c]
        /\ k = Sock(c, b) /\ Alive(c)
    BY EngagedConn DEF Engaged, Alive
  <1>2. CopyOK(c, b) /\ local[c][b].data \in Data
    BY <1>1, TypeFacts DEF Inductive
  <1>3. /\ m.type = call[c].op /\ m.id = b /\ m.rev = local[c][b].rev
        /\ m.type = "WRITE" => m.data = local[c][b].data
    BY <1>1, <1>2 DEF RequestOf, ShallowRequest, WriteRequest, CopyOK
  <1>4. m.type # "MAP" /\ b \in Hosted => b \in Held(c)
    BY <1>1, <1>3 DEF Held
  <1>5. m.type = "WRITE" => m.data # NoData
    BY <1>2, <1>3, WireAssumption
  <1>6. Owner[b] = k[2]
    BY <1>1 DEF Sock
  <1>. QED BY <1>1, <1>2, <1>3, <1>4, <1>5, <1>6 DEF CopyOK

LEMMA MapStep ==
  ASSUME Inductive, TypeInv', NEW k \in Conns, HandleMap(k), UNCHANGED clientVars
  PROVE  Inductive'
  <1>. DEFINE m == Head(req[k])
              new == Found(k, m.id) /\ k \notin mappedClients[m.id]
  <1>1. req[k] # <<>> /\ m.type = "MAP" /\ blocks' = blocks
        /\ Answer(k, IF new THEN FullAck(m.id, blocks[m.id]) ELSE Nack)
    BY DEF HandleMap, Serving
  <1>2. m.id \in Blocks /\ blocks[m.id] \in [rev : Revs, data : Data]
    BY <1>1, HeadType DEF Inductive, Request, TypeInv, TypeOK, ServerTypeOK
  <1>3. PICK a \in Reply : a = (IF new THEN FullAck(m.id, blocks[m.id]) ELSE Nack)
    BY <1>2, ReplyTypes
  <1>4. mappedClients' = IF new THEN [mappedClients EXCEPT ![m.id] = @ \cup {k}] ELSE mappedClients
    BY DEF HandleMap
  <1>5. mappedClients \in [Blocks -> SUBSET Conns]
    BY DEF Inductive, TypeInv, TypeOK, ServerTypeOK
  <1>6. \A b \in Blocks : Grows(b)
    BY <1>1 DEF Grows
  <1>7. \A j \in Conns : j # k => \A b \in Blocks : j \in mappedClients'[b] => j \in mappedClients[b]
    BY <1>2, <1>4, <1>5
  <1>8. ASSUME NEW c \in Clients, Engaged(c, k) PROVE ReplyOK(c, a)'
    <2>1. call[c].op = "MAP" /\ call[c].id = m.id /\ Owner[m.id] = k[2]
          /\ k = Sock(c, m.id) /\ Alive(c) /\ call[c] = [op |-> "MAP", id |-> m.id]
      <3>1. call[c].op = "MAP" /\ call[c].id = m.id /\ Owner[m.id] = k[2]
            /\ k = Sock(c, m.id) /\ Alive(c)
        BY <1>1, <1>8, RequestFacts
      <3>2. call[c] \in [op : Calls, id : Blocks] \cup {Off, Idle, Fault}
        BY DEF Inductive, TypeInv, TypeOK, ClientTypeOK
      <3>3. call[c] \in [op : Calls, id : Blocks]
        BY <3>1, <3>2 DEF Off, Idle, Fault
      <3>. QED BY <3>1, <3>3
    <2>2. k \notin mappedClients[m.id]
      <3>1. AssocOK(c, m.id)
        BY <1>2 DEF Inductive
      <3>. QED BY <1>1, <2>1, <3>1 DEF AssocOK
    <2>3. m.id \in Hosted <=> new
      BY <2>1, <2>2 DEF Found
    <2>4. blocks[m.id].data # NoData /\ blocks[m.id].rev \in Nat
      BY <1>2, WireAssumption DEF Revs
    <2>5. FullAck(m.id, blocks[m.id]).block # NoBlock
      BY <1>2, NoBlockAssumption DEF FullAck, BlockInfo
    <2>6. CASE new
      <3>1. /\ call'[c].op = "MAP" /\ call'[c].id = m.id /\ a.type = "ACK" /\ m.id \in Hosted
            /\ a.block # NoBlock /\ a.block.id = m.id /\ a.block.data # NoData
            /\ a.block.rev = blocks'[m.id].rev /\ a.block.data = blocks'[m.id].data
            /\ a.block.rev \in Nat
        BY <1>1, <1>3, <2>1, <2>3, <2>4, <2>5, <2>6 DEF FullAck, clientVars
      <3>. QED BY <3>1 DEF ReplyOK, Agrees
    <2>7. CASE ~new
      BY <1>1, <1>3, <2>1, <2>3, <2>7 DEF ReplyOK, Nack, clientVars
    <2>. QED BY <2>6, <2>7
  <1>9. ASSUME NEW c \in Clients, NEW b \in Blocks, Alive(c), k = Sock(c, b),
               k \in mappedClients'[b]
        PROVE  /\ b \in mapped[c]
               /\ call[c] = [op |-> "UNMAP", id |-> b] => a.type = "NACK"
    <2>1. Engaged(c, k) /\ k[1] = c
      BY <1>1, <1>9, EngagedConn
    <2>2. call[c].op = "MAP" /\ m.id \in mapped[c]
      BY <1>1, <2>1, RequestFacts
    <2>3. k \in mappedClients[b] \/ b = m.id
      BY <1>2, <1>4, <1>5, <1>9
    <2>4. k \in mappedClients[b] => b \in mapped[c]
      BY <1>9 DEF Inductive, AssocOK
    <2>. QED BY <2>2, <2>3, <2>4
  <1>10. req[k] # <<>> /\ Answer(k, a)
    BY <1>1, <1>3
  <1>. QED BY <1>6, <1>7, <1>8, <1>9, <1>10, AnswerFrame

LEMMA UnmapStep ==
  ASSUME Inductive, TypeInv', NEW k \in Conns, HandleUnmap(k), UNCHANGED clientVars
  PROVE  Inductive'
  <1>. DEFINE m == Head(req[k])
              known == Found(k, m.id) /\ k \in mappedClients[m.id]
  <1>1. req[k] # <<>> /\ m.type = "UNMAP" /\ blocks' = blocks
        /\ Answer(k, IF known THEN PlainAck ELSE Nack)
    BY DEF HandleUnmap, Serving
  <1>2. m.id \in Blocks /\ blocks[m.id] \in [rev : Revs, data : Data]
    BY <1>1, HeadType DEF Inductive, Request, TypeInv, TypeOK, ServerTypeOK
  <1>3. PICK a \in Reply : a = (IF known THEN PlainAck ELSE Nack)
    BY <1>2, ReplyTypes
  <1>4. mappedClients' = IF known THEN [mappedClients EXCEPT ![m.id] = @ \ {k}] ELSE mappedClients
    BY DEF HandleUnmap
  <1>5. mappedClients \in [Blocks -> SUBSET Conns]
    BY DEF Inductive, TypeInv, TypeOK, ServerTypeOK
  <1>6. \A b \in Blocks : Grows(b)
    BY <1>1 DEF Grows
  <1>7. \A j \in Conns, b \in Blocks : j \in mappedClients'[b] => j \in mappedClients[b]
    BY <1>2, <1>4, <1>5
  <1>8. ASSUME NEW c \in Clients, Engaged(c, k) PROVE ReplyOK(c, a)'
    <2>1. call[c].op = "UNMAP"
      BY <1>1, <1>8, RequestFacts
    <2>. QED BY <2>1 DEF ReplyOK, clientVars
  <1>9. ASSUME NEW c \in Clients, NEW b \in Blocks, Alive(c), k = Sock(c, b),
               k \in mappedClients'[b]
        PROVE  /\ b \in mapped[c]
               /\ call[c] = [op |-> "UNMAP", id |-> b] => a.type = "NACK"
    <2>1. Engaged(c, k) /\ k[1] = c
      BY <1>1, <1>9, EngagedConn
    <2>2. m.id = call[c].id
      BY <2>1, <1>1, RequestFacts
    <2>3. b \in mapped[c]
      BY <1>7, <1>9 DEF Inductive, AssocOK
    <2>4. b = m.id => ~known
      BY <1>2, <1>4, <1>5, <1>9
    <2>. QED BY <1>3, <2>2, <2>3, <2>4 DEF Nack
  <1>10. req[k] # <<>> /\ Answer(k, a)
    BY <1>1, <1>3
  <1>. QED BY <1>6, <1>7, <1>8, <1>9, <1>10, AnswerFrame

\* UPDATE, WRITE and WAIT leave the associations alone.
LEMMA AssocUnchanged ==
  ASSUME Inductive, NEW k \in Conns, req[k] # <<>>, Head(req[k]).type # "UNMAP",
         mappedClients' = mappedClients, NEW a \in Reply
  PROVE  \A c \in Clients, b \in Blocks :
            Alive(c) /\ k = Sock(c, b) /\ k \in mappedClients'[b] =>
              /\ b \in mapped[c]
              /\ call[c] = [op |-> "UNMAP", id |-> b] => a.type = "NACK"
  <1>. SUFFICES ASSUME NEW c \in Clients, NEW b \in Blocks, Alive(c), k = Sock(c, b),
                       k \in mappedClients[b]
                PROVE  b \in mapped[c] /\ call[c] # [op |-> "UNMAP", id |-> b]
    OBVIOUS
  <1>1. AssocOK(c, b)
    BY DEF Inductive
  <1>2. Engaged(c, k)
    BY EngagedConn
  <1>3. call[c].op # "UNMAP"
    BY <1>2, RequestFacts
  <1>. QED BY <1>1, <1>3 DEF AssocOK

LEMMA UpdateStep ==
  ASSUME Inductive, TypeInv', NEW k \in Conns, HandleUpdate(k), UNCHANGED clientVars
  PROVE  Inductive'
  <1>. DEFINE m == Head(req[k])
              b == blocks[m.id]
  <1>1. /\ req[k] # <<>> /\ m.type = "UPDATE" /\ blocks' = blocks
        /\ mappedClients' = mappedClients
        /\ Answer(k, IF ~Found(k, m.id) THEN Nack
                     ELSE IF m.rev < b.rev THEN FullAck(m.id, b) ELSE ShallowAck(m.id, b))
    BY DEF HandleUpdate, Serving
  <1>2. m.id \in Blocks /\ b \in [rev : Revs, data : Data]
    BY <1>1, HeadType DEF Inductive, Request, TypeInv, TypeOK, ServerTypeOK
  <1>3. PICK a \in Reply : a = (IF ~Found(k, m.id) THEN Nack
                                ELSE IF m.rev < b.rev THEN FullAck(m.id, b) ELSE ShallowAck(m.id, b))
    BY <1>2, ReplyTypes
  <1>4. \A x \in Blocks : Grows(x)
    BY <1>1 DEF Grows
  <1>5. ASSUME NEW c \in Clients, Engaged(c, k) PROVE ReplyOK(c, a)'
    <2>1. /\ call[c].op = "UPDATE" /\ call[c].id = m.id /\ m.rev = local[c][m.id].rev
          /\ Owner[m.id] = k[2] /\ (m.id \in Hosted => Agrees(m.rev, base[c][m.id], m.id))
      BY <1>1, <1>5, RequestFacts
    <2>2. /\ b.data # NoData /\ b.rev \in Nat /\ m.rev \in Nat
      BY <1>2, <2>1, WireAssumption, TypeFacts DEF Revs, Inductive
    <2>3. CASE ~Found(k, m.id)
      BY <1>1, <1>3, <2>1, <2>3 DEF ReplyOK, Nack, clientVars
    <2>4. CASE Found(k, m.id) /\ m.rev < b.rev
      <3>1. a = FullAck(m.id, b) /\ a.block # NoBlock
        BY <1>2, <1>3, <2>4, NoBlockAssumption DEF FullAck, BlockInfo
      <3>2. a.block = [id |-> m.id, rev |-> b.rev, data |-> b.data]
        BY <3>1 DEF FullAck
      <3>3. blocks'[m.id] = b /\ call' = call
        BY <1>1 DEF clientVars
      <3>4. /\ call'[c].op = "UPDATE" /\ call'[c].id = m.id /\ a.type = "ACK"
            /\ a.block # NoBlock /\ a.block.id = m.id /\ a.block.data # NoData
            /\ a.block.rev = blocks'[m.id].rev /\ a.block.data = blocks'[m.id].data
            /\ a.block.rev \in Nat
        BY <2>1, <2>2, <3>1, <3>2, <3>3 DEF FullAck
      <3>. QED BY <3>4 DEF ReplyOK, Agrees
    <2>5. CASE Found(k, m.id) /\ ~(m.rev < b.rev)
      <3>1. a = ShallowAck(m.id, b) /\ a.block # NoBlock
        BY <1>2, <1>3, <2>5, NoBlockAssumption DEF ShallowAck, BlockInfo
      <3>2. m.rev = b.rev
        BY <2>1, <2>2, <2>5 DEF Agrees, Found
      <3>. QED BY <1>1, <2>1, <2>2, <3>1, <3>2 DEF ReplyOK, ShallowAck, Agrees, clientVars
    <2>. QED BY <2>3, <2>4, <2>5
  <1>6. \A c \in Clients, x \in Blocks :
            Alive(c) /\ k = Sock(c, x) /\ k \in mappedClients'[x] =>
              /\ x \in mapped[c]
              /\ call[c] = [op |-> "UNMAP", id |-> x] => a.type = "NACK"
    BY <1>1, AssocUnchanged
  <1>. QED BY <1>1, <1>3, <1>4, <1>5, <1>6, AnswerFrame

\* What a WRITE m does to its block, and from which content.
WriteTaken(k, m) ==
  /\ m.id \in Hosted /\ blocks[m.id].rev = m.rev /\ Answer(k, PlainAck)
  /\ m.data \in Data /\ m.base = blocks[m.id].data
  /\ blocks'[m.id] = [rev |-> m.rev + 1, data |-> m.data]
WriteRefused(k, m) ==
  /\ ~(Found(k, m.id) /\ blocks[m.id].rev = m.rev) /\ Answer(k, Nack)
  /\ blocks' = blocks

LEMMA WriteEffect ==
  ASSUME Inductive, NEW k \in Conns, HandleWrite(k)
  PROVE  LET m == Head(req[k]) IN
         /\ req[k] # <<>> /\ m.type = "WRITE" /\ m.id \in Blocks /\ m.rev \in Nat
         /\ \A b \in Blocks : b # m.id => blocks'[b] = blocks[b]
         /\ WriteTaken(k, m) \/ WriteRefused(k, m)
         /\ mappedClients' = mappedClients
  <1>. DEFINE m == Head(req[k])
  <1>1. req[k] # <<>> /\ m.type = "WRITE" /\ mappedClients' = mappedClients
    BY DEF HandleWrite, Serving
  <1>2. m.id \in Blocks /\ m.rev \in Nat /\ m.data \in Data \cup {NoData}
    BY <1>1, HeadType DEF Inductive, Request, Revs
  <1>3. blocks \in [Blocks -> [rev : Revs, data : Data]]
    BY DEF Inductive, TypeInv, TypeOK, ServerTypeOK
  <1>4. CASE Found(k, m.id) /\ blocks[m.id].rev = m.rev
    <2>1. /\ blocks' = [blocks EXCEPT ![m.id] = [rev |-> m.rev + 1, data |-> Content(m)]]
          /\ Answer(k, PlainAck)
      BY <1>4 DEF HandleWrite
    <2>2. m.id \in Hosted /\ WriteOK(k)
      BY <1>4 DEF Found, Inductive
    <2>3. m.data # NoData /\ m.base = blocks[m.id].data
      BY <1>1, <1>4, <2>2 DEF WriteOK, Agrees
    <2>4. Content(m) = m.data /\ m.data \in Data
      BY <1>2, <2>3 DEF Content
    <2>5. blocks'[m.id] = [rev |-> m.rev + 1, data |-> m.data]
          /\ \A b \in Blocks : b # m.id => blocks'[b] = blocks[b]
      BY <1>2, <1>3, <2>1, <2>4
    <2>. QED BY <1>1, <1>2, <1>4, <2>1, <2>2, <2>3, <2>4, <2>5 DEF WriteTaken
  <1>5. CASE ~(Found(k, m.id) /\ blocks[m.id].rev = m.rev)
    BY <1>1, <1>2, <1>5 DEF HandleWrite, WriteRefused
  <1>. QED BY <1>1, <1>2, <1>4, <1>5

LEMMA WriteStep ==
  ASSUME Inductive, TypeInv', NEW k \in Conns, HandleWrite(k), UNCHANGED clientVars
  PROVE  Inductive'
  <1>. DEFINE m == Head(req[k])
  <1>1. /\ req[k] # <<>> /\ m.type = "WRITE" /\ m.id \in Blocks /\ m.rev \in Nat
        /\ \A b \in Blocks : b # m.id => blocks'[b] = blocks[b]
        /\ mappedClients' = mappedClients
    BY WriteEffect
  <1>2. PICK a \in Reply :
          Answer(k, a) /\ ((a = PlainAck /\ WriteTaken(k, m)) \/ (a = Nack /\ WriteRefused(k, m)))
    <2>1. PlainAck \in Reply /\ Nack \in Reply
      BY DEF PlainAck, Nack, Reply
    <2>2. WriteTaken(k, m) \/ WriteRefused(k, m)
      BY WriteEffect
    <2>3. CASE WriteTaken(k, m)
      <3>1. Answer(k, PlainAck) BY <2>3 DEF WriteTaken
      <3>. QED BY <2>1, <2>3, <3>1
    <2>4. CASE WriteRefused(k, m)
      <3>1. Answer(k, Nack) BY <2>4 DEF WriteRefused
      <3>. QED BY <2>1, <2>4, <3>1
    <2>. QED BY <2>2, <2>3, <2>4
  <1>3. \A b \in Blocks : Grows(b)
    <2>. SUFFICES ASSUME NEW b \in Blocks PROVE Grows(b)
      OBVIOUS
    <2>1. CASE b = m.id /\ WriteTaken(k, m) BY <1>1, <2>1 DEF Grows, WriteTaken
    <2>2. CASE b # m.id \/ WriteRefused(k, m) BY <1>1, <2>2 DEF Grows, WriteRefused
    <2>. QED BY <1>2, <2>1, <2>2
  <1>4. ASSUME NEW c \in Clients, Engaged(c, k) PROVE ReplyOK(c, a)'
    <2>1. /\ call[c].op = "WRITE" /\ call[c].id = m.id /\ m.rev = local[c][m.id].rev
          /\ m.data = local[c][m.id].data
          /\ Owner[m.id] = k[2] /\ (m.id \in Hosted => Agrees(m.rev, base[c][m.id], m.id))
      BY <1>1, <1>4, RequestFacts
    <2>2. CASE a = PlainAck /\ WriteTaken(k, m)
      <3>1. blocks'[m.id].rev = local[c][m.id].rev + 1 /\ blocks'[m.id].data = local[c][m.id].data
        BY <2>1, <2>2 DEF WriteTaken
      <3>2. /\ call'[c].op = "WRITE" /\ call'[c].id = m.id /\ a.type = "ACK"
            /\ blocks'[m.id].rev = local'[c][m.id].rev + 1
            /\ blocks'[m.id].data = local'[c][m.id].data /\ blocks'[m.id].rev \in Nat
        BY <1>1, <2>1, <2>2, <3>1 DEF PlainAck, clientVars
      <3>. QED BY <3>2 DEF ReplyOK, Agrees
    <2>3. CASE a = Nack /\ WriteRefused(k, m)
      <3>1. m.id \in Hosted => m.rev < blocks[m.id].rev
        <4>1. blocks[m.id].rev \in Nat BY <1>1, TypeFacts DEF Inductive
        <4>. QED BY <1>1, <2>1, <2>3, <4>1 DEF Found, Agrees, WriteRefused
      <3>. QED BY <2>1, <2>3, <3>1 DEF ReplyOK, Nack, clientVars, WriteRefused
    <2>. QED BY <1>2, <2>2, <2>3
  <1>5. \A c \in Clients, x \in Blocks :
            Alive(c) /\ k = Sock(c, x) /\ k \in mappedClients'[x] =>
              /\ x \in mapped[c]
              /\ call[c] = [op |-> "UNMAP", id |-> x] => a.type = "NACK"
    BY <1>1, AssocUnchanged
  <1>. QED BY <1>1, <1>2, <1>3, <1>4, <1>5, AnswerFrame

LEMMA WaitStep ==
  ASSUME Inductive, TypeInv', NEW k \in Conns, HandleWait(k), UNCHANGED clientVars
  PROVE  Inductive'
  <1>. DEFINE m == Head(req[k])
  <1>1. /\ req[k] # <<>> /\ m.type = "WAIT" /\ blocks' = blocks
        /\ mappedClients' = mappedClients /\ Answer(k, PlainAck)
        /\ ~(Found(k, m.id) /\ blocks[m.id].rev = m.rev)
    BY DEF HandleWait, Serving
  <1>2. PlainAck \in Reply
    BY DEF PlainAck, Reply
  <1>3. \A x \in Blocks : Grows(x)
    BY <1>1 DEF Grows
  <1>4. ASSUME NEW c \in Clients, Engaged(c, k) PROVE ReplyOK(c, PlainAck)'
    <2>1. /\ call[c].op = "WAIT" /\ call[c].id = m.id /\ m.rev = local[c][m.id].rev
          /\ m.id \in Blocks
          /\ Owner[m.id] = k[2] /\ (m.id \in Hosted => Agrees(m.rev, base[c][m.id], m.id))
      BY <1>1, <1>4, RequestFacts
    <2>2. m.id \in Hosted => m.rev < blocks[m.id].rev
      <3>1. blocks[m.id].rev \in Nat /\ m.rev \in Nat
        BY <2>1, TypeFacts DEF Inductive
      <3>. QED BY <1>1, <2>1, <3>1 DEF Found, Agrees
    <2>. QED BY <1>1, <2>1, <2>2 DEF ReplyOK, clientVars
  <1>5. \A c \in Clients, x \in Blocks :
            Alive(c) /\ k = Sock(c, x) /\ k \in mappedClients'[x] =>
              /\ x \in mapped[c]
              /\ call[c] = [op |-> "UNMAP", id |-> x] => PlainAck.type = "NACK"
    BY <1>1, <1>2, AssocUnchanged
  <1>. QED BY <1>1, <1>2, <1>3, <1>4, <1>5, AnswerFrame

LEMMA DisconnectStep ==
  ASSUME Inductive, TypeInv', NEW k \in Conns, Disconnect(k), UNCHANGED clientVars
  PROVE  Inductive'
  <1>1. /\ link[k] = "closed" /\ UNCHANGED <<blocks, mappedClients, wireVars>>
        /\ \A j \in Conns : j # k => thread'[j] = thread[j]
    BY DEF Disconnect, Inductive, TypeInv, TypeOK, ServerTypeOK
  <1>2. \A j \in Conns : ConnOK(j)'
    <2>. SUFFICES ASSUME NEW j \in Conns PROVE ConnOK(j)'
      OBVIOUS
    <2>1. ConnOK(j) BY DEF Inductive
    <2>. QED BY <1>1, <2>1 DEF ConnOK, clientVars, wireVars, Alive, Busy, Engaged, Sock
  <1>3. \A j \in Conns : WriteOK(j)'
    BY <1>1 DEF Inductive, WriteOK, Agrees, wireVars
  <1>4. ASSUME NEW c \in Clients, NEW b \in Blocks PROVE CopyOK(c, b)' /\ AssocOK(c, b)'
    <2>1. CopyOK(c, b) /\ AssocOK(c, b) BY DEF Inductive
    <2>. QED BY <1>1, <2>1 DEF CopyOK, AssocOK, Agrees, Held, Alive, Busy, Sock, clientVars, wireVars
  <1>5. ASSUME NEW c \in Clients PROVE CallOK(c)'
    <2>1. CallOK(c) BY DEF Inductive
    <2>. QED BY <1>1, <2>1 DEF CallOK, ReplyOK, RequestOf, Agrees, Alive, Busy, Sock, clientVars, wireVars
  <1>. QED BY <1>2, <1>3, <1>4, <1>5 DEF Inductive, NoFault, clientVars

LEMMA ServerInductive ==
  ASSUME Inductive, TypeInv', NEW k \in Conns, ServerStep(k), UNCHANGED clientVars
  PROVE  Inductive'
  BY MapStep, UnmapStep, UpdateStep, WriteStep, WaitStep, DisconnectStep DEF ServerStep

-----------------------------------------------------------------------------
(* The clients. *)

\* The other clients and their connections are as they were.
LEMMA ClientFrame ==
  ASSUME Inductive, TypeInv', NEW c \in Clients, UNCHANGED serverVars,
         \A d \in Clients : d # c => /\ call'[d] = call[d] /\ gen'[d] = gen[d]
                                   /\ mapped'[d] = mapped[d] /\ local'[d] = local[d]
                                   /\ base'[d] = base[d],
         \A k \in Conns : k[1] # c =>
            link'[k] = link[k] /\ req'[k] = req[k] /\ rep'[k] = rep[k],
         \A k \in Conns : k[1] = c => ConnOK(k)' /\ WriteOK(k)',
         CallOK(c)', \A b \in Blocks : CopyOK(c, b)' /\ AssocOK(c, b)',
         call'[c] # Fault
  PROVE  Inductive'
  <1>1. ASSUME NEW k \in Conns PROVE ConnOK(k)' /\ WriteOK(k)'
    <2>1. CASE k[1] = c BY <2>1
    <2>2. CASE k[1] # c
      <3>1. ConnOK(k) /\ WriteOK(k) /\ k[1] \in Clients
        BY TypeFacts DEF Inductive
      <3>. QED BY <2>2, <3>1 DEF ConnOK, WriteOK, Agrees, Alive, Busy, Engaged, Sock, serverVars
    <2>. QED BY <2>1, <2>2
  <1>2. ASSUME NEW d \in Clients, d # c PROVE CallOK(d)'
    <2>1. CallOK(d) /\ (Busy(d) => Sock(d, call[d].id) \in Conns)
      BY CallTypes DEF Inductive
    <2>2. Sock(d, call[d].id)[1] = d
      BY DEF Sock
    <2>3. Busy(d) => LET k == Sock(d, call[d].id) IN
                     k' = k /\ req'[k] = req[k] /\ rep'[k] = rep[k]
      BY <1>2, <2>1, <2>2 DEF Sock
    <2>4. /\ call'[d] = call[d] /\ mapped'[d] = mapped[d] /\ local'[d] = local[d]
          /\ base'[d] = base[d] /\ blocks' = blocks /\ Busy(d)' = Busy(d) /\ Alive(d)' = Alive(d)
      BY <1>2 DEF Alive, Busy, serverVars
    <2>5. RequestOf(d)' = RequestOf(d)
      BY <2>4 DEF RequestOf
    <2>6. Busy(d) => LET k == Sock(d, call[d].id) IN
                     ReplyOK(d, Head(rep[k])) => ReplyOK(d, Head(rep[k]))'
      <3>1. PICK r : r = Head(rep[Sock(d, call[d].id)])
        OBVIOUS
      <3>2. Busy(d) => r = Head(rep[Sock(d, call[d].id)])'
        BY <2>3, <3>1
      <3>3. ReplyOK(d, r) => ReplyOK(d, r)'
        BY <2>4 DEF ReplyOK, Agrees
      <3>. QED BY <3>1, <3>2, <3>3 DEF ReplyOK
    <2>. QED BY <2>1, <2>3, <2>4, <2>5, <2>6 DEF CallOK
  <1>3. ASSUME NEW d \in Clients, NEW b \in Blocks, d # c PROVE CopyOK(d, b)'
    <2>1. CopyOK(d, b) BY DEF Inductive
    <2>. QED BY <1>3, <2>1 DEF CopyOK, Agrees, Alive, Busy, Held, serverVars
  <1>4. ASSUME NEW d \in Clients, NEW b \in Blocks, d # c PROVE AssocOK(d, b)'
    <2>1. AssocOK(d, b) /\ (Alive(d) => Sock(d, b) \in Conns)
      BY CallTypes DEF Inductive
    <2>2. Sock(d, b)[1] = d
      BY DEF Sock
    <2>3. Alive(d) => LET k == Sock(d, b) IN
                      k' = k /\ req'[k] = req[k] /\ rep'[k] = rep[k]
      BY <1>4, <2>1, <2>2 DEF Sock
    <2>. QED BY <1>4, <2>1, <2>3 DEF AssocOK, Alive, Busy, serverVars
  <1>5. \A d \in Clients : CallOK(d)' /\ \A b \in Blocks : CopyOK(d, b)' /\ AssocOK(d, b)'
    BY <1>2, <1>3, <1>4
  <1>6. NoFault'
    BY DEF Inductive, NoFault
  <1>. QED BY <1>1, <1>5, <1>6 DEF Inductive

LEMMA DmInitStep ==
  ASSUME Inductive, TypeInv', NEW c \in Clients, DmInit(c), UNCHANGED serverVars
  PROVE  Inductive'
  <1>1. /\ gen[c] \in Nat /\ gen'[c] = gen[c] + 1 /\ call'[c] = Idle /\ ~Busy(c)
        /\ \A d \in Clients : d # c => call'[d] = call[d] /\ gen'[d] = gen[d]
        /\ mapped' = mapped /\ local' = local /\ base' = base /\ req' = req /\ rep' = rep
    <2>1. gen \in [Clients -> 0 .. MaxInits] /\ DOMAIN call = Clients
      BY DEF Inductive, TypeInv, TypeOK, ClientTypeOK
    <2>2. ~Busy(c)
      BY IdleIsNoCall DEF DmInit, Busy
    <2>. QED BY <2>1, <2>2 DEF DmInit
  <1>2. \A k \in Conns : link'[k] = IF k[1] = c /\ k[3] = gen[c] + 1 THEN "open" ELSE link[k]
    BY DEF DmInit
  <1>3. ~Busy(c)' /\ Alive(c)'
    BY <1>1, IdleIsNoCall DEF Busy, Alive
  <1>4. ASSUME NEW k \in Conns, k[1] = c PROVE ConnOK(k)' /\ WriteOK(k)'
    <2>1. ConnOK(k) /\ WriteOK(k) /\ k[3] \in Nat
      BY TypeFacts DEF Inductive
    <2>2. WriteOK(k)'
      BY <1>1, <2>1 DEF WriteOK, Agrees, serverVars
    <2>3. CASE k[3] = gen[c] + 1
      <3>1. link[k] = "new" /\ link'[k] = "open" /\ req[k] = <<>> /\ rep[k] = <<>> /\ thread[k] = "recv"
        BY <1>1, <1>2, <1>4, <2>1, <2>3 DEF ConnOK
      <3>. QED BY <1>1, <1>3, <1>4, <2>2, <2>3, <3>1 DEF ConnOK, serverVars
    <2>4. CASE k[3] # gen[c] + 1
      <3>1. link'[k] = link[k]
        BY <1>2, <2>4
      <3>2. link[k] = "open" => req[k] = <<>> /\ rep[k] = <<>>
        BY <1>1, <1>4, <2>1 DEF ConnOK, Engaged
      <3>. QED BY <1>1, <1>3, <1>4, <2>1, <2>2, <2>4, <3>1, <3>2 DEF ConnOK, serverVars
    <2>. QED BY <2>3, <2>4
  <1>5. CallOK(c)'
    BY <1>3 DEF CallOK
  <1>6. ASSUME NEW b \in Blocks PROVE CopyOK(c, b)' /\ AssocOK(c, b)'
    <2>1. CopyOK(c, b) /\ CallOK(c)
      BY DEF Inductive
    <2>2. b \in mapped[c] => Alive(c) /\ call[c] = Idle
      BY <1>1, <2>1 DEF CallOK, Alive
    <2>3. CopyOK(c, b)'
      BY <1>1, <2>1, <2>2 DEF CopyOK, Held, Agrees, serverVars
    <2>4. Sock(c, b)' \notin mappedClients[b]
      <3>1. Sock(c, b)' = <<c, Owner[b], gen[c] + 1>> /\ Sock(c, b)' \in Conns
        BY <1>1, <1>3, CallTypes, WireAssumption DEF Sock, TypeInv, TypeOK, ClientTypeOK, Conns
      <3>2. PICK k \in Conns : k = <<c, Owner[b], gen[c] + 1>>
        BY <3>1
      <3>3. ConnOK(k) /\ k[1] = c /\ k[3] = gen[c] + 1
        BY <3>2 DEF Inductive
      <3>. QED BY <1>1, <3>1, <3>2, <3>3 DEF ConnOK
    <2>. QED BY <2>3, <2>4 DEF AssocOK, serverVars
  <1>7. call'[c] # Fault
    BY <1>1 DEF Idle, Fault
  <1>8. \A k \in Conns : k[1] # c => link'[k] = link[k] /\ req'[k] = req[k] /\ rep'[k] = rep[k]
    BY <1>1, <1>2
  <1>. QED BY <1>1, <1>4, <1>5, <1>6, <1>7, <1>8, ClientFrame

LEMMA ExitStep ==
  ASSUME Inductive, TypeInv', NEW c \in Clients, Exit(c), UNCHANGED serverVars
  PROVE  Inductive'
  <1>1. /\ call'[c] = Off /\ mapped'[c] = {} /\ gen' = gen /\ req' = req
        /\ \A b \in Blocks : local'[c][b] = NoCopy(b)
        /\ \A d \in Clients : d # c => /\ call'[d] = call[d] /\ mapped'[d] = mapped[d]
                                      /\ local'[d] = local[d] /\ base'[d] = base[d]
    BY DEF Exit, Reset, Inductive, TypeInv, TypeOK, ClientTypeOK
  <1>2. \A k \in Conns :
          /\ link'[k] = IF k[1] = c /\ link[k] = "open" THEN "closed" ELSE link[k]
          /\ rep'[k] = IF k[1] = c THEN <<>> ELSE rep[k]
    BY DEF Exit, CloseAll
  <1>3. ~Busy(c)' /\ ~Alive(c)' /\ call'[c] # Fault
    BY <1>1 DEF Busy, Alive, Calls, Off, Idle, Fault
  <1>4. ASSUME NEW k \in Conns, k[1] = c PROVE ConnOK(k)' /\ WriteOK(k)'
    <2>1. ConnOK(k) /\ WriteOK(k)
      BY DEF Inductive
    <2>2. WriteOK(k)'
      BY <1>1, <2>1 DEF WriteOK, Agrees, serverVars
    <2>3. link'[k] # "open" /\ rep'[k] = <<>> /\ (link'[k] = "new" <=> link[k] = "new")
      BY <1>2, <1>4
    <2>. QED BY <1>1, <1>3, <1>4, <2>1, <2>2, <2>3 DEF ConnOK, serverVars
  <1>5. CallOK(c)'
    BY <1>1, <1>3 DEF CallOK
  <1>6. ASSUME NEW b \in Blocks PROVE CopyOK(c, b)' /\ AssocOK(c, b)'
    <2>. DEFINE empty == NoCopy(b)
    <2>1. empty.id = b
      BY DEF NoCopy, NewCopy
    <2>2. CopyOK(c, b)'
      <3>1. local'[c][b] = empty
        BY <1>1
      <3>2. local'[c][b].id = b
        BY <2>1, <3>1
      <3>. QED BY <1>3, <3>2 DEF CopyOK
    <2>3. AssocOK(c, b)'
      BY <1>3 DEF AssocOK
    <2>. QED BY <2>2, <2>3
  <1>. QED BY <1>1, <1>2, <1>3, <1>4, <1>5, <1>6, ClientFrame

\* A call is begun: its request is alone in its connection.
LEMMA SendFrame ==
  ASSUME Inductive, TypeInv', NEW c \in Clients, NEW b \in Blocks, NEW op \in Calls,
         NEW m \in BoundedRequest, call[c] = Idle, Send(c, op, b, m), UNCHANGED serverVars,
         \A d \in Clients : d # c => /\ mapped'[d] = mapped[d] /\ local'[d] = local[d]
                                   /\ base'[d] = base[d],
         b \in mapped'[c], op = "MAP" => b \notin mapped[c],
         op \in {"MAP", "WRITE", "WAIT"} => local'[c][b].valid,
         m = IF op = "WRITE" THEN WriteRequest(local'[c][b], base'[c][b])
             ELSE ShallowRequest(op, local'[c][b]),
         \A x \in Blocks : local'[c][x].id = x,
         \A x \in Blocks : x # b \/ op # "MAP" =>
            /\ x \in mapped'[c] <=> x \in mapped[c]
            /\ local'[c][x] = local[c][x] /\ base'[c][x] = base[c][x]
  PROVE  Inductive'
  <1>. DEFINE k == Sock(c, b)
              now == [op |-> op, id |-> b]
  <1>1. /\ call'[c] = now /\ gen' = gen /\ link' = link /\ rep' = rep
        /\ \A d \in Clients : d # c => call'[d] = call[d]
        /\ req' = [req EXCEPT ![k] = Append(@, m)]
    BY DEF Send, Inductive, TypeInv, TypeOK, ClientTypeOK
  <1>2. Alive(c) /\ ~Busy(c) /\ Alive(c)' /\ Busy(c)' /\ call'[c] # Fault
    BY <1>1, IdleIsNoCall DEF Alive, Busy, Idle, Fault
  <1>3. k \in Conns /\ k[1] = c /\ k[3] = gen[c] /\ k' = k
    BY <1>1, <1>2, CallTypes DEF Inductive, Sock
  <1>4. link[k] = "open" /\ req[k] = <<>> /\ rep[k] = <<>>
    BY <1>2, <1>3 DEF Inductive, ConnOK, Engaged
  <1>5. req'[k] = <<m>> /\ \A j \in Conns : j # k => req'[j] = req[j]
    <2>1. req \in [Conns -> Seq(Request)]
      BY DEF Inductive, TypeInv, TypeOK, WireTypeOK
    <2>. QED BY <1>1, <1>3, <1>4, <2>1
  <1>6. Head(<<m>>) = m /\ Tail(<<m>>) = <<>> /\ <<m>> # <<>>
    OBVIOUS
  <1>7. m.type = op /\ m.id = b /\ m.rev = local'[c][b].rev
        /\ (op = "WRITE" => m.data = local'[c][b].data /\ m.base = base'[c][b])
    BY DEF WriteRequest, ShallowRequest
  <1>8. ASSUME NEW j \in Conns, j[1] = c PROVE ConnOK(j)'
    <2>1. ConnOK(j)
      BY DEF Inductive
    <2>2. CASE j = k
      BY <1>1, <1>2, <1>3, <1>4, <1>5, <1>6, <2>1, <2>2 DEF ConnOK, Engaged, serverVars
    <2>3. CASE j # k
      <3>1. link[j] = "open" => req[j] = <<>> /\ rep[j] = <<>>
        BY <1>2, <1>8, <2>1 DEF ConnOK, Engaged
      <3>. QED BY <1>1, <1>2, <1>5, <1>8, <2>1, <2>3, <3>1 DEF ConnOK, serverVars
    <2>. QED BY <2>2, <2>3
  <1>9. ASSUME NEW j \in Conns PROVE WriteOK(j)'
    <2>1. CASE j # k
      BY <1>5, <2>1 DEF Inductive, WriteOK, Agrees, serverVars
    <2>2. CASE j = k /\ op = "WRITE"
      <3>1. b \in mapped[c] /\ local'[c][b] = local[c][b] /\ base'[c][b] = base[c][b]
        BY <2>2
      <3>2. b \in Hosted => Agrees(local[c][b].rev, base[c][b], b)
        <4>1. call[c].op # "MAP" /\ CopyOK(c, b)
          BY DEF Idle, Inductive
        <4>2. b \in Hosted => b \in Held(c)
          BY <3>1, <4>1 DEF Held
        <4>. QED BY <1>2, <4>1, <4>2 DEF CopyOK
      <3>3. local[c][b].data # NoData
        BY TypeFacts, WireAssumption DEF Inductive
      <3>. QED BY <1>5, <1>6, <1>7, <2>2, <3>1, <3>2, <3>3 DEF WriteOK, Agrees, serverVars
    <2>3. CASE j = k /\ op # "WRITE"
      BY <1>5, <1>6, <1>7, <2>3 DEF WriteOK
    <2>. QED BY <2>1, <2>2, <2>3
  <1>10. RequestOf(c)' = m /\ call'[c].id = b /\ call'[c].op = op
    BY <1>1 DEF RequestOf
  <1>11. CallOK(c)'
    BY <1>1, <1>2, <1>3, <1>4, <1>5, <1>6, <1>10 DEF CallOK
  <1>12. ASSUME NEW x \in Blocks PROVE CopyOK(c, x)'
    <2>1. CopyOK(c, x)
      BY DEF Inductive
    <2>2. x \in Held(c)' => x \in Held(c) /\ (x # b \/ op # "MAP")
      BY <1>1 DEF Held, Idle
    <2>. QED BY <1>2, <2>1, <2>2 DEF CopyOK, Agrees, serverVars
  <1>13. ASSUME NEW x \in Blocks PROVE AssocOK(c, x)'
    <2>1. AssocOK(c, x) /\ mappedClients' = mappedClients /\ Sock(c, x)' = Sock(c, x)
      BY <1>1 DEF Inductive, serverVars, Sock
    <2>2. CASE x = b
      <3>1. now = [op |-> "MAP", id |-> x] => op = "MAP"
        OBVIOUS
      <3>. QED BY <1>1, <1>2, <1>4, <2>1, <2>2, <3>1 DEF AssocOK
    <2>3. CASE x # b
      <3>1. now # [op |-> "MAP", id |-> x] /\ now # [op |-> "UNMAP", id |-> x]
        BY <2>3
      <3>. QED BY <1>1, <1>2, <2>1, <2>3, <3>1 DEF AssocOK
    <2>. QED BY <2>2, <2>3
  <1>14. \A j \in Conns : j[1] # c => link'[j] = link[j] /\ req'[j] = req[j] /\ rep'[j] = rep[j]
    BY <1>1, <1>3, <1>5
  <1>. QED BY <1>1, <1>2, <1>8, <1>9, <1>11, <1>12, <1>13, <1>14, ClientFrame

\* The calls that leave the local copies alone until the reply.
LEMMA SendSame ==
  ASSUME Inductive, TypeInv', NEW c \in Clients, NEW b \in Blocks,
         NEW op \in {"UNMAP", "UPDATE", "WRITE", "WAIT"},
         call[c] = Idle, b \in mapped[c], UNCHANGED <<mapped, local, base, serverVars>>,
         op \in {"WRITE", "WAIT"} => local[c][b].valid,
         op = "WRITE" => local[c][b].rev < MaxRev,
         Send(c, op, b, IF op = "WRITE" THEN WriteRequest(local[c][b], base[c][b])
                        ELSE ShallowRequest(op, local[c][b]))
  PROVE  Inductive'
  <1>1. PICK m \in BoundedRequest :
          m = IF op = "WRITE" THEN WriteRequest(local[c][b], base[c][b])
              ELSE ShallowRequest(op, local[c][b])
    <2>1. local[c][b] \in Copy /\ base[c][b] \in Data
      BY TypeFacts DEF Inductive
    <2>2. CASE op = "WRITE"
      <3>1. WriteRequest(local[c][b], base[c][b]) \in BoundedRequest
        BY <2>1, <2>2, RequestTypes
      <3>. QED BY <2>2, <3>1
    <2>3. CASE op # "WRITE"
      <3>1. ShallowRequest(op, local[c][b]) \in BoundedRequest
        BY <2>1, <2>3, RequestTypes DEF Calls
      <3>. QED BY <2>3, <3>1
    <2>. QED BY <2>2, <2>3
  <1>2. \A x \in Blocks : local'[c][x].id = x
    BY DEF Inductive, CopyOK
  <1>3. op \in Calls /\ op # "MAP"
    BY DEF Calls
  <1>. QED BY <1>1, <1>2, <1>3, SendFrame

LEMMA BeginMapStep ==
  ASSUME Inductive, TypeInv', NEW c \in Clients, NEW b \in Blocks, NEW x \in Data,
         BeginMap(c, b, x), UNCHANGED serverVars
  PROVE  Inductive'
  <1>. DEFINE l == NewCopy(b, x)
  <1>1. l \in Copy /\ l.id = b /\ l.valid
    BY WireAssumption DEF NewCopy, Copy, Revs
  <1>2. PICK m \in BoundedRequest : m = ShallowRequest("MAP", l)
    BY <1>1, RequestTypes DEF Calls
  <1>3. call[c] = Idle /\ b \notin mapped[c] /\ Send(c, "MAP", b, m)
    BY <1>2 DEF BeginMap
  <1>4. /\ mapped \in [Clients -> SUBSET Blocks] /\ local \in [Clients -> [Blocks -> Copy]]
        /\ base \in [Clients -> [Blocks -> Data]]
    BY DEF Inductive, TypeInv, TypeOK, ClientTypeOK
  <1>5. /\ mapped'[c] = mapped[c] \cup {b} /\ local'[c][b] = l
        /\ \A y \in Blocks : y # b => local'[c][y] = local[c][y] /\ base'[c][y] = base[c][y]
        /\ \A d \in Clients : d # c => /\ mapped'[d] = mapped[d] /\ local'[d] = local[d]
                                     /\ base'[d] = base[d]
    BY <1>4 DEF BeginMap, SetCopy
  <1>6. ASSUME NEW y \in Blocks PROVE local'[c][y].id = y
    <2>1. local[c][y].id = y
      BY DEF Inductive, CopyOK
    <2>. QED BY <1>1, <1>5, <2>1
  <1>. HIDE DEF l
  <1>7. "MAP" \in Calls /\ "MAP" # "WRITE"
    BY DEF Calls
  <1>. QED BY <1>1, <1>2, <1>3, <1>5, <1>6, <1>7, SendFrame

LEMMA BeginSameStep ==
  ASSUME Inductive, TypeInv', NEW c \in Clients, NEW b \in Blocks, UNCHANGED serverVars,
         BeginUnmap(c, b) \/ BeginUpdate(c, b) \/ BeginWrite(c, b) \/ BeginWait(c, b)
  PROVE  Inductive'
  <1>1. CASE BeginUnmap(c, b)
    BY <1>1, SendSame DEF BeginUnmap
  <1>2. CASE BeginUpdate(c, b)
    BY <1>2, SendSame DEF BeginUpdate
  <1>3. CASE BeginWrite(c, b)
    BY <1>3, SendSame DEF BeginWrite
  <1>4. CASE BeginWait(c, b)
    BY <1>4, SendSame DEF BeginWait
  <1>. QED BY <1>1, <1>2, <1>3, <1>4

LEMMA StoreStep ==
  ASSUME Inductive, TypeInv', NEW c \in Clients, NEW b \in Blocks, NEW x \in Data,
         Store(c, b, x), UNCHANGED serverVars
  PROVE  Inductive'
  <1>1. /\ call[c] = Idle /\ b \in mapped[c]
        /\ UNCHANGED <<mapped, call, gen, base, link, req, rep>>
        /\ SetCopy(c, b, [local[c][b] EXCEPT !.data = x])
    BY DEF Store, wireVars
  <1>2. /\ local'[c][b] = [local[c][b] EXCEPT !.data = x]
        /\ \A y \in Blocks : y # b => local'[c][y] = local[c][y]
        /\ \A d \in Clients : d # c => local'[d] = local[d]
    BY <1>1 DEF SetCopy, Inductive, TypeInv, TypeOK, ClientTypeOK
  <1>3. ~Busy(c) /\ ~Busy(c)' /\ call'[c] # Fault
    BY <1>1, IdleIsNoCall DEF Busy, Idle, Fault
  <1>4. \A y \in Blocks : /\ local'[c][y].id = local[c][y].id
                          /\ local'[c][y].rev = local[c][y].rev
                          /\ local'[c][y].valid = local[c][y].valid
    <2>1. local[c][b] \in Copy
      BY TypeFacts DEF Inductive
    <2>. QED BY <1>2, <2>1 DEF Copy
  <1>5. ASSUME NEW k \in Conns PROVE ConnOK(k)' /\ WriteOK(k)'
    <2>1. ConnOK(k) /\ WriteOK(k)
      BY DEF Inductive
    <2>. QED BY <1>1, <2>1 DEF ConnOK, WriteOK, Agrees, Alive, Busy, Engaged, Sock, serverVars
  <1>6. CallOK(c)'
    BY <1>1, <1>3 DEF CallOK, Alive
  <1>7. ASSUME NEW y \in Blocks PROVE CopyOK(c, y)' /\ AssocOK(c, y)'
    <2>1. CopyOK(c, y) /\ AssocOK(c, y)
      BY DEF Inductive
    <2>2. CopyOK(c, y)'
      BY <1>1, <1>4, <2>1 DEF CopyOK, Agrees, Alive, Busy, Held, serverVars
    <2>3. AssocOK(c, y)'
      BY <1>1, <2>1 DEF AssocOK, Alive, Busy, Sock, serverVars
    <2>. QED BY <2>2, <2>3
  <1>. QED BY <1>1, <1>2, <1>3, <1>5, <1>6, <1>7, ClientFrame

\* The reply is read: the connection is empty.
LEMMA ReceiveFacts ==
  ASSUME Inductive, NEW c \in Clients, Busy(c), rep[Sock(c, call[c].id)] # <<>>
  PROVE  LET b == call[c].id
             k == Sock(c, b) IN
         /\ b \in Blocks /\ k \in Conns /\ b \in mapped[c] /\ Alive(c)
         /\ link[k] = "open" /\ req[k] = <<>> /\ Tail(rep[k]) = <<>>
         /\ Ack(c) = Head(rep[k]) /\ Ack(c) \in Reply /\ ReplyOK(c, Ack(c))
         /\ CopyOK(c, b) /\ AssocOK(c, b) /\ local[c][b] \in Copy /\ base[c][b] \in Data
         /\ call[c] = [op |-> call[c].op, id |-> b]
  <1>. DEFINE b == call[c].id
              k == Sock(c, b)
  <1>1. b \in Blocks /\ k \in Conns /\ Alive(c)
    BY CallTypes DEF Inductive, Alive
  <1>2. CallOK(c) /\ CopyOK(c, b) /\ AssocOK(c, b) /\ ConnOK(k)
    BY <1>1 DEF Inductive
  <1>3. b \in mapped[c] /\ req[k] = <<>> /\ Tail(rep[k]) = <<>> /\ ReplyOK(c, Head(rep[k]))
    BY <1>2 DEF CallOK
  <1>4. link[k] = "open"
    BY <1>2 DEF ConnOK
  <1>5. Head(rep[k]) \in Reply
    BY <1>1, HeadTailProperties DEF Inductive, TypeInv, TypeOK, WireTypeOK
  <1>6. local[c][b] \in Copy /\ base[c][b] \in Data
    BY <1>1, TypeFacts DEF Inductive
  <1>7. call[c] = [op |-> call[c].op, id |-> b]
    <2>1. call[c] \in [op : Calls, id : Blocks] \cup {Off, Idle, Fault}
      BY DEF Inductive, TypeInv, TypeOK, ClientTypeOK
    <2>2. call[c] \in [op : Calls, id : Blocks]
      BY <2>1 DEF Busy, Calls, Off, Idle, Fault
    <2>. QED BY <2>2
  <1>. QED BY <1>1, <1>2, <1>3, <1>4, <1>5, <1>6, <1>7 DEF Ack

\* What a return has to establish: the copy it leaves, and that an
\* association on the server is one of the client.
LEMMA ReceiveFrame ==
  ASSUME Inductive, TypeInv', NEW c \in Clients, NEW op \in Calls, Receive(c, op),
         NEW b \in Blocks, b = call[c].id, UNCHANGED serverVars,
         \A d \in Clients : d # c => /\ mapped'[d] = mapped[d] /\ local'[d] = local[d]
                                   /\ base'[d] = base[d],
         \A x \in Blocks : x # b =>
            /\ x \in mapped'[c] <=> x \in mapped[c]
            /\ local'[c][x] = local[c][x] /\ base'[c][x] = base[c][x],
         CopyOK(c, b)',
         Sock(c, b) \in mappedClients[b] => b \in mapped'[c]
  PROVE  Inductive'
  <1>. DEFINE k == Sock(c, b)
  <1>1. Busy(c) /\ rep[k] # <<>>
    BY DEF Receive, Busy
  <1>2. /\ b \in Blocks /\ k \in Conns /\ link[k] = "open" /\ req[k] = <<>> /\ Alive(c)
        /\ Tail(rep[k]) = <<>>
    BY <1>1, ReceiveFacts
  <1>3. /\ call'[c] = Idle /\ gen' = gen /\ link' = link /\ req' = req /\ k[1] = c /\ k[3] = gen[c]
        /\ rep'[k] = <<>> /\ \A j \in Conns : j # k => rep'[j] = rep[j]
        /\ \A d \in Clients : d # c => call'[d] = call[d]
    <2>1. rep \in [Conns -> Seq(Reply)] /\ DOMAIN call = Clients
      BY DEF Inductive, TypeInv, TypeOK, WireTypeOK, ClientTypeOK
    <2>. QED BY <1>2, <2>1 DEF Receive, Sock
  <1>4. ~Busy(c)' /\ Alive(c)' /\ call'[c] # Fault
    BY <1>3, IdleIsNoCall DEF Busy, Alive, Idle, Fault
  <1>5. ASSUME NEW j \in Conns, j[1] = c PROVE ConnOK(j)' /\ WriteOK(j)'
    <2>1. ConnOK(j) /\ WriteOK(j)
      BY DEF Inductive
    <2>2. WriteOK(j)'
      BY <1>3, <2>1 DEF WriteOK, Agrees, serverVars
    <2>3. CASE j = k
      BY <1>2, <1>3, <1>4, <2>1, <2>2, <2>3 DEF ConnOK, serverVars
    <2>4. CASE j # k
      <3>1. link[j] = "open" => req[j] = <<>> /\ rep[j] = <<>>
        BY <1>1, <1>5, <2>1, <2>4 DEF ConnOK, Engaged
      <3>. QED BY <1>2, <1>3, <1>4, <1>5, <2>1, <2>2, <2>4, <3>1 DEF ConnOK, serverVars
    <2>. QED BY <2>3, <2>4
  <1>6. CallOK(c)'
    BY <1>4 DEF CallOK
  <1>7. ASSUME NEW x \in Blocks PROVE CopyOK(c, x)'
    <2>1. CASE x = b BY <2>1
    <2>2. CASE x # b
      <3>1. CopyOK(c, x) /\ (x \in Held(c)' => x \in Held(c))
        <4>1. call[c] # [op |-> "MAP", id |-> x] BY <2>2
        <4>. QED BY <2>2, <4>1 DEF Inductive, Held
      <3>. QED BY <1>2, <2>2, <3>1 DEF CopyOK, Agrees, serverVars
    <2>. QED BY <2>1, <2>2
  <1>8. ASSUME NEW x \in Blocks PROVE AssocOK(c, x)'
    <2>1. /\ AssocOK(c, x) /\ mappedClients' = mappedClients /\ Sock(c, x)' = Sock(c, x)
          /\ Idle # [op |-> "MAP", id |-> x] /\ Idle # [op |-> "UNMAP", id |-> x]
      BY <1>3 DEF Inductive, serverVars, Sock, Idle
    <2>2. Sock(c, x) \in mappedClients[x] => x \in mapped'[c]
      BY <1>2, <2>1 DEF AssocOK
    <2>. QED BY <1>3, <2>1, <2>2 DEF AssocOK
  <1>9. \A j \in Conns : j[1] # c => link'[j] = link[j] /\ req'[j] = req[j] /\ rep'[j] = rep[j]
    BY <1>3
  <1>. QED BY <1>3, <1>4, <1>5, <1>6, <1>7, <1>8, <1>9, ClientFrame

\* A return that leaves the mapping, and sets the copy and its base.
LEMMA ReturnSame ==
  ASSUME Inductive, TypeInv', NEW c \in Clients, NEW op \in Calls, Receive(c, op),
         NEW b \in Blocks, b = call[c].id, UNCHANGED <<mapped, serverVars>>,
         \A d \in Clients : d # c => local'[d] = local[d] /\ base'[d] = base[d],
         \A x \in Blocks : x # b => local'[c][x] = local[c][x] /\ base'[c][x] = base[c][x],
         local'[c][b].id = b,
         b \in Hosted => /\ Agrees(local'[c][b].rev, base'[c][b], b)
                         /\ ~local'[c][b].valid => local'[c][b].rev < blocks[b].rev
  PROVE  Inductive'
  <1>1. Busy(c) /\ rep[Sock(c, b)] # <<>>
    BY DEF Receive, Busy
  <1>2. b \in mapped[c]
    BY <1>1, ReceiveFacts
  <1>3. CopyOK(c, b)'
    BY DEF CopyOK, Agrees, Held, serverVars
  <1>. QED BY <1>2, <1>3, ReceiveFrame

\* A copy set, or left alone, by a return.
LEMMA CopyFrame ==
  ASSUME TypeInv, NEW c \in Clients, NEW b \in Blocks, NEW l, SetCopy(c, b, l)
  PROVE  /\ local'[c][b] = l
         /\ \A d \in Clients : d # c => local'[d] = local[d]
         /\ \A x \in Blocks : x # b => local'[c][x] = local[c][x]
  <1>1. local \in [Clients -> [Blocks -> Copy]]
    BY DEF TypeInv, TypeOK, ClientTypeOK
  <1>. QED BY <1>1 DEF SetCopy

\* What dm_block_map and dm_block_update install from a reply.
LEMMA InstallFacts ==
  ASSUME TypeInv, NEW c \in Clients, NEW b \in Blocks, NEW blk \in BlockInfo, NEW v,
         Install(c, b, blk, v)
  PROVE  /\ local'[c][b].id = blk.id /\ local'[c][b].rev = blk.rev /\ local'[c][b].valid = v
         /\ base'[c][b] = Content(blk)
         /\ \A d \in Clients : d # c => local'[d] = local[d] /\ base'[d] = base[d]
         /\ \A x \in Blocks : x # b => local'[c][x] = local[c][x] /\ base'[c][x] = base[c][x]
  <1>. DEFINE l == [id |-> blk.id, rev |-> blk.rev, data |-> Content(blk), valid |-> v]
              d0 == Content(blk)
  <1>1. SetCopy(c, b, l) /\ base' = [base EXCEPT ![c][b] = d0]
    BY DEF Install
  <1>2. l.id = blk.id /\ l.rev = blk.rev /\ l.valid = v
    OBVIOUS
  <1>. HIDE DEF l, d0
  <1>3. /\ local'[c][b] = l /\ \A d \in Clients : d # c => local'[d] = local[d]
        /\ \A x \in Blocks : x # b => local'[c][x] = local[c][x]
    BY <1>1, CopyFrame
  <1>4. /\ base'[c][b] = d0 /\ \A d \in Clients : d # c => base'[d] = base[d]
        /\ \A x \in Blocks : x # b => base'[c][x] = base[c][x]
    BY <1>1 DEF TypeInv, TypeOK, ClientTypeOK
  <1>. QED BY <1>2, <1>3, <1>4 DEF d0

\* Without time-outs, an ACK of MAP and of UPDATE has a block.
LEMMA NoNullBlock ==
  ASSUME Inductive, NEW c \in Clients, NEW op \in {"MAP", "UPDATE"}, NullBlock(c, op)
  PROVE  FALSE
  <1>1. /\ Busy(c) /\ rep[Sock(c, call[c].id)] # <<>> /\ call[c].op = op
        /\ Ack(c).type = "ACK" /\ Ack(c).block = NoBlock
    BY DEF NullBlock, Busy, Calls
  <1>2. ReplyOK(c, Ack(c))
    BY <1>1, ReceiveFacts
  <1>. QED BY <1>1, <1>2 DEF ReplyOK

LEMMA ReturnMapStep ==
  ASSUME Inductive, TypeInv', NEW c \in Clients, ReturnMap(c), UNCHANGED serverVars
  PROVE  Inductive'
  <1>1. Receive(c, "MAP") /\ mapped' = mapped /\ "MAP" \in Calls
    BY NoNullBlock DEF ReturnMap, Calls
  <1>2. Busy(c) /\ rep[Sock(c, call[c].id)] # <<>> /\ call[c].op = "MAP"
    BY <1>1 DEF Receive, Busy
  <1>3. PICK b \in Blocks : b = call[c].id
    BY <1>2, ReceiveFacts
  <1>4. /\ CopyOK(c, b) /\ ReplyOK(c, Ack(c)) /\ Ack(c) \in Reply /\ CallOK(c)
    BY <1>2, <1>3, ReceiveFacts DEF Inductive
  <1>5. local[c][b].valid
    BY <1>2, <1>3, <1>4 DEF CallOK
  <1>6. CASE Ack(c).type = "NACK"
    <2>1. UNCHANGED <<local, base>>
      BY <1>1, <1>6, NoNullBlock DEF ReturnMap
    <2>2. b \notin Hosted
      BY <1>2, <1>3, <1>4, <1>6 DEF ReplyOK
    <2>. QED BY <1>1, <1>3, <1>4, <2>1, <2>2, ReturnSame DEF CopyOK
  <1>7. CASE Ack(c).type = "ACK"
    <2>1. Ack(c).block # NoBlock /\ Install(c, b, Ack(c).block, local[c][b].valid)
      BY <1>3, <1>7, NoNullBlock DEF ReturnMap
    <2>2. Ack(c).block \in BlockInfo
      BY <1>4, <2>1 DEF Reply
    <2>3. /\ Ack(c).block.id = b /\ Ack(c).block.data # NoData
          /\ b \in Hosted => Agrees(Ack(c).block.rev, Ack(c).block.data, b)
      BY <1>2, <1>3, <1>4, <1>7 DEF ReplyOK
    <2>4. PICK v \in BOOLEAN : v = local[c][b].valid
      BY TypeFacts DEF Inductive, Copy
    <2>5. Content(Ack(c).block) = Ack(c).block.data
      BY <2>3 DEF Content
    <2>6. /\ local'[c][b].id = b /\ local'[c][b].rev = Ack(c).block.rev /\ local'[c][b].valid = v
          /\ base'[c][b] = Ack(c).block.data
          /\ \A d \in Clients : d # c => local'[d] = local[d] /\ base'[d] = base[d]
          /\ \A x \in Blocks : x # b => local'[c][x] = local[c][x] /\ base'[c][x] = base[c][x]
      BY <2>1, <2>2, <2>3, <2>4, <2>5, InstallFacts DEF Inductive
    <2>7. b \in Hosted => Agrees(local'[c][b].rev, base'[c][b], b)
      BY <2>3, <2>6
    <2>8. local'[c][b].valid
      BY <1>5, <2>4, <2>6
    <2>. QED BY <1>1, <1>3, <2>6, <2>7, <2>8, ReturnSame
  <1>8. Ack(c).type \in {"ACK", "NACK"}
    BY <1>4 DEF Reply
  <1>. QED BY <1>6, <1>7, <1>8

LEMMA ReturnUpdateStep ==
  ASSUME Inductive, TypeInv', NEW c \in Clients, ReturnUpdate(c), UNCHANGED serverVars
  PROVE  Inductive'
  <1>1. Receive(c, "UPDATE") /\ mapped' = mapped /\ "UPDATE" \in Calls
    BY NoNullBlock DEF ReturnUpdate, Calls
  <1>2. Busy(c) /\ rep[Sock(c, call[c].id)] # <<>> /\ call[c].op = "UPDATE"
    BY <1>1 DEF Receive, Busy
  <1>3. PICK b \in Blocks : b = call[c].id
    BY <1>2, ReceiveFacts
  <1>4. /\ CopyOK(c, b) /\ ReplyOK(c, Ack(c)) /\ Ack(c) \in Reply /\ b \in mapped[c] /\ Alive(c)
    BY <1>2, <1>3, ReceiveFacts DEF Inductive
  <1>5. b \in Hosted => /\ Agrees(local[c][b].rev, base[c][b], b)
                        /\ ~local[c][b].valid => local[c][b].rev < blocks[b].rev
    BY <1>2, <1>4 DEF CopyOK, Held
  <1>6. CASE UNCHANGED <<local, base>>
    BY <1>1, <1>3, <1>4, <1>5, <1>6, ReturnSame DEF CopyOK
  <1>7. CASE /\ Ack(c).type = "ACK" /\ Ack(c).block # NoBlock
             /\ local[c][b].rev # Ack(c).block.rev /\ Install(c, b, Ack(c).block, TRUE)
    <2>1. Ack(c).block \in BlockInfo
      BY <1>4, <1>7 DEF Reply
    <2>2. /\ Ack(c).block.id = b
          /\ b \in Hosted => /\ Ack(c).block.data # NoData
                             /\ Agrees(Ack(c).block.rev, Ack(c).block.data, b)
      BY <1>2, <1>3, <1>4, <1>7 DEF ReplyOK
    <2>3. /\ local'[c][b].id = b /\ local'[c][b].rev = Ack(c).block.rev /\ local'[c][b].valid = TRUE
          /\ base'[c][b] = Content(Ack(c).block)
          /\ \A d \in Clients : d # c => local'[d] = local[d] /\ base'[d] = base[d]
          /\ \A x \in Blocks : x # b => local'[c][x] = local[c][x] /\ base'[c][x] = base[c][x]
      <3>1. PICK blk \in BlockInfo : blk = Ack(c).block
        BY <2>1
      <3>2. Install(c, b, blk, TRUE)
        BY <1>7, <3>1
      <3>3. /\ local'[c][b].id = blk.id /\ local'[c][b].rev = blk.rev /\ local'[c][b].valid = TRUE
            /\ base'[c][b] = Content(blk)
            /\ \A d \in Clients : d # c => local'[d] = local[d] /\ base'[d] = base[d]
            /\ \A x \in Blocks : x # b => local'[c][x] = local[c][x] /\ base'[c][x] = base[c][x]
        <4>1. TypeInv BY DEF Inductive
        <4>. QED BY <3>2, <4>1, InstallFacts
      <3>. QED BY <2>2, <3>1, <3>3
    <2>4. b \in Hosted => Agrees(local'[c][b].rev, base'[c][b], b)
      BY <2>2, <2>3 DEF Content
    <2>. QED BY <1>1, <1>3, <2>3, <2>4, ReturnSame
  <1>. QED BY <1>3, <1>6, <1>7, NoNullBlock DEF ReturnUpdate

LEMMA ReturnUnmapStep ==
  ASSUME Inductive, TypeInv', NEW c \in Clients, ReturnUnmap(c), UNCHANGED serverVars
  PROVE  Inductive'
  <1>1. Receive(c, "UNMAP") /\ "UNMAP" \in Calls
    BY DEF ReturnUnmap, Calls
  <1>2. Busy(c) /\ rep[Sock(c, call[c].id)] # <<>> /\ call[c].op = "UNMAP"
    BY <1>1 DEF Receive, Busy
  <1>3. PICK b \in Blocks : b = call[c].id
    BY <1>2, ReceiveFacts
  <1>4. /\ CopyOK(c, b) /\ AssocOK(c, b) /\ b \in mapped[c] /\ Alive(c)
        /\ call[c] = [op |-> "UNMAP", id |-> b]
    BY <1>2, <1>3, ReceiveFacts
  <1>5. CASE Ack(c).type = "NACK"
    <2>1. UNCHANGED <<mapped, local, base>>
      BY <1>5 DEF ReturnUnmap
    <2>2. b \in Hosted => /\ Agrees(local[c][b].rev, base[c][b], b)
                          /\ ~local[c][b].valid => local[c][b].rev < blocks[b].rev
      BY <1>2, <1>4 DEF CopyOK, Held
    <2>. QED BY <1>1, <1>3, <1>4, <2>1, <2>2, ReturnSame DEF CopyOK
  <1>6. CASE Ack(c).type # "NACK"
    <2>. DEFINE empty == NoCopy(b)
    <2>1. /\ mapped' = [mapped EXCEPT ![c] = mapped[c] \ {b}]
          /\ SetCopy(c, b, empty) /\ base' = [base EXCEPT ![c][b] = Zero]
      BY <1>3, <1>6 DEF ReturnUnmap
    <2>2. empty.id = b
      BY DEF NoCopy, NewCopy
    <2>3. mapped[c] \ {b} \in SUBSET Blocks
      BY TypeFacts DEF Inductive
    <2>. HIDE DEF empty
    <2>4. /\ local'[c][b] = empty /\ mapped'[c] = mapped[c] \ {b}
          /\ \A d \in Clients : d # c => /\ mapped'[d] = mapped[d] /\ local'[d] = local[d]
                                       /\ base'[d] = base[d]
          /\ \A x \in Blocks : x # b => local'[c][x] = local[c][x] /\ base'[c][x] = base[c][x]
      <3>1. /\ local'[c][b] = empty /\ \A d \in Clients : d # c => local'[d] = local[d]
            /\ \A x \in Blocks : x # b => local'[c][x] = local[c][x]
        BY <2>1, CopyFrame DEF Inductive
      <3>2. /\ \A d \in Clients : d # c => base'[d] = base[d]
            /\ \A x \in Blocks : x # b => base'[c][x] = base[c][x]
        BY <2>1 DEF Inductive, TypeInv, TypeOK, ClientTypeOK
      <3>3. mapped'[c] = mapped[c] \ {b} /\ \A d \in Clients : d # c => mapped'[d] = mapped[d]
        BY <2>1 DEF Inductive, TypeInv, TypeOK, ClientTypeOK
      <3>. QED BY <3>1, <3>2, <3>3
    <2>5. local'[c][b].id = b
      BY <2>2, <2>4
    <2>6. CopyOK(c, b)'
      BY <2>4, <2>5 DEF CopyOK, Held
    <2>7. Sock(c, b) \notin mappedClients[b]
      <3>1. Ack(c) = Head(rep[Sock(c, b)])
        BY <1>3 DEF Ack
      <3>. QED BY <1>2, <1>3, <1>4, <1>6, <3>1 DEF AssocOK
    <2>. QED BY <1>1, <1>3, <2>4, <2>6, <2>7, ReceiveFrame
  <1>. QED BY <1>5, <1>6

LEMMA ReturnWriteStep ==
  ASSUME Inductive, TypeInv', NEW c \in Clients, ReturnWrite(c), UNCHANGED serverVars
  PROVE  Inductive'
  <1>1. Receive(c, "WRITE") /\ mapped' = mapped /\ "WRITE" \in Calls
    BY DEF ReturnWrite, Calls
  <1>2. Busy(c) /\ rep[Sock(c, call[c].id)] # <<>> /\ call[c].op = "WRITE"
    BY <1>1 DEF Receive, Busy
  <1>3. PICK b \in Blocks : b = call[c].id
    BY <1>2, ReceiveFacts
  <1>4. /\ CopyOK(c, b) /\ ReplyOK(c, Ack(c)) /\ Ack(c) \in Reply /\ CallOK(c)
        /\ b \in mapped[c] /\ Alive(c) /\ local[c][b] \in Copy
    BY <1>2, <1>3, ReceiveFacts DEF Inductive
  <1>5. local[c][b].valid /\ local[c][b].id = b
    BY <1>2, <1>3, <1>4 DEF CallOK, CopyOK
  <1>6. CASE Ack(c).type = "NACK"
    <2>. DEFINE l == [local[c][b] EXCEPT !.valid = FALSE]
    <2>1. SetCopy(c, b, l) /\ base' = base
      BY <1>3, <1>6 DEF ReturnWrite
    <2>2. l.id = b /\ l.rev = local[c][b].rev
      BY <1>4, <1>5 DEF Copy
    <2>. HIDE DEF l
    <2>3. /\ local'[c][b] = l /\ \A d \in Clients : d # c => local'[d] = local[d]
          /\ \A x \in Blocks : x # b => local'[c][x] = local[c][x]
      BY <2>1, CopyFrame DEF Inductive
    <2>4. b \in Hosted => /\ Agrees(local[c][b].rev, base[c][b], b)
                          /\ local[c][b].rev < blocks[b].rev
      BY <1>2, <1>3, <1>4, <1>6 DEF ReplyOK, CopyOK, Held
    <2>5. b \in Hosted => Agrees(local'[c][b].rev, base'[c][b], b) /\ local'[c][b].rev < blocks[b].rev
      BY <2>1, <2>2, <2>3, <2>4
    <2>. QED BY <1>1, <1>3, <2>1, <2>2, <2>3, <2>5, ReturnSame
  <1>7. CASE Ack(c).type = "ACK"
    <2>. DEFINE l == [local[c][b] EXCEPT !.rev = @ + 1]
                d0 == local[c][b].data
    <2>1. SetCopy(c, b, l) /\ base' = [base EXCEPT ![c][b] = d0]
      BY <1>3, <1>7 DEF ReturnWrite
    <2>2. l.id = b /\ l.rev = local[c][b].rev + 1 /\ l.valid
      BY <1>4, <1>5 DEF Copy
    <2>. HIDE DEF l, d0
    <2>3. /\ local'[c][b] = l /\ \A d \in Clients : d # c => local'[d] = local[d]
          /\ \A x \in Blocks : x # b => local'[c][x] = local[c][x]
      BY <2>1, CopyFrame DEF Inductive
    <2>4. /\ base'[c][b] = d0 /\ \A d \in Clients : d # c => base'[d] = base[d]
          /\ \A x \in Blocks : x # b => base'[c][x] = base[c][x]
      BY <2>1 DEF Inductive, TypeInv, TypeOK, ClientTypeOK
    <2>5. b \in Hosted => Agrees(local[c][b].rev + 1, d0, b)
      BY <1>2, <1>3, <1>4, <1>7 DEF ReplyOK, d0
    <2>6. b \in Hosted => Agrees(local'[c][b].rev, base'[c][b], b)
      BY <2>2, <2>3, <2>4, <2>5
    <2>7. local'[c][b].id = b /\ local'[c][b].valid
      BY <2>2, <2>3
    <2>. QED BY <1>1, <1>3, <2>3, <2>4, <2>6, <2>7, ReturnSame
  <1>8. Ack(c).type \in {"ACK", "NACK"}
    BY <1>4 DEF Reply
  <1>. QED BY <1>6, <1>7, <1>8

LEMMA ReturnWaitStep ==
  ASSUME Inductive, TypeInv', NEW c \in Clients, ReturnWait(c), UNCHANGED serverVars
  PROVE  Inductive'
  <1>1. Receive(c, "WAIT") /\ mapped' = mapped /\ base' = base /\ "WAIT" \in Calls
    BY DEF ReturnWait, Calls
  <1>2. Busy(c) /\ rep[Sock(c, call[c].id)] # <<>> /\ call[c].op = "WAIT"
    BY <1>1 DEF Receive, Busy
  <1>3. PICK b \in Blocks : b = call[c].id
    BY <1>2, ReceiveFacts
  <1>4. /\ CopyOK(c, b) /\ ReplyOK(c, Ack(c)) /\ Ack(c) \in Reply
        /\ b \in mapped[c] /\ Alive(c) /\ local[c][b] \in Copy
    BY <1>2, <1>3, ReceiveFacts
  <1>5. b \in Hosted => /\ Agrees(local[c][b].rev, base[c][b], b)
                        /\ ~local[c][b].valid => local[c][b].rev < blocks[b].rev
    BY <1>2, <1>4 DEF CopyOK, Held
  <1>6. CASE Ack(c).type = "NACK"
    <2>1. local' = local
      BY <1>6 DEF ReturnWait
    <2>. QED BY <1>1, <1>3, <1>4, <1>5, <2>1, ReturnSame DEF CopyOK
  <1>7. CASE Ack(c).type = "ACK"
    <2>. DEFINE l == [local[c][b] EXCEPT !.valid = FALSE]
    <2>1. SetCopy(c, b, l)
      BY <1>3, <1>7 DEF ReturnWait
    <2>2. l.id = b /\ l.rev = local[c][b].rev
      BY <1>4 DEF Copy, CopyOK
    <2>. HIDE DEF l
    <2>3. /\ local'[c][b] = l /\ \A d \in Clients : d # c => local'[d] = local[d]
          /\ \A x \in Blocks : x # b => local'[c][x] = local[c][x]
      BY <2>1, CopyFrame DEF Inductive
    <2>4. b \in Hosted => Agrees(local'[c][b].rev, base'[c][b], b) /\ local'[c][b].rev < blocks[b].rev
      BY <1>1, <1>2, <1>3, <1>4, <1>5, <1>7, <2>2, <2>3 DEF ReplyOK
    <2>. QED BY <1>1, <1>3, <2>2, <2>3, <2>4, ReturnSame
  <1>8. Ack(c).type \in {"ACK", "NACK"}
    BY <1>4 DEF Reply
  <1>. QED BY <1>6, <1>7, <1>8

LEMMA ClientInductive ==
  ASSUME Inductive, TypeInv', NEW c \in Clients, ClientStep(c), UNCHANGED serverVars
  PROVE  Inductive'
  <1>1. CASE DmInit(c) BY <1>1, DmInitStep
  <1>2. CASE Exit(c) BY <1>2, ExitStep
  <1>3. CASE Begin(c)
    <2>1. PICK b \in Blocks :
            \/ \E d \in Data : BeginMap(c, b, d) \/ Store(c, b, d)
            \/ BeginUnmap(c, b) \/ BeginUpdate(c, b) \/ BeginWrite(c, b) \/ BeginWait(c, b)
      BY <1>3 DEF Begin
    <2>. QED BY <2>1, BeginMapStep, StoreStep, BeginSameStep
  <1>4. CASE Return(c)
    BY <1>4, ReturnMapStep, ReturnUnmapStep, ReturnUpdateStep, ReturnWriteStep, ReturnWaitStep
       DEF Return
  <1>. QED BY <1>1, <1>2, <1>3, <1>4 DEF ClientStep

-----------------------------------------------------------------------------
(* The theorems. *)

LEMMA InductiveInit == Init => Inductive
  <1>. SUFFICES ASSUME Init PROVE Inductive
    OBVIOUS
  <1>1. TypeInv
    BY TypeInit
  <1>2. \A c \in Clients : /\ call[c] = Off /\ mapped[c] = {} /\ gen[c] = 0
                           /\ ~Busy(c) /\ ~Alive(c) /\ call[c] # Fault
    BY DEF Init, ClientInit, Busy, Alive, Calls, Off, Idle, Fault
  <1>3. ASSUME NEW k \in Conns PROVE ConnOK(k) /\ WriteOK(k)
    <2>1. link[k] = "new" /\ req[k] = <<>> /\ rep[k] = <<>> /\ thread[k] = "recv"
          /\ \A b \in Blocks : mappedClients[b] = {}
      BY DEF Init, WireInit, ServerInit
    <2>2. k[1] \in Clients
      BY TypeFacts, <1>1
    <2>. QED BY <1>2, <2>1, <2>2 DEF ConnOK, WriteOK
  <1>4. ASSUME NEW c \in Clients, NEW b \in Blocks PROVE CopyOK(c, b) /\ AssocOK(c, b)
    <2>. DEFINE empty == NoCopy(b)
    <2>1. local[c][b] = empty
      BY DEF Init, ClientInit
    <2>2. empty.id = b
      BY DEF NoCopy, NewCopy
    <2>3. local[c][b].id = b
      BY <2>1, <2>2
    <2>. QED BY <1>2, <2>3 DEF CopyOK, AssocOK
  <1>5. \A c \in Clients : CallOK(c)
    BY <1>2 DEF CallOK
  <1>. QED BY <1>1, <1>2, <1>3, <1>4, <1>5 DEF Inductive, NoFault

LEMMA InductiveStep == Inductive /\ [Next]_vars => Inductive'
  <1>. SUFFICES ASSUME Inductive, [Next]_vars PROVE Inductive'
    OBVIOUS
  <1>1. TypeInv'
    BY TypeStep DEF Inductive, TimedNext
  <1>2. ASSUME NEW c \in Clients, ClientStep(c), UNCHANGED serverVars PROVE Inductive'
    BY <1>1, <1>2, ClientInductive
  <1>3. ASSUME NEW k \in Conns, ServerStep(k), UNCHANGED clientVars PROVE Inductive'
    BY <1>1, <1>3, ServerInductive
  <1>4. CASE UNCHANGED vars
    <2>. UNCHANGED <<link, req, rep, serverVars, blocks, mappedClients, thread, mapped, local, call, gen, base>>
      BY <1>4 DEF vars, wireVars, serverVars, clientVars
    <2>1. ASSUME NEW k \in Conns PROVE ConnOK(k)' /\ WriteOK(k)'
      <3>1. ConnOK(k) /\ WriteOK(k) BY DEF Inductive
      <3>. QED BY <3>1 DEF ConnOK, WriteOK, Agrees, Alive, Busy, Engaged, Sock
    <2>2. ASSUME NEW c \in Clients, NEW b \in Blocks PROVE CopyOK(c, b)' /\ AssocOK(c, b)'
      <3>1. CopyOK(c, b) /\ AssocOK(c, b) BY DEF Inductive
      <3>. QED BY <3>1 DEF CopyOK, AssocOK, Agrees, Held, Alive, Busy, Sock
    <2>3. ASSUME NEW c \in Clients PROVE CallOK(c)'
      <3>1. CallOK(c) BY DEF Inductive
      <3>. QED BY <3>1 DEF CallOK, ReplyOK, RequestOf, Agrees, Alive, Busy, Sock
    <2>. QED BY <1>1, <2>1, <2>2, <2>3 DEF Inductive, NoFault
  <1>. QED BY <1>2, <1>3, <1>4 DEF Next

\* Without time-outs a connection carries one message, which speaks of the
\* call its client is in and agrees with the server's block.
THEOREM InductiveInvariant == Spec => []Inductive
  BY InductiveInit, InductiveStep, PTL DEF Spec

LEMMA InductiveImplies ==
  Inductive => Coherent /\ NeverAhead /\ InvalidIsOutdated /\ NoFault
  <1>. SUFFICES ASSUME Inductive PROVE Coherent /\ NeverAhead /\ InvalidIsOutdated /\ NoFault
    OBVIOUS
  <1>1. ASSUME NEW c \in Clients, Alive(c), NEW b \in Held(c)
        PROVE  /\ Agrees(local[c][b].rev, base[c][b], b)
               /\ ~local[c][b].valid => local[c][b].rev < blocks[b].rev
    <2>1. b \in Blocks
      BY TypeFacts DEF Inductive, Held
    <2>. QED BY <1>1, <2>1 DEF Inductive, CopyOK
  <1>2. Coherent /\ NeverAhead /\ InvalidIsOutdated
    BY <1>1 DEF Coherent, NeverAhead, InvalidIsOutdated, Agrees
  <1>. QED BY <1>2 DEF Inductive

\* A copy with the server's revision derives from the server's content: a
\* revision number identifies one version of a block, whatever clients do.
THEOREM CopiesCoherent == Spec => []Coherent
  BY InductiveInvariant, InductiveImplies, PTL

\* No local copy gets ahead of the server's block.
THEOREM CopiesNeverAhead == Spec => []NeverAhead
  BY InductiveInvariant, InductiveImplies, PTL

\* A copy that dm_block_write or dm_block_wait marked invalid is outdated, so
\* dm_block_update makes it valid again.
THEOREM InvalidOutdated == Spec => []InvalidIsOutdated
  BY InductiveInvariant, InductiveImplies, PTL

\* No call dereferences the block of a reply without one.
THEOREM NoNullDereference == Spec => []NoFault
  BY InductiveInvariant, InductiveImplies, PTL

\* A block changes only by a WRITE made from the content it replaces.
UpdateKept ==
  \A b \in Blocks : blocks'[b] # blocks[b] =>
     \E k \in Conns : /\ req[k] # <<>> /\ req'[k] = Tail(req[k])
                      /\ Head(req[k]).type = "WRITE" /\ Head(req[k]).id = b
                      /\ Head(req[k]).base = blocks[b].data

THEOREM UpdatesNotLost == Spec => NoLostUpdate
  <1>1. Inductive /\ [Next]_vars => [UpdateKept]_vars
    <2>. SUFFICES ASSUME Inductive, Next, NEW b \in Blocks, blocks'[b] # blocks[b]
                  PROVE  \E k \in Conns : /\ req[k] # <<>> /\ req'[k] = Tail(req[k])
                                          /\ Head(req[k]).type = "WRITE" /\ Head(req[k]).id = b
                                          /\ Head(req[k]).base = blocks[b].data
      BY DEF UpdateKept
    <2>1. PICK k \in Conns : HandleWrite(k)
      <3>1. PICK k \in Conns : ServerStep(k)
        BY DEF Next, serverVars
      <3>. QED BY <3>1 DEF ServerStep, HandleMap, HandleUnmap, HandleUpdate, HandleWait, Disconnect
    <2>. DEFINE m == Head(req[k])
    <2>2. /\ req[k] # <<>> /\ m.type = "WRITE"
          /\ b # m.id => blocks'[b] = blocks[b]
          /\ WriteTaken(k, m) \/ WriteRefused(k, m)
      BY <2>1, WriteEffect
    <2>3. WriteTaken(k, m) /\ b = m.id
      BY <2>2 DEF WriteRefused
    <2>4. req'[k] = Tail(req[k])
      BY <2>3 DEF WriteTaken, Answer, Inductive, TypeInv, TypeOK, WireTypeOK
    <2>. QED BY <2>2, <2>3, <2>4 DEF WriteTaken
  <1>2. Spec => [][UpdateKept]_vars
    BY <1>1, InductiveInvariant, PTL DEF Spec
  <1>. QED BY <1>2 DEF NoLostUpdate, UpdateKept
-----------------------------------------------------------------------------
(***************************************************************************)
(* DMSystem implements SharedMemory, for any number of clients, servers    *)
(* and blocks.  The view of a client is what the mapping makes of it: the  *)
(* blocks it holds, its copies with the reply read, its call.  A client's  *)
(* step changes no view but its own; a server's step only that of the      *)
(* client it answers, and how the copies of a block it writes compare.     *)
(***************************************************************************)

\* The view of d changes in nothing.
SameView(d) ==
  /\ HeldBlocks(d)' = HeldBlocks(d) /\ Operation(d)' = Operation(d)
  /\ \A b \in Hosted : CopySoon(d, b)' = CopySoon(d, b) /\ RevSoon(d, b)' = RevSoon(d, b)

\* It changes in nothing but its call.
SameCopies(d) ==
  /\ HeldBlocks(d)' = HeldBlocks(d)
  /\ \A b \in HeldBlocks(d) : CopySoon(d, b)' = CopySoon(d, b) /\ RevSoon(d, b)' = RevSoon(d, b)

-----------------------------------------------------------------------------
(* The variables of SharedMemory, one client and one block at a time. *)

LEMMA HeldFacts ==
  ASSUME NEW c \in Clients
  PROVE  HeldBlocks(c) \subseteq Hosted /\ HeldBlocks(c) \subseteq mapped[c]
  BY DEF HeldBlocks

LEMMA FreshFacts ==
  /\ MemFresh \subseteq Clients \X Hosted
  /\ \A c \in Clients, b \in Hosted :
       <<c, b>> \in MemFresh <=> b \in HeldBlocks(c) /\ RevSoon(c, b) = blocks[b].rev
  BY DEF MemFresh

\* A set of pairs is what it is pair by pair.
LEMMA PairSets ==
  ASSUME NEW S, NEW T, S \subseteq Clients \X Hosted, T \subseteq Clients \X Hosted,
         \A c \in Clients, b \in Hosted : <<c, b>> \in S <=> <<c, b>> \in T
  PROVE  S = T
  <1>1. \A f \in Clients \X Hosted : f[1] \in Clients /\ f[2] \in Hosted /\ f = <<f[1], f[2]>>
    OBVIOUS
  <1>. QED BY <1>1

LEMMA FreshNext ==
  /\ MemFresh' \subseteq Clients \X Hosted
  /\ \A c \in Clients, b \in Hosted :
       <<c, b>> \in MemFresh' <=> b \in HeldBlocks(c)' /\ RevSoon(c, b)' = blocks'[b].rev
  BY DEF MemFresh

\* Steps that only concern the calls.
LEMMA MemorySame ==
  ASSUME blocks' = blocks, \A d \in Clients : SameCopies(d)
  PROVE  MemData' = MemData /\ MemHeld' = MemHeld /\ MemCopy' = MemCopy /\ MemFresh' = MemFresh
  <1>1. MemData' = MemData
    BY DEF MemData
  <1>2. MemHeld' = MemHeld
    BY DEF MemHeld, SameCopies
  <1>3. MemCopy' = MemCopy
    BY DEF MemCopy, SameCopies
  <1>4. \A c \in Clients, b \in Hosted : <<c, b>> \in MemFresh' <=> <<c, b>> \in MemFresh
    <2>. SUFFICES ASSUME NEW c \in Clients, NEW b \in Hosted
                  PROVE  <<c, b>> \in MemFresh' <=> <<c, b>> \in MemFresh
      OBVIOUS
    <2>1. HeldBlocks(c)' = HeldBlocks(c) /\ (b \in HeldBlocks(c) => RevSoon(c, b)' = RevSoon(c, b))
      BY DEF SameCopies
    <2>2. <<c, b>> \in MemFresh <=> b \in HeldBlocks(c) /\ RevSoon(c, b) = blocks[b].rev
      BY FreshFacts
    <2>3. <<c, b>> \in MemFresh' <=> b \in HeldBlocks(c)' /\ RevSoon(c, b)' = blocks'[b].rev
      BY FreshNext
    <2>. QED BY <2>1, <2>2, <2>3
  <1>5. MemFresh' = MemFresh
    BY <1>4, FreshFacts, FreshNext, PairSets
  <1>. QED BY <1>1, <1>2, <1>3, <1>5

LEMMA OpNext ==
  ASSUME NEW c \in Clients, \A d \in Clients : d # c => Operation(d)' = Operation(d)
  PROVE  MemOp' = [MemOp EXCEPT ![c] = Operation(c)']
  BY DEF MemOp

LEMMA HeldNext ==
  ASSUME NEW c \in Clients, \A d \in Clients : d # c => HeldBlocks(d)' = HeldBlocks(d)
  PROVE  MemHeld' = [MemHeld EXCEPT ![c] = HeldBlocks(c)']
  BY DEF MemHeld

\* The copy of b is the only one that changes.
LEMMA CopyNext ==
  ASSUME NEW c \in Clients, NEW b \in Hosted, NEW v,
         \A d \in Clients : d # c => SameCopies(d),
         \A x \in Hosted : x # b => /\ x \in HeldBlocks(c)' <=> x \in HeldBlocks(c)
                                    /\ CopySoon(c, x)' = CopySoon(c, x),
         v = IF b \in HeldBlocks(c)' THEN CopySoon(c, b)' ELSE Zero
  PROVE  MemCopy' = [MemCopy EXCEPT ![c][b] = v]
  <1>1. ASSUME NEW d \in Clients, NEW x \in Hosted
        PROVE  MemCopy'[d][x] = IF d = c /\ x = b THEN v ELSE MemCopy[d][x]
    BY DEF MemCopy, SameCopies
  <1>2. /\ MemCopy = [d \in Clients |-> [x \in Hosted |-> MemCopy[d][x]]]
        /\ MemCopy' = [d \in Clients |-> [x \in Hosted |-> MemCopy'[d][x]]]
    BY DEF MemCopy
  <1>. QED BY <1>1, <1>2

LEMMA LeftSame ==
  ASSUME \A k \in Conns : /\ Orphan(k)' <=> Orphan(k)
                          /\ Orphan(k) => req'[k] = req[k]
  PROVE  MemLeft' = MemLeft
  <1>1. {x \in Conns : Orphan(x)}' = {x \in Conns : Orphan(x)}
    OBVIOUS
  <1>. QED BY <1>1 DEF MemLeft, Content

-----------------------------------------------------------------------------
(* Views. *)

LEMMA ViewSame ==
  ASSUME NEW d \in Clients, call'[d] = call[d], gen'[d] = gen[d], mapped'[d] = mapped[d],
         local'[d] = local[d],
         Busy(d) => rep'[Sock(d, call[d].id)] = rep[Sock(d, call[d].id)]
  PROVE  SameView(d)
  <1>1. /\ Busy(d)' <=> Busy(d)
        /\ Sock(d, call[d].id)' = Sock(d, call[d].id)
    BY DEF Busy, Sock
  <1>2. Answered(d)' <=> Answered(d)
    BY <1>1 DEF Answered, Busy, Sock
  <1>3. Answered(d) => Ack(d)' = Ack(d)
    BY <1>1 DEF Ack, Answered, Sock
  <1>4. \A ops, b : Acked(d, ops, b)' <=> Acked(d, ops, b)
    BY <1>2, <1>3 DEF Acked
  <1>5. HeldBlocks(d)' = HeldBlocks(d)
    BY <1>2, <1>4 DEF HeldBlocks
  <1>6. Operation(d)' = Operation(d)
    BY <1>1, <1>2, <1>3 DEF Operation
  <1>7. ASSUME NEW b PROVE CopySoon(d, b)' = CopySoon(d, b) /\ RevSoon(d, b)' = RevSoon(d, b)
    BY <1>3, <1>4 DEF CopySoon, RevSoon, Content, Acked
  <1>. QED BY <1>5, <1>6, <1>7 DEF SameView

LEMMA SameViewCopies ==
  ASSUME NEW d \in Clients, SameView(d)
  PROVE  SameCopies(d) /\ Operation(d)' = Operation(d)
  BY HeldFacts DEF SameView, SameCopies

\* A client that is not waiting for an answer that has come.
LEMMA PlainView ==
  ASSUME NEW c \in Clients, ~Answered(c)
  PROVE  /\ HeldBlocks(c) = {b \in mapped[c] \cap Hosted : call[c] # [op |-> "MAP", id |-> b]}
         /\ \A b : CopySoon(c, b) = local[c][b].data /\ RevSoon(c, b) = local[c][b].rev
  BY DEF HeldBlocks, Acked, CopySoon, RevSoon

LEMMA IdleView ==
  ASSUME NEW c \in Clients, call[c] \in {Idle, Off}
  PROVE  /\ ~Busy(c) /\ ~Answered(c)
         /\ HeldBlocks(c) = mapped[c] \cap Hosted /\ Operation(c) = [state |-> "none"]
         /\ \A b : CopySoon(c, b) = local[c][b].data /\ RevSoon(c, b) = local[c][b].rev
  <1>1. ~Busy(c) /\ ~Answered(c)
    BY DEF Answered, Busy, Idle, Off, Calls
  <1>2. \A b : call[c] # [op |-> "MAP", id |-> b]
    BY DEF Idle, Off
  <1>. QED BY <1>1, <1>2, PlainView DEF Operation

\* The same of the next state.
LEMMA IdleNext ==
  ASSUME NEW c \in Clients, call'[c] \in {Idle, Off}
  PROVE  /\ HeldBlocks(c)' = mapped'[c] \cap Hosted /\ Operation(c)' = [state |-> "none"]
         /\ \A b : CopySoon(c, b)' = local'[c][b].data /\ RevSoon(c, b)' = local'[c][b].rev
  <1>1. ~Busy(c)' /\ ~Answered(c)'
    BY DEF Answered, Busy, Idle, Off, Calls
  <1>2. \A b : call'[c] # [op |-> "MAP", id |-> b]
    BY DEF Idle, Off
  <1>. QED BY <1>1, <1>2 DEF HeldBlocks, Acked, CopySoon, RevSoon, Operation

\* No copy will be ahead of the server.
LEMMA SoonBounded ==
  ASSUME Inductive, NEW c \in Clients, NEW b \in HeldBlocks(c)
  PROVE  RevSoon(c, b) \in Nat /\ RevSoon(c, b) <= blocks[b].rev
  <1>1. b \in Blocks /\ b \in Hosted /\ b \in mapped[c]
    BY HeldFacts, WireAssumption
  <1>2. Alive(c)
    BY <1>1 DEF Inductive, CallOK
  <1>3. CopyOK(c, b) /\ local[c][b].rev \in Nat /\ blocks[b].rev \in Nat
    BY <1>1, TypeFacts DEF Inductive
  <1>4. CASE ~Answered(c)
    <2>1. b \in Held(c)
      BY <1>1, <1>4, PlainView DEF Held
    <2>. QED BY <1>2, <1>3, <1>4, <2>1, PlainView DEF CopyOK, Agrees
  <1>5. CASE Answered(c) /\ call[c].id # b
    <2>1. RevSoon(c, b) = local[c][b].rev
      BY <1>5 DEF RevSoon, Acked
    <2>2. b \in Held(c)
      BY <1>1, <1>5 DEF Held
    <2>. QED BY <1>2, <1>3, <2>1, <2>2 DEF CopyOK, Agrees
  <1>6. CASE Answered(c) /\ call[c].id = b
    <2>1. ReplyOK(c, Ack(c)) /\ Ack(c) \in Reply
      BY <1>6, ReceiveFacts DEF Answered
    <2>2. Ack(c).block # NoBlock => Ack(c).block.rev \in Nat
      BY <2>1 DEF Reply, BlockInfo, Revs
    <2>3. call[c].op # "MAP" => b \in Held(c)
      BY <1>1 DEF Held
    <2>4. CASE Acked(c, {"MAP", "UPDATE"}, b)
      <3>1. RevSoon(c, b) = Ack(c).block.rev /\ call[c].op \in {"MAP", "UPDATE"} /\ Ack(c).type = "ACK"
        BY <2>4 DEF RevSoon, Acked
      <3>2. /\ Ack(c).block # NoBlock
            /\ Ack(c).block.data # NoData => Ack(c).block.rev <= blocks[b].rev
            /\ Ack(c).block.data = NoData => call[c].op = "UPDATE" /\ Ack(c).block.rev = local[c][b].rev
        BY <1>1, <1>6, <2>1, <3>1 DEF ReplyOK, Agrees
      <3>. QED BY <1>2, <1>3, <2>2, <2>3, <3>1, <3>2 DEF CopyOK, Agrees
    <2>5. CASE Acked(c, {"WRITE"}, b)
      <3>1. /\ RevSoon(c, b) = local[c][b].rev + 1 /\ call[c].op = "WRITE" /\ Ack(c).type = "ACK"
        BY <2>5 DEF RevSoon, Acked
      <3>2. local[c][b].rev + 1 <= blocks[b].rev
        BY <1>1, <1>6, <2>1, <3>1 DEF ReplyOK, Agrees
      <3>. QED BY <1>3, <3>1, <3>2
    <2>6. CASE ~Acked(c, {"MAP", "UPDATE"}, b) /\ ~Acked(c, {"WRITE"}, b)
      <3>1. RevSoon(c, b) = local[c][b].rev
        BY <2>6 DEF RevSoon
      <3>2. call[c].op # "MAP"
        BY <1>1, <1>6, <2>1, <2>6 DEF ReplyOK, Acked
      <3>. QED BY <1>2, <1>3, <2>3, <3>1, <3>2 DEF CopyOK, Agrees
    <2>. QED BY <2>4, <2>5, <2>6
  <1>. QED BY <1>4, <1>5, <1>6

-----------------------------------------------------------------------------
(* The clients. *)

LEMMA OtherView ==
  ASSUME TypeInv, NEW c \in Clients, NEW d \in Clients, d # c,
         call'[d] = call[d], gen'[d] = gen[d], mapped'[d] = mapped[d], local'[d] = local[d],
         \A k \in Conns : k[1] # c => rep'[k] = rep[k]
  PROVE  SameView(d)
  <1>1. Busy(d) => Sock(d, call[d].id) \in Conns /\ Sock(d, call[d].id)[1] = d
    BY CallTypes DEF Sock
  <1>. QED BY <1>1, ViewSame

LEMMA LeftClient ==
  ASSUME blocks' = blocks,
         \A k \in Conns : \/ link[k] = "open" /\ link'[k] = "open"
                          \/ req'[k] = req[k] /\ (link'[k] = "open" <=> link[k] = "open")
                          \/ req[k] = <<>> /\ req'[k] = <<>>
  PROVE  MemLeft' = MemLeft
  <1>1. ASSUME NEW k \in Conns PROVE (Orphan(k)' <=> Orphan(k)) /\ (Orphan(k) => req'[k] = req[k])
    BY DEF Orphan, Found
  <1>. QED BY <1>1, LeftSame

\* Only the call of c changes.
LEMMA CallStep ==
  ASSUME NEW c \in Clients, \A d \in Clients : d # c => SameView(d), SameCopies(c),
         blocks' = blocks, MemLeft' = MemLeft
  PROVE  /\ UNCHANGED <<MemData, MemHeld, MemCopy, MemFresh, MemLeft>>
         /\ MemOp' = [MemOp EXCEPT ![c] = Operation(c)']
  <1>1. \A d \in Clients : SameCopies(d) /\ (d # c => Operation(d)' = Operation(d))
    BY SameViewCopies
  <1>. QED BY <1>1, MemorySame, OpNext

LEMMA OpSame ==
  ASSUME NEW c \in Clients, MemOp' = [MemOp EXCEPT ![c] = Operation(c)'], Operation(c)' = Operation(c)
  PROVE  MemOp' = MemOp
  BY DEF MemOp

LEMMA DmInitSeen ==
  ASSUME Inductive, NEW c \in Clients, DmInit(c), UNCHANGED serverVars
  PROVE  UNCHANGED Memory!vars
  <1>1. /\ call[c] \in {Off, Idle} /\ call'[c] = Idle
        /\ \A d \in Clients : d # c => call'[d] = call[d] /\ gen'[d] = gen[d]
        /\ mapped' = mapped /\ local' = local /\ req' = req /\ rep' = rep /\ blocks' = blocks
        /\ \A k \in Conns : link'[k] = IF k[1] = c /\ k[3] = gen[c] + 1 THEN "open" ELSE link[k]
    BY DEF DmInit, serverVars, Inductive, TypeInv, TypeOK, ClientTypeOK
  <1>2. \A d \in Clients : d # c => SameView(d)
    BY <1>1, OtherView DEF Inductive
  <1>3. SameCopies(c) /\ Operation(c)' = Operation(c)
    <2>1. /\ HeldBlocks(c) = mapped[c] \cap Hosted /\ Operation(c) = [state |-> "none"]
          /\ \A b : CopySoon(c, b) = local[c][b].data /\ RevSoon(c, b) = local[c][b].rev
      BY <1>1, IdleView
    <2>2. /\ HeldBlocks(c)' = mapped'[c] \cap Hosted /\ Operation(c)' = [state |-> "none"]
          /\ \A b : CopySoon(c, b)' = local'[c][b].data /\ RevSoon(c, b)' = local'[c][b].rev
      BY <1>1, IdleNext
    <2>. QED BY <1>1, <2>1, <2>2 DEF SameCopies
  <1>4. MemLeft' = MemLeft
    <2>1. ASSUME NEW k \in Conns, k[1] = c, k[3] = gen[c] + 1 PROVE req[k] = <<>>
      <3>1. gen[c] \in Nat /\ ConnOK(k)
        BY TypeFacts DEF Inductive
      <3>. QED BY <2>1, <3>1 DEF ConnOK
    <2>. QED BY <1>1, <2>1, LeftClient
  <1>. QED BY <1>1, <1>2, <1>3, <1>4, CallStep, OpSame DEF Memory!vars

\* The processes' deaths.
LEMMA ExitSeen ==
  ASSUME Inductive, NEW c \in Clients, Exit(c), UNCHANGED serverVars
  PROVE  Memory!Quit(c)
  <1>1. /\ Alive(c) /\ call'[c] = Off /\ mapped'[c] = {} /\ req' = req /\ blocks' = blocks
        /\ \A d \in Clients : d # c => /\ call'[d] = call[d] /\ gen'[d] = gen[d]
                                      /\ mapped'[d] = mapped[d] /\ local'[d] = local[d]
        /\ \A k \in Conns : k[1] # c => rep'[k] = rep[k]
        /\ \A k \in Conns : link'[k] = IF k[1] = c /\ link[k] = "open" THEN "closed" ELSE link[k]
    BY DEF Exit, Reset, CloseAll, serverVars, Inductive, TypeInv, TypeOK, ClientTypeOK
  <1>2. \A d \in Clients : d # c => SameView(d)
    BY <1>1, OtherView DEF Inductive
  <1>3. HeldBlocks(c)' = {} /\ Operation(c)' = [state |-> "none"]
    BY <1>1, IdleNext
  <1>4. MemHeld' = [MemHeld EXCEPT ![c] = {}] /\ MemOp' = [MemOp EXCEPT ![c] = [state |-> "none"]]
    BY <1>2, <1>3, HeldNext, OpNext DEF SameView
  <1>5. MemCopy' = [MemCopy EXCEPT ![c] = [b \in Hosted |-> Zero]]
    <2>1. ASSUME NEW d \in Clients
          PROVE  MemCopy'[d] = IF d = c THEN [b \in Hosted |-> Zero] ELSE MemCopy[d]
      BY <1>2, <1>3 DEF MemCopy, SameView
    <2>2. MemCopy = [d \in Clients |-> MemCopy[d]] /\ MemCopy' = [d \in Clients |-> MemCopy'[d]]
      BY DEF MemCopy
    <2>. QED BY <2>1, <2>2
  <1>6. MemFresh' = {f \in MemFresh : f[1] # c}
    <2>. DEFINE S == {f \in MemFresh : f[1] # c}
    <2>1. ASSUME NEW d \in Clients, NEW b \in Hosted
          PROVE  <<d, b>> \in MemFresh' <=> <<d, b>> \in S
      <3>1. <<d, b>> \in MemFresh' <=> b \in HeldBlocks(d)' /\ RevSoon(d, b)' = blocks[b].rev
        BY <1>1, FreshNext
      <3>2. <<d, b>> \in S <=> d # c /\ b \in HeldBlocks(d) /\ RevSoon(d, b) = blocks[b].rev
        BY FreshFacts
      <3>. QED BY <1>2, <1>3, <3>1, <3>2 DEF SameView
    <2>2. S \subseteq Clients \X Hosted
      BY FreshFacts
    <2>. QED BY <2>1, <2>2, FreshNext, PairSets
  <1>. DEFINE W == {[id |-> b, data |-> MemCopy[c][b]] :
                      b \in {x \in Hosted : /\ MemOp[c] = Memory!Called("WRITE", x)
                                            /\ <<c, x>> \in MemFresh}}
  <1>7. ASSUME NEW b \in Hosted, MemOp[c] = Memory!Called("WRITE", b)
        PROVE  /\ Sock(c, b) \in Conns /\ Sock(c, b)[1] = c /\ link[Sock(c, b)] = "open"
               /\ req[Sock(c, b)] # <<>> /\ Found(Sock(c, b), b)
               /\ Head(req[Sock(c, b)]).type = "WRITE" /\ Head(req[Sock(c, b)]).id = b
               /\ Head(req[Sock(c, b)]).rev = local[c][b].rev
               /\ Content(Head(req[Sock(c, b)])) = MemCopy[c][b]
               /\ <<c, b>> \in MemFresh <=> local[c][b].rev = blocks[b].rev
    <2>1. Operation(c) = [state |-> "called", name |-> "WRITE", id |-> b]
      BY <1>7 DEF MemOp, Memory!Called
    <2>2. Busy(c) /\ call[c].op = "WRITE" /\ call[c].id = b /\ ~Answered(c)
      BY <2>1 DEF Operation
    <2>3. b \in Blocks
      BY WireAssumption
    <2>4. /\ CallOK(c) /\ local[c][b].id = b /\ local[c][b].data \in Data
      BY <2>3, TypeFacts DEF Inductive, CopyOK
    <2>5. /\ Sock(c, b) \in Conns /\ Sock(c, b)[1] = c /\ req[Sock(c, b)] # <<>>
          /\ Head(req[Sock(c, b)]) = RequestOf(c) /\ b \in mapped[c]
      BY <2>2, <2>4, CallTypes DEF CallOK, Answered, Sock, Inductive
    <2>6. link[Sock(c, b)] = "open"
      BY <1>1, <2>3, <2>5, EngagedConn
    <2>7. Head(req[Sock(c, b)]) = WriteRequest(local[c][b], base[c][b])
      BY <2>2, <2>5 DEF RequestOf
    <2>8. b \in HeldBlocks(c) /\ CopySoon(c, b) = local[c][b].data /\ RevSoon(c, b) = local[c][b].rev
      <3>1. /\ HeldBlocks(c) = {x \in mapped[c] \cap Hosted : call[c] # [op |-> "MAP", id |-> x]}
            /\ \A x : CopySoon(c, x) = local[c][x].data /\ RevSoon(c, x) = local[c][x].rev
        BY <2>2, PlainView
      <3>2. call[c] # [op |-> "MAP", id |-> b]
        BY <2>2
      <3>. QED BY <2>5, <3>1, <3>2
    <2>9. MemCopy[c][b] = local[c][b].data
      BY <2>8 DEF MemCopy
    <2>10. Content(Head(req[Sock(c, b)])) = local[c][b].data
      BY <2>4, <2>7, WireAssumption DEF WriteRequest, Content
    <2>11. Found(Sock(c, b), b)
      BY DEF Found, Sock
    <2>12. <<c, b>> \in MemFresh <=> local[c][b].rev = blocks[b].rev
      BY <2>8, FreshFacts
    <2>13. /\ Head(req[Sock(c, b)]).type = "WRITE" /\ Head(req[Sock(c, b)]).id = b
           /\ Head(req[Sock(c, b)]).rev = local[c][b].rev
      BY <2>4, <2>7 DEF WriteRequest
    <2>. QED BY <2>5, <2>6, <2>9, <2>10, <2>11, <2>12, <2>13
  <1>8. ASSUME NEW k \in Conns
        PROVE  Orphan(k)' <=> \/ Orphan(k)
                              \/ \E b \in Hosted : /\ MemOp[c] = Memory!Called("WRITE", b)
                                                   /\ <<c, b>> \in MemFresh /\ k = Sock(c, b)
    <2>1. Orphan(k) => Orphan(k)'
      BY <1>1 DEF Orphan, Found
    <2>2. ASSUME NEW b \in Hosted, MemOp[c] = Memory!Called("WRITE", b), <<c, b>> \in MemFresh,
                 k = Sock(c, b)
          PROVE  Orphan(k)'
      <3>1. /\ link[k] = "open" /\ k[1] = c /\ req[k] # <<>> /\ Head(req[k]).type = "WRITE"
            /\ Head(req[k]).id = b /\ Found(k, b) /\ Head(req[k]).rev = blocks[b].rev
        BY <1>7, <2>2
      <3>. QED BY <1>1, <3>1 DEF Orphan, Found
    <2>3. ASSUME Orphan(k)', ~Orphan(k)
          PROVE  \E b \in Hosted : /\ MemOp[c] = Memory!Called("WRITE", b)
                                   /\ <<c, b>> \in MemFresh /\ k = Sock(c, b)
      <3>0. PICK b : b = Head(req[k]).id
        OBVIOUS
      <3>1. /\ req[k] # <<>> /\ link[k] = "open" /\ k[1] = c /\ Head(req[k]).type = "WRITE"
            /\ Found(k, b) /\ Head(req[k]).rev = blocks[b].rev
        BY <1>1, <2>3, <3>0 DEF Orphan, Found
      <3>2. Engaged(c, k) /\ rep[k] = <<>> /\ Head(req[k]) = RequestOf(c) /\ call[c].id \in Blocks
        BY <3>1, EngagedConn
      <3>3. local[c][call[c].id].id = call[c].id
        BY <3>2 DEF Inductive, CopyOK
      <3>4. call[c].op = "WRITE" /\ call[c].id = b
        BY <3>0, <3>1, <3>2, <3>3 DEF RequestOf, ShallowRequest, WriteRequest
      <3>5. ~Answered(c) /\ b \in Hosted
        BY <3>1, <3>2 DEF Answered, Engaged, Found
      <3>6. MemOp[c] = Memory!Called("WRITE", b)
        BY <3>2, <3>4, <3>5 DEF MemOp, Operation, Memory!Called, Engaged
      <3>7. Head(req[k]).rev = local[c][b].rev /\ k = Sock(c, b)
        <4>1. Head(req[k]) = WriteRequest(local[c][b], base[c][b])
          BY <3>2, <3>4 DEF RequestOf
        <4>. QED BY <3>2, <3>4, <4>1 DEF WriteRequest, Engaged
      <3>8. <<c, b>> \in MemFresh
        BY <1>7, <3>1, <3>5, <3>6, <3>7
      <3>. QED BY <3>5, <3>6, <3>7, <3>8
    <2>. QED BY <2>1, <2>2, <2>3
  <1>9. MemLeft' = MemLeft \cup W
    <2>1. ASSUME NEW w \in MemLeft' PROVE w \in MemLeft \cup W
      <3>1. PICK k \in Conns : Orphan(k)' /\ w = [id |-> Head(req[k]).id, data |-> Content(Head(req[k]))]
        BY <1>1, <2>1 DEF MemLeft, Content
      <3>2. CASE Orphan(k)
        BY <3>1, <3>2 DEF MemLeft
      <3>3. CASE ~Orphan(k)
        <4>1. PICK b \in Hosted : /\ MemOp[c] = Memory!Called("WRITE", b)
                                  /\ <<c, b>> \in MemFresh /\ k = Sock(c, b)
          BY <1>8, <3>1, <3>3
        <4>2. Head(req[k]).id = b /\ Content(Head(req[k])) = MemCopy[c][b]
          BY <1>7, <4>1
        <4>. QED BY <3>1, <4>1, <4>2
      <3>. QED BY <3>2, <3>3
    <2>2. ASSUME NEW w \in MemLeft PROVE w \in MemLeft'
      <3>1. PICK k \in Conns : Orphan(k) /\ w = [id |-> Head(req[k]).id, data |-> Content(Head(req[k]))]
        BY <2>2 DEF MemLeft
      <3>2. Orphan(k)'
        BY <1>8, <3>1
      <3>. QED BY <1>1, <3>1, <3>2 DEF MemLeft, Content
    <2>3. ASSUME NEW w \in W PROVE w \in MemLeft'
      <3>1. PICK b \in Hosted : /\ MemOp[c] = Memory!Called("WRITE", b) /\ <<c, b>> \in MemFresh
                                /\ w = [id |-> b, data |-> MemCopy[c][b]]
        BY <2>3
      <3>2. PICK k \in Conns : k = Sock(c, b)
        BY <1>7, <3>1
      <3>3. Orphan(k)'
        BY <1>8, <3>1, <3>2
      <3>4. Head(req[k]).id = b /\ Content(Head(req[k])) = MemCopy[c][b]
        BY <1>7, <3>1, <3>2
      <3>. QED BY <1>1, <3>1, <3>3, <3>4 DEF MemLeft, Content
    <2>. QED BY <2>1, <2>2, <2>3
  <1>10. MemData' = MemData
    BY <1>1 DEF MemData
  <1>. QED BY <1>4, <1>5, <1>6, <1>9, <1>10 DEF Memory!Quit, Memory!NoOp

LEMMA FreshSame ==
  ASSUME blocks' = blocks,
         \A d \in Clients : /\ HeldBlocks(d)' = HeldBlocks(d)
                            /\ \A b \in HeldBlocks(d) : RevSoon(d, b)' = RevSoon(d, b)
  PROVE  MemFresh' = MemFresh
  <1>1. \A c \in Clients, b \in Hosted : <<c, b>> \in MemFresh' <=> <<c, b>> \in MemFresh
    <2>. SUFFICES ASSUME NEW c \in Clients, NEW b \in Hosted
                  PROVE  <<c, b>> \in MemFresh' <=> <<c, b>> \in MemFresh
      OBVIOUS
    <2>1. HeldBlocks(c)' = HeldBlocks(c) /\ (b \in HeldBlocks(c) => RevSoon(c, b)' = RevSoon(c, b))
      OBVIOUS
    <2>2. <<c, b>> \in MemFresh <=> b \in HeldBlocks(c) /\ RevSoon(c, b) = blocks[b].rev
      BY FreshFacts
    <2>3. <<c, b>> \in MemFresh' <=> b \in HeldBlocks(c)' /\ RevSoon(c, b)' = blocks'[b].rev
      BY FreshNext
    <2>. QED BY <2>1, <2>2, <2>3
  <1>. QED BY <1>1, FreshFacts, FreshNext, PairSets

LEMMA StoreSeen ==
  ASSUME Inductive, NEW c \in Clients, NEW b \in Blocks, NEW x \in Data, Store(c, b, x),
         UNCHANGED serverVars
  PROVE  (Memory!Store(c, b, x) /\ b \in Hosted) \/ UNCHANGED Memory!vars
  <1>1. /\ call[c] = Idle /\ b \in mapped[c] /\ blocks' = blocks
        /\ UNCHANGED <<mapped, call, gen, link, req, rep>>
        /\ SetCopy(c, b, [local[c][b] EXCEPT !.data = x])
    BY DEF Store, wireVars, serverVars
  <1>2. /\ local'[c][b] = [local[c][b] EXCEPT !.data = x] /\ local[c][b] \in Copy
        /\ \A y \in Blocks : y # b => local'[c][y] = local[c][y]
        /\ \A d \in Clients : d # c => local'[d] = local[d]
    BY <1>1, CopyFrame, LocalTypes DEF Inductive
  <1>3. local'[c][b].rev = local[c][b].rev /\ local'[c][b].data = x
    BY <1>2 DEF Copy
  <1>4. \A d \in Clients : d # c => SameView(d)
    BY <1>1, <1>2, OtherView DEF Inductive
  <1>5. \A d \in Clients : d # c => SameCopies(d) /\ Operation(d)' = Operation(d)
    BY <1>4, SameViewCopies
  <1>6. /\ HeldBlocks(c) = mapped[c] \cap Hosted /\ Operation(c) = [state |-> "none"]
        /\ \A y : CopySoon(c, y) = local[c][y].data /\ RevSoon(c, y) = local[c][y].rev
    BY <1>1, IdleView
  <1>7. /\ HeldBlocks(c)' = mapped'[c] \cap Hosted /\ Operation(c)' = [state |-> "none"]
        /\ \A y : CopySoon(c, y)' = local'[c][y].data /\ RevSoon(c, y)' = local'[c][y].rev
    <2>1. call'[c] = Idle
      BY <1>1
    <2>. QED BY <2>1, IdleNext
  <1>8. MemLeft' = MemLeft
    BY <1>1, LeftClient
  <1>9. Hosted \subseteq Blocks
    BY WireAssumption
  <1>10. MemData' = MemData
    BY <1>1 DEF MemData
  <1>11. MemOp' = MemOp
    BY <1>5, <1>6, <1>7 DEF MemOp
  <1>12. HeldBlocks(c)' = HeldBlocks(c) /\ \A y \in Hosted : RevSoon(c, y)' = RevSoon(c, y)
    <2>1. HeldBlocks(c)' = HeldBlocks(c)
      BY <1>1, <1>6, <1>7
    <2>2. ASSUME NEW y \in Hosted PROVE RevSoon(c, y)' = RevSoon(c, y)
      <3>1. local'[c][y].rev = local[c][y].rev
        BY <1>2, <1>3, <1>9
      <3>. QED BY <1>6, <1>7, <3>1
    <2>. QED BY <2>1, <2>2
  <1>13. MemHeld' = MemHeld
    BY <1>5, <1>12 DEF MemHeld, SameCopies
  <1>14. MemFresh' = MemFresh
    <2>1. ASSUME NEW d \in Clients
          PROVE  /\ HeldBlocks(d)' = HeldBlocks(d)
                 /\ \A y \in HeldBlocks(d) : RevSoon(d, y)' = RevSoon(d, y)
      BY <1>5, <1>12, HeldFacts DEF SameCopies
    <2>. QED BY <1>1, <2>1, FreshSame
  <1>15. \A y \in Hosted : y # b => CopySoon(c, y)' = CopySoon(c, y)
    BY <1>2, <1>6, <1>7, <1>9
  <1>16. CASE b \in Hosted
    <2>1. b \in HeldBlocks(c) /\ b \in HeldBlocks(c)' /\ CopySoon(c, b)' = x
      BY <1>1, <1>3, <1>6, <1>7, <1>12, <1>16
    <2>2. MemCopy' = [MemCopy EXCEPT ![c][b] = x]
      BY <1>5, <1>12, <1>15, <1>16, <2>1, CopyNext
    <2>3. MemOp[c] = [state |-> "none"] /\ b \in MemHeld[c]
      BY <1>6, <2>1 DEF MemOp, MemHeld
    <2>. QED BY <1>8, <1>10, <1>11, <1>13, <1>14, <1>16, <2>2, <2>3 DEF Memory!Store, Memory!NoOp
  <1>17. CASE b \notin Hosted
    <2>1. SameCopies(c)
      BY <1>12, <1>15, <1>17, HeldFacts DEF SameCopies
    <2>2. MemCopy' = MemCopy
      BY <1>1, <1>5, <2>1, MemorySame
    <2>. QED BY <1>8, <1>10, <1>11, <1>13, <1>14, <2>2 DEF Memory!vars
  <1>. QED BY <1>16, <1>17

\* A call begun: the request is on its way.
LEMMA Begun ==
  ASSUME Inductive, NEW c \in Clients, NEW b \in Blocks, NEW op \in Calls, NEW m,
         call[c] = Idle, Send(c, op, b, m), UNCHANGED serverVars,
         \A d \in Clients : d # c => mapped'[d] = mapped[d] /\ local'[d] = local[d],
         IF op = "MAP"
         THEN /\ b \notin mapped[c] /\ mapped'[c] = mapped[c] \cup {b}
              /\ \A x \in Blocks : x # b => local'[c][x] = local[c][x]
         ELSE b \in mapped[c] /\ mapped'[c] = mapped[c] /\ local'[c] = local[c]
  PROVE  (\E name \in Memory!Names, x \in Hosted : Memory!Begin(c, name, x)) \/ UNCHANGED Memory!vars
  <1>. DEFINE s == Sock(c, b)
  <1>1. /\ call'[c] = [op |-> op, id |-> b] /\ gen' = gen /\ link' = link /\ rep' = rep
        /\ \A d \in Clients : d # c => call'[d] = call[d]
        /\ req' = [req EXCEPT ![s] = Append(@, m)] /\ blocks' = blocks
    BY DEF Send, serverVars, Inductive, TypeInv, TypeOK, ClientTypeOK
  <1>2. \A d \in Clients : d # c => SameView(d)
    BY <1>1, OtherView DEF Inductive
  <1>3. s \in Conns /\ link[s] = "open" /\ rep[s] = <<>>
    <2>1. Alive(c) /\ ~Busy(c)
      BY IdleIsNoCall DEF Alive, Busy
    <2>2. s \in Conns /\ s[1] = c /\ s[3] = gen[c]
      BY <2>1, CallTypes DEF Inductive, Sock
    <2>3. ConnOK(s) /\ ~Engaged(c, s)
      BY <2>1, <2>2 DEF Inductive, Engaged
    <2>. QED BY <2>1, <2>2, <2>3 DEF ConnOK
  <1>4. MemLeft' = MemLeft
    <2>1. ASSUME NEW k \in Conns, k # s PROVE req'[k] = req[k]
      BY <1>1, <2>1 DEF Inductive, TypeInv, TypeOK, WireTypeOK
    <2>2. \A k \in Conns : \/ link[k] = "open" /\ link'[k] = "open"
                           \/ req'[k] = req[k] /\ (link'[k] = "open" <=> link[k] = "open")
      BY <1>1, <1>3, <2>1
    <2>. QED BY <1>1, <2>2, LeftClient
  <1>5. ~Answered(c)' /\ Busy(c)'
    <2>1. rep'[s] = <<>> /\ Sock(c, b)' = s
      BY <1>1, <1>3 DEF Sock
    <2>. QED BY <1>1, <2>1 DEF Answered, Busy, Sock
  <1>6. /\ HeldBlocks(c)' = {x \in mapped'[c] \cap Hosted : ~(op = "MAP" /\ x = b)}
        /\ \A x : CopySoon(c, x)' = local'[c][x].data /\ RevSoon(c, x)' = local'[c][x].rev
        /\ Operation(c)' = IF b \in Hosted THEN Memory!Called(op, b) ELSE [state |-> "none"]
    BY <1>1, <1>5 DEF HeldBlocks, Acked, CopySoon, RevSoon, Operation, Memory!Called
  <1>7. /\ HeldBlocks(c) = mapped[c] \cap Hosted /\ Operation(c) = [state |-> "none"]
        /\ \A x : CopySoon(c, x) = local[c][x].data /\ RevSoon(c, x) = local[c][x].rev
    BY IdleView
  <1>8. SameCopies(c)
    <2>1. HeldBlocks(c)' = HeldBlocks(c)
      BY <1>6, <1>7
    <2>2. \A x \in HeldBlocks(c) : local'[c][x] = local[c][x]
      BY <1>7, WireAssumption
    <2>. QED BY <1>6, <1>7, <2>1, <2>2 DEF SameCopies
  <1>9. /\ UNCHANGED <<MemData, MemHeld, MemCopy, MemFresh, MemLeft>>
        /\ MemOp' = [MemOp EXCEPT ![c] = Operation(c)']
    BY <1>1, <1>2, <1>4, <1>8, CallStep
  <1>10. CASE b \in Hosted
    <2>1. MemOp[c] = [state |-> "none"] /\ (op = "MAP" <=> b \notin MemHeld[c])
      BY <1>7, <1>10 DEF MemOp, MemHeld
    <2>2. op \in Memory!Names
      BY DEF Calls, Memory!Names
    <2>3. Memory!Begin(c, op, b)
      BY <1>6, <1>9, <1>10, <2>1 DEF Memory!Begin, Memory!NoOp
    <2>. QED BY <1>10, <2>2, <2>3
  <1>11. CASE b \notin Hosted
    BY <1>6, <1>7, <1>9, <1>11, OpSame DEF Memory!vars
  <1>. QED BY <1>10, <1>11

LEMMA BeginSeen ==
  ASSUME Inductive, NEW c \in Clients, Begin(c), UNCHANGED serverVars
  PROVE  (\E b \in Hosted : Memory!Step(c, b)) \/ UNCHANGED Memory!vars
  <1>1. PICK b \in Blocks : \/ \E x \in Data : BeginMap(c, b, x) \/ Store(c, b, x)
                            \/ BeginUnmap(c, b) \/ BeginUpdate(c, b)
                            \/ BeginWrite(c, b) \/ BeginWait(c, b)
    BY DEF Begin
  <1>2. CASE \E x \in Data : Store(c, b, x)
    BY <1>2, StoreSeen DEF Memory!Step
  <1>3. ASSUME NEW x \in Data, BeginMap(c, b, x)
        PROVE  (\E y \in Hosted : Memory!Step(c, y)) \/ UNCHANGED Memory!vars
    <2>1. /\ call[c] = Idle /\ b \notin mapped[c] /\ SetCopy(c, b, NewCopy(b, x))
          /\ Send(c, "MAP", b, ShallowRequest("MAP", NewCopy(b, x))) /\ "MAP" \in Calls
          /\ mapped'[c] = mapped[c] \cup {b} /\ \A d \in Clients : d # c => mapped'[d] = mapped[d]
      BY <1>3 DEF BeginMap, Calls, Inductive, TypeInv, TypeOK, ClientTypeOK
    <2>2. /\ \A d \in Clients : d # c => local'[d] = local[d]
          /\ \A y \in Blocks : y # b => local'[c][y] = local[c][y]
      BY <2>1, CopyFrame DEF Inductive
    <2>. QED BY <2>1, <2>2, Begun DEF Memory!Step
  <1>4. CASE BeginUnmap(c, b) \/ BeginUpdate(c, b) \/ BeginWrite(c, b) \/ BeginWait(c, b)
    <2>1. PICK op \in Calls : /\ \E m : Send(c, op, b, m)
                              /\ call[c] = Idle /\ op # "MAP"
                              /\ b \in mapped[c] /\ mapped' = mapped /\ local' = local
      BY <1>4 DEF BeginUnmap, BeginUpdate, BeginWrite, BeginWait, Calls
    <2>2. PICK m : Send(c, op, b, m)
      BY <2>1
    <2>. QED BY <2>1, <2>2, Begun DEF Memory!Step
  <1>. QED BY <1>1, <1>2, <1>3, <1>4

-----------------------------------------------------------------------------
\* A return: the copies become what the view says they will be.
LEMMA Returned ==
  ASSUME Inductive, NEW c \in Clients, NEW op \in Calls, Receive(c, op), UNCHANGED serverVars,
         \A d \in Clients : d # c => mapped'[d] = mapped[d] /\ local'[d] = local[d],
         \A x \in Hosted : x \in mapped'[c] <=> x \in mapped[c] /\ ~Acked(c, {"UNMAP"}, x),
         \A x \in Hosted : x \in mapped'[c] =>
            local'[c][x].rev = RevSoon(c, x) /\ local'[c][x].data = CopySoon(c, x)
  PROVE  Memory!Return(c) \/ UNCHANGED Memory!vars
  <1>. DEFINE b == call[c].id
  <1>1. /\ call'[c] = Idle /\ gen' = gen /\ link' = link /\ req' = req /\ blocks' = blocks
        /\ \A d \in Clients : d # c => call'[d] = call[d]
        /\ rep' = [rep EXCEPT ![Sock(c, b)] = Tail(@)] /\ Answered(c) /\ Busy(c)
    BY DEF Receive, serverVars, Answered, Busy, Inductive, TypeInv, TypeOK, ClientTypeOK
  <1>2. \A k \in Conns : k[1] # c => rep'[k] = rep[k]
    BY <1>1 DEF Sock, Inductive, TypeInv, TypeOK, WireTypeOK
  <1>3. \A d \in Clients : d # c => SameView(d)
    BY <1>1, <1>2, OtherView DEF Inductive
  <1>4. MemLeft' = MemLeft
    BY <1>1, LeftClient
  <1>5. /\ HeldBlocks(c)' = mapped'[c] \cap Hosted /\ Operation(c)' = [state |-> "none"]
        /\ \A x : CopySoon(c, x)' = local'[c][x].data /\ RevSoon(c, x)' = local'[c][x].rev
    BY <1>1, IdleNext
  <1>6. HeldBlocks(c) = {x \in mapped[c] \cap Hosted : ~Acked(c, {"UNMAP"}, x)}
    BY <1>1 DEF HeldBlocks
  <1>7. SameCopies(c)
    BY <1>5, <1>6 DEF SameCopies
  <1>8. /\ UNCHANGED <<MemData, MemHeld, MemCopy, MemFresh, MemLeft>>
        /\ MemOp' = [MemOp EXCEPT ![c] = [state |-> "none"]]
    BY <1>1, <1>3, <1>4, <1>5, <1>7, CallStep
  <1>9. CASE b \in Hosted
    <2>1. MemOp[c].state \in {"ok", "refused"}
      BY <1>1, <1>9 DEF MemOp, Operation
    <2>. QED BY <1>8, <2>1 DEF Memory!Return, Memory!NoOp
  <1>10. CASE b \notin Hosted
    <2>1. Operation(c) = [state |-> "none"]
      BY <1>10 DEF Operation
    <2>. QED BY <1>5, <1>8, <2>1, OpSame DEF Memory!vars
  <1>. QED BY <1>9, <1>10

LEMMA ReturnSeen ==
  ASSUME Inductive, NEW c \in Clients, Return(c), UNCHANGED serverVars
  PROVE  Memory!Return(c) \/ UNCHANGED Memory!vars
  <1>. DEFINE b == call[c].id
              l == local[c][b]
  <1>. USE DEF Calls
  <1>1. \A op \in Calls : Receive(c, op) =>
          /\ Answered(c) /\ call[c].op = op /\ b \in Blocks /\ l \in Copy /\ b \in mapped[c]
          /\ Ack(c).type \in {"ACK", "NACK"}
          /\ Ack(c).block # NoBlock => Ack(c).block \in BlockInfo
    <2>1. SUFFICES ASSUME NEW op \in Calls, Receive(c, op)
                   PROVE  /\ Answered(c) /\ call[c].op = op /\ b \in Blocks /\ l \in Copy
                          /\ b \in mapped[c] /\ Ack(c) \in Reply
      BY DEF Reply
    <2>2. Busy(c) /\ rep[Sock(c, call[c].id)] # <<>> /\ call[c].op = op
      BY <2>1 DEF Receive, Busy
    <2>. QED BY <2>2, ReceiveFacts DEF Answered
  <1>2. /\ \A x : x # b => RevSoon(c, x) = local[c][x].rev /\ CopySoon(c, x) = local[c][x].data
        /\ \A x, ops : Acked(c, ops, x) => x = b /\ call[c].op \in ops /\ Ack(c).type = "ACK"
    BY DEF RevSoon, CopySoon, Acked
  <1>3. Hosted \subseteq Blocks
    BY WireAssumption
  <1>4. mapped \in [Clients -> SUBSET Blocks]
    BY DEF Inductive, TypeInv, TypeOK, ClientTypeOK
  <1>5. ASSUME NEW op \in Calls, Receive(c, op), op # "UNMAP", mapped' = mapped,
               \A d \in Clients : d # c => local'[d] = local[d],
               \A x \in Blocks : x # b => local'[c][x] = local[c][x],
               local'[c][b].rev = RevSoon(c, b), local'[c][b].data = CopySoon(c, b)
        PROVE  Memory!Return(c) \/ UNCHANGED Memory!vars
    <2>1. \A x : ~Acked(c, {"UNMAP"}, x)
      BY <1>1, <1>2, <1>5
    <2>2. \A x \in Hosted : local'[c][x].rev = RevSoon(c, x) /\ local'[c][x].data = CopySoon(c, x)
      BY <1>2, <1>3, <1>5
    <2>. QED BY <1>5, <2>1, <2>2, Returned
  <1>6. ASSUME NEW v \in BOOLEAN, NEW op \in Calls, Receive(c, op),
               op \in {"MAP", "UPDATE"}, mapped' = mapped, Ack(c).type = "ACK",
               Ack(c).block # NoBlock, Install(c, b, Ack(c).block, v),
               op = "UPDATE" => l.rev # Ack(c).block.rev
        PROVE  Memory!Return(c) \/ UNCHANGED Memory!vars
    <2>1. /\ local'[c][b].rev = Ack(c).block.rev
          /\ \A d \in Clients : d # c => local'[d] = local[d]
          /\ \A x \in Blocks : x # b => local'[c][x] = local[c][x]
      BY <1>1, <1>6, InstallFacts DEF Inductive
    <2>2. local'[c][b].data = Content(Ack(c).block)
      <3>1. SetCopy(c, b, [id |-> Ack(c).block.id, rev |-> Ack(c).block.rev,
                           data |-> Content(Ack(c).block), valid |-> v])
        BY <1>6 DEF Install
      <3>. QED BY <1>1, <1>6, <3>1, CopyFrame DEF Inductive
    <2>3. RevSoon(c, b) = Ack(c).block.rev /\ CopySoon(c, b) = Content(Ack(c).block)
      BY <1>1, <1>6 DEF RevSoon, CopySoon, Acked
    <2>. QED BY <1>5, <1>6, <2>1, <2>2, <2>3
  <1>7. CASE ReturnMap(c)
    <2>1. Receive(c, "MAP") /\ mapped' = mapped
      BY <1>7, NoNullBlock DEF ReturnMap
    <2>2. CASE Ack(c).type = "NACK" /\ local' = local
      <3>1. RevSoon(c, b) = l.rev /\ CopySoon(c, b) = l.data
        BY <2>2 DEF RevSoon, CopySoon, Acked
      <3>. QED BY <1>5, <2>1, <2>2, <3>1
    <2>3. CASE /\ Ack(c).type = "ACK" /\ Ack(c).block # NoBlock
               /\ Install(c, b, Ack(c).block, l.valid)
      <3>1. l.valid \in BOOLEAN
        BY <1>1, <2>1 DEF Copy
      <3>. QED BY <1>6, <2>1, <2>3, <3>1
    <2>. QED BY <1>7, <2>2, <2>3, NoNullBlock DEF ReturnMap
  <1>8. CASE ReturnUpdate(c)
    <2>1. Receive(c, "UPDATE") /\ mapped' = mapped
      BY <1>8, NoNullBlock DEF ReturnUpdate
    <2>2. CASE Ack(c).type = "NACK" /\ local' = local
      <3>1. RevSoon(c, b) = l.rev /\ CopySoon(c, b) = l.data
        BY <2>2 DEF RevSoon, CopySoon, Acked
      <3>. QED BY <1>5, <2>1, <2>2, <3>1
    <2>3. CASE /\ Ack(c).type = "ACK" /\ Ack(c).block # NoBlock /\ l.rev # Ack(c).block.rev
               /\ Install(c, b, Ack(c).block, TRUE)
      BY <1>6, <2>1, <2>3
    <2>4. CASE /\ Ack(c).type = "ACK" /\ Ack(c).block # NoBlock /\ l.rev = Ack(c).block.rev
               /\ local' = local
      <3>1. RevSoon(c, b) = l.rev /\ CopySoon(c, b) = l.data
        BY <1>1, <2>1, <2>4 DEF RevSoon, CopySoon, Acked
      <3>. QED BY <1>5, <2>1, <2>4, <3>1
    <2>. QED BY <1>8, <2>2, <2>3, <2>4, NoNullBlock DEF ReturnUpdate
  <1>9. CASE ReturnWrite(c)
    <2>1. Receive(c, "WRITE") /\ mapped' = mapped
      BY <1>9 DEF ReturnWrite
    <2>2. CASE Ack(c).type = "NACK" /\ SetCopy(c, b, [l EXCEPT !.valid = FALSE])
      <3>1. /\ local'[c][b].rev = l.rev /\ local'[c][b].data = l.data
            /\ \A d \in Clients : d # c => local'[d] = local[d]
            /\ \A x \in Blocks : x # b => local'[c][x] = local[c][x]
        BY <1>1, <2>1, <2>2, CopyFrame DEF Inductive, Copy
      <3>2. RevSoon(c, b) = l.rev /\ CopySoon(c, b) = l.data
        BY <2>2 DEF RevSoon, CopySoon, Acked
      <3>. QED BY <1>5, <2>1, <3>1, <3>2
    <2>3. CASE Ack(c).type = "ACK" /\ SetCopy(c, b, [l EXCEPT !.rev = @ + 1])
      <3>1. /\ local'[c][b].rev = l.rev + 1 /\ local'[c][b].data = l.data
            /\ \A d \in Clients : d # c => local'[d] = local[d]
            /\ \A x \in Blocks : x # b => local'[c][x] = local[c][x]
        BY <1>1, <2>1, <2>3, CopyFrame DEF Inductive, Copy
      <3>2. RevSoon(c, b) = l.rev + 1 /\ CopySoon(c, b) = l.data
        BY <1>1, <2>1, <2>3 DEF RevSoon, CopySoon, Acked
      <3>. QED BY <1>5, <2>1, <3>1, <3>2
    <2>. QED BY <1>1, <1>9, <2>1, <2>2, <2>3 DEF ReturnWrite
  <1>10. CASE ReturnWait(c)
    <2>1. Receive(c, "WAIT") /\ mapped' = mapped
      BY <1>10 DEF ReturnWait
    <2>2. RevSoon(c, b) = l.rev /\ CopySoon(c, b) = l.data
      BY <1>1, <2>1 DEF RevSoon, CopySoon, Acked
    <2>3. CASE local' = local
      BY <1>5, <2>1, <2>2, <2>3
    <2>4. CASE SetCopy(c, b, [l EXCEPT !.valid = FALSE])
      <3>1. /\ local'[c][b].rev = l.rev /\ local'[c][b].data = l.data
            /\ \A d \in Clients : d # c => local'[d] = local[d]
            /\ \A x \in Blocks : x # b => local'[c][x] = local[c][x]
        BY <1>1, <2>1, <2>4, CopyFrame DEF Inductive, Copy
      <3>. QED BY <1>5, <2>1, <2>2, <3>1
    <2>. QED BY <1>10, <2>3, <2>4 DEF ReturnWait
  <1>11. CASE ReturnUnmap(c)
    <2>1. Receive(c, "UNMAP")
      BY <1>11 DEF ReturnUnmap
    <2>2. \A x \in mapped[c] : RevSoon(c, x) = local[c][x].rev /\ CopySoon(c, x) = local[c][x].data
      BY <1>1, <2>1 DEF RevSoon, CopySoon, Acked
    <2>3. CASE Ack(c).type = "NACK" /\ mapped' = mapped /\ local' = local
      <3>1. \A x : ~Acked(c, {"UNMAP"}, x)
        BY <2>3 DEF Acked
      <3>. QED BY <2>1, <2>2, <2>3, <3>1, Returned
    <2>4. CASE /\ Ack(c).type # "NACK" /\ mapped' = [mapped EXCEPT ![c] = @ \ {b}]
               /\ SetCopy(c, b, NoCopy(b))
      <3>1. \A x : Acked(c, {"UNMAP"}, x) <=> x = b
        BY <1>1, <2>1, <2>4 DEF Acked
      <3>2. /\ mapped'[c] = mapped[c] \ {b}
            /\ \A d \in Clients : d # c => mapped'[d] = mapped[d]
        BY <1>4, <2>4
      <3>3. /\ \A d \in Clients : d # c => local'[d] = local[d]
            /\ \A x \in Blocks : x # b => local'[c][x] = local[c][x]
        BY <1>1, <2>1, <2>4, CopyFrame DEF Inductive
      <3>4. \A x \in Hosted : x \in mapped'[c] =>
              local'[c][x].rev = RevSoon(c, x) /\ local'[c][x].data = CopySoon(c, x)
        BY <1>3, <2>2, <3>2, <3>3
      <3>. QED BY <2>1, <3>1, <3>2, <3>3, <3>4, Returned
    <2>. QED BY <1>11, <2>3, <2>4 DEF ReturnUnmap
  <1>. QED BY <1>7, <1>8, <1>9, <1>10, <1>11 DEF Return

-----------------------------------------------------------------------------
(* The servers. *)

\* Nobody's view but that of the client answered, if it is there.
LEMMA ServerOthers ==
  ASSUME Inductive, NEW k \in Conns, req[k] # <<>>, NEW a \in Reply, Answer(k, a),
         UNCHANGED clientVars, NEW d \in Clients, d # k[1] \/ link[k] # "open"
  PROVE  SameView(d)
  <1>1. /\ \A j \in Conns : j # k => rep'[j] = rep[j]
        /\ link[k] # "open" => rep'[k] = rep[k]
    BY AnswerEffect
  <1>2. Busy(d) => Sock(d, call[d].id) \in Conns /\ Sock(d, call[d].id)[1] = d
    BY CallTypes DEF Inductive, Sock
  <1>3. Busy(d) => rep'[Sock(d, call[d].id)] = rep[Sock(d, call[d].id)]
    BY <1>1, <1>2
  <1>. QED BY <1>3, ViewSame DEF clientVars

\* What answer a to a request of c for block b leaves alone.
PlainCopies(c, b, a) ==
  \A x : /\ CopySoon(c, x) = local[c][x].data /\ RevSoon(c, x) = local[c][x].rev
         /\ x # b \/ a.type = "NACK" =>
              /\ CopySoon(c, x)' = local[c][x].data
              /\ RevSoon(c, x)' = local[c][x].rev

\* The client that is answered.
LEMMA ClientAnswered ==
  ASSUME Inductive, NEW k \in Conns, req[k] # <<>>, NEW a \in Reply, Answer(k, a),
         UNCHANGED clientVars, link[k] = "open", NEW c, c = k[1], NEW b, b = Head(req[k]).id
  PROVE  /\ c \in Clients /\ b \in Blocks /\ k = Sock(c, b) /\ Found(k, b) <=> b \in Hosted
         /\ Head(req[k]).type = call[c].op /\ Head(req[k]).rev = local[c][b].rev
         /\ call[c].op = "WRITE" => Content(Head(req[k])) = local[c][b].data
         /\ call[c].op \in Calls /\ b \in mapped[c]
         /\ HeldBlocks(c) = {x \in mapped[c] \cap Hosted : ~(call[c].op = "MAP" /\ x = b)}
         /\ HeldBlocks(c)' = {x \in mapped[c] \cap Hosted :
                                ~(call[c].op = "UNMAP" /\ x = b /\ a.type = "ACK")}
         /\ PlainCopies(c, b, a)
         /\ a.type = "ACK" =>
              /\ call[c].op = "MAP" => /\ CopySoon(c, b)' = Content(a.block)
                                       /\ RevSoon(c, b)' = a.block.rev
              /\ call[c].op = "UPDATE" =>
                   /\ CopySoon(c, b)' = IF a.block.rev = local[c][b].rev THEN local[c][b].data
                                        ELSE Content(a.block)
                   /\ RevSoon(c, b)' = a.block.rev
              /\ call[c].op = "WRITE" => /\ CopySoon(c, b)' = local[c][b].data
                                         /\ RevSoon(c, b)' = local[c][b].rev + 1
              /\ call[c].op = "WAIT" => /\ CopySoon(c, b)' = local[c][b].data
                                        /\ RevSoon(c, b)' = local[c][b].rev
         /\ Operation(c) = IF b \in Hosted THEN Memory!Called(call[c].op, b) ELSE [state |-> "none"]
         /\ Operation(c)' = IF b \in Hosted
                            THEN Memory!Over(call[c].op, b, IF a.type = "ACK" THEN "ok" ELSE "refused")
                            ELSE [state |-> "none"]
  <1>1. c \in Clients
    BY DEF Conns
  <1>2. Engaged(c, k) /\ rep[k] = <<>> /\ Head(req[k]) = RequestOf(c) /\ call[c].id \in mapped[c]
    BY <1>1, EngagedConn
  <1>3. /\ Head(req[k]).type = call[c].op /\ b = call[c].id /\ b \in Blocks
        /\ Head(req[k]).rev = local[c][b].rev
        /\ call[c].op = "WRITE" => Head(req[k]).data = local[c][b].data /\ Head(req[k]).data # NoData
        /\ k = Sock(c, b) /\ Owner[b] = k[2]
    BY <1>1, <1>2, RequestFacts
  <1>4. call[c].op = "WRITE" => Content(Head(req[k])) = local[c][b].data
    BY <1>3 DEF Content
  <1>5. Busy(c) /\ ~Answered(c)
    BY <1>2 DEF Engaged, Answered
  <1>6. /\ call' = call /\ gen' = gen /\ mapped' = mapped /\ local' = local
        /\ rep'[k] # <<>> /\ Head(rep'[k]) = a
    BY AnswerEffect DEF clientVars
  <1>7. Busy(c)' /\ Answered(c)' /\ Ack(c)' = a
    BY <1>2, <1>5, <1>6 DEF Busy, Answered, Ack, Sock, Engaged
  <1>8. \A ops, x : Acked(c, ops, x)' <=> call[c].op \in ops /\ x = b /\ a.type = "ACK"
    BY <1>3, <1>6, <1>7 DEF Acked
  <1>9. \A x : call[c] = [op |-> "MAP", id |-> x] <=> call[c].op = "MAP" /\ x = b
    <2>1. call[c] \in [op : Calls, id : Blocks] \cup {Off, Idle, Fault}
      BY <1>1 DEF Inductive, TypeInv, TypeOK, ClientTypeOK
    <2>2. call[c] \in [op : Calls, id : Blocks]
      BY <1>5, <2>1, IdleIsNoCall DEF Busy
    <2>3. call[c] = [op |-> call[c].op, id |-> call[c].id]
      BY <2>2
    <2>4. b = call[c].id
      BY <1>3
    <2>. QED BY <2>3, <2>4
  <1>10. /\ HeldBlocks(c) = {x \in mapped[c] \cap Hosted : ~(call[c].op = "MAP" /\ x = b)}
         /\ \A x : CopySoon(c, x) = local[c][x].data /\ RevSoon(c, x) = local[c][x].rev
    <2>1. HeldBlocks(c) = {x \in mapped[c] \cap Hosted : call[c] # [op |-> "MAP", id |-> x]}
      BY <1>1, <1>5, PlainView
    <2>. QED BY <1>1, <1>5, <1>9, <2>1, PlainView
  <1>11. HeldBlocks(c)' = {x \in mapped[c] \cap Hosted :
                             ~(call[c].op = "UNMAP" /\ x = b /\ a.type = "ACK")}
    BY <1>6, <1>7, <1>8 DEF HeldBlocks
  <1>12. \A x : /\ CopySoon(c, x)' =
                     IF x = b /\ a.type = "ACK"
                        /\ (call[c].op = "MAP" \/ (call[c].op = "UPDATE" /\ a.block.rev # local[c][x].rev))
                     THEN Content(a.block) ELSE local[c][x].data
                /\ RevSoon(c, x)' =
                     IF x = b /\ a.type = "ACK" /\ call[c].op \in {"MAP", "UPDATE"} THEN a.block.rev
                     ELSE IF x = b /\ a.type = "ACK" /\ call[c].op = "WRITE" THEN local[c][x].rev + 1
                     ELSE local[c][x].rev
    BY <1>6, <1>7, <1>8 DEF CopySoon, RevSoon, Content
  <1>13. Operation(c) = IF b \in Hosted THEN Memory!Called(call[c].op, b) ELSE [state |-> "none"]
    BY <1>3, <1>5 DEF Operation, Memory!Called
  <1>14. Operation(c)' = IF b \in Hosted
                         THEN Memory!Over(call[c].op, b, IF a.type = "ACK" THEN "ok" ELSE "refused")
                         ELSE [state |-> "none"]
    BY <1>3, <1>6, <1>7 DEF Operation, Memory!Over
  <1>15. (Found(k, b) <=> b \in Hosted) /\ call[c].op \in Calls
    BY <1>3, <1>5 DEF Found, Busy
  <1>16. \A x : x # b \/ a.type = "NACK" =>
                        /\ CopySoon(c, x)' = local[c][x].data
                        /\ RevSoon(c, x)' = local[c][x].rev
    BY <1>12
  <1>17. a.type = "ACK" =>
              /\ call[c].op = "MAP" => /\ CopySoon(c, b)' = Content(a.block)
                                       /\ RevSoon(c, b)' = a.block.rev
              /\ call[c].op = "UPDATE" =>
                   /\ CopySoon(c, b)' = IF a.block.rev = local[c][b].rev THEN local[c][b].data
                                        ELSE Content(a.block)
                   /\ RevSoon(c, b)' = a.block.rev
              /\ call[c].op = "WRITE" => /\ CopySoon(c, b)' = local[c][b].data
                                         /\ RevSoon(c, b)' = local[c][b].rev + 1
              /\ call[c].op = "WAIT" => /\ CopySoon(c, b)' = local[c][b].data
                                        /\ RevSoon(c, b)' = local[c][b].rev
    BY <1>12
  <1>18. PlainCopies(c, b, a)
    BY <1>10, <1>16 DEF PlainCopies
  <1>. QED BY <1>1, <1>2, <1>3, <1>4, <1>10, <1>11, <1>13, <1>14, <1>15, <1>17, <1>18

\* An answer that leaves no WRITE undone and no copy changed.
LEMMA LeftServer ==
  ASSUME Inductive, NEW k \in Conns, req[k] # <<>>, NEW a \in Reply, Answer(k, a),
         blocks' = blocks, ~Orphan(k)
  PROVE  MemLeft' = MemLeft
  <1>1. link' = link /\ req'[k] = <<>> /\ \A j \in Conns : j # k => req'[j] = req[j]
    BY AnswerEffect
  <1>2. ASSUME NEW j \in Conns PROVE (Orphan(j)' <=> Orphan(j)) /\ (Orphan(j) => req'[j] = req[j])
    <2>1. CASE j = k
      BY <1>1, <2>1 DEF Orphan
    <2>2. CASE j # k
      BY <1>1, <2>2 DEF Orphan, Found
    <2>. QED BY <2>1, <2>2
  <1>. QED BY <1>2, LeftSame

\* Nothing is to be seen of an answer that changes no block, nor a copy that
\* a client has, unless it is that of a call on the memory.
LEMMA QuietAnswer ==
  ASSUME Inductive, NEW k \in Conns, req[k] # <<>>, NEW a \in Reply, Answer(k, a),
         UNCHANGED clientVars, blocks' = blocks, ~Orphan(k), NEW c \in Clients, c = k[1],
         link[k] = "open" => SameCopies(c)
  PROVE  /\ UNCHANGED <<MemData, MemHeld, MemCopy, MemFresh, MemLeft>>
         /\ MemOp' = [MemOp EXCEPT ![c] = Operation(c)']
         /\ link[k] # "open" \/ Operation(c)' = Operation(c) => UNCHANGED Memory!vars
  <1>1. \A d \in Clients : d # c => SameView(d)
    BY ServerOthers
  <1>2. link[k] # "open" => SameView(c)
    BY ServerOthers
  <1>3. SameCopies(c)
    BY <1>2, SameViewCopies
  <1>4. MemLeft' = MemLeft
    BY LeftServer
  <1>5. /\ UNCHANGED <<MemData, MemHeld, MemCopy, MemFresh, MemLeft>>
        /\ MemOp' = [MemOp EXCEPT ![c] = Operation(c)']
    BY <1>1, <1>3, <1>4, CallStep
  <1>6. link[k] # "open" \/ Operation(c)' = Operation(c) => MemOp' = MemOp
    BY <1>2, <1>5, OpSame DEF SameView
  <1>. QED BY <1>5, <1>6 DEF Memory!vars

-----------------------------------------------------------------------------
(* The handlers. *)

\* A block the server does not have is none of the memory's.
LEMMA NotSeen ==
  ASSUME Inductive, NEW k \in Conns, req[k] # <<>>, NEW a \in Reply, Answer(k, a),
         UNCHANGED clientVars, blocks' = blocks, ~Orphan(k),
         link[k] = "open" => Head(req[k]).id \notin Hosted
  PROVE  UNCHANGED Memory!vars
  <1>1. PICK c \in Clients : c = k[1]
    BY DEF Conns
  <1>2. PICK b : b = Head(req[k]).id
    OBVIOUS
  <1>3. link[k] = "open" => SameCopies(c) /\ Operation(c)' = Operation(c)
    <2>1. SUFFICES ASSUME link[k] = "open" PROVE SameCopies(c) /\ Operation(c)' = Operation(c)
      OBVIOUS
    <2>2. /\ HeldBlocks(c) = {x \in mapped[c] \cap Hosted : ~(call[c].op = "MAP" /\ x = b)}
          /\ HeldBlocks(c)' = {x \in mapped[c] \cap Hosted :
                                 ~(call[c].op = "UNMAP" /\ x = b /\ a.type = "ACK")}
      BY <1>1, <1>2, <2>1, ClientAnswered
    <2>3. PlainCopies(c, b, a)
      BY <1>1, <1>2, <2>1, ClientAnswered
    <2>4. \A x : x # b => CopySoon(c, x)' = CopySoon(c, x) /\ RevSoon(c, x)' = RevSoon(c, x)
      BY <2>3 DEF PlainCopies
    <2>5. b \notin Hosted
      BY <1>2, <2>1
    <2>6. HeldBlocks(c)' = HeldBlocks(c)
      BY <2>2, <2>5
    <2>7. Operation(c) = [state |-> "none"] /\ Operation(c)' = [state |-> "none"]
      BY <1>1, <1>2, <2>1, <2>5, ClientAnswered
    <2>. QED BY <2>4, <2>5, <2>6, <2>7, HeldFacts DEF SameCopies
  <1>. QED BY <1>1, <1>3, QuietAnswer

LEMMA Finished ==
  ASSUME Inductive, NEW k \in Conns, req[k] # <<>>, NEW a \in Reply, Answer(k, a),
         UNCHANGED clientVars, link[k] = "open",
         NEW c \in Clients, c = k[1], NEW b \in Hosted, b = Head(req[k]).id
  PROVE  Memory!Finish(c, Head(req[k]).type, b, IF a.type = "ACK" THEN "ok" ELSE "refused")
  <1>1. \A d \in Clients : d # c => Operation(d)' = Operation(d)
    BY ServerOthers DEF SameView
  <1>2. MemOp' = [MemOp EXCEPT ![c] = Operation(c)']
    BY <1>1, OpNext
  <1>3. Operation(c) = Memory!Called(Head(req[k]).type, b)
    BY ClientAnswered
  <1>4. Operation(c)' = Memory!Over(Head(req[k]).type, b, IF a.type = "ACK" THEN "ok" ELSE "refused")
    BY ClientAnswered
  <1>. QED BY <1>2, <1>3, <1>4 DEF Memory!Finish, MemOp

\* Calls that are over without a change of the copies.
LEMMA OnlyFinished ==
  ASSUME Inductive, NEW k \in Conns, req[k] # <<>>, NEW a \in Reply, Answer(k, a),
         UNCHANGED clientVars, link[k] = "open", blocks' = blocks,
         NEW c \in Clients, c = k[1], NEW b \in Hosted, b = Head(req[k]).id,
         SameCopies(c)
  PROVE  /\ Memory!Finish(c, Head(req[k]).type, b, IF a.type = "ACK" THEN "ok" ELSE "refused")
         /\ UNCHANGED <<MemData, MemHeld, MemCopy, MemFresh, MemLeft>>
  <1>1. ~Orphan(k)
    BY DEF Orphan
  <1>. QED BY <1>1, QuietAnswer, Finished

\* The copy of b is the only one whose revision changes.
LEMMA FreshChange ==
  ASSUME NEW c \in Clients, NEW b \in Hosted, blocks' = blocks,
         \A d \in Clients : d # c => SameCopies(d),
         \A x \in Hosted : x # b => /\ x \in HeldBlocks(c)' <=> x \in HeldBlocks(c)
                                    /\ RevSoon(c, x)' = RevSoon(c, x)
  PROVE  IF b \in HeldBlocks(c)' /\ RevSoon(c, b)' = blocks[b].rev
         THEN MemFresh' = MemFresh \cup {<<c, b>>}
         ELSE MemFresh' = MemFresh \ {<<c, b>>}
  <1>1. ASSUME NEW d \in Clients, NEW x \in Hosted, d # c \/ x # b
        PROVE  <<d, x>> \in MemFresh' <=> <<d, x>> \in MemFresh
    BY <1>1, FreshFacts, FreshNext DEF SameCopies
  <1>2. <<c, b>> \in MemFresh' <=> b \in HeldBlocks(c)' /\ RevSoon(c, b)' = blocks[b].rev
    BY FreshNext
  <1>3. CASE <<c, b>> \in MemFresh'
    <2>1. PICK S : S = MemFresh \cup {<<c, b>>}
      OBVIOUS
    <2>2. S \subseteq Clients \X Hosted
      BY <2>1, FreshFacts
    <2>3. \A d \in Clients, x \in Hosted : <<d, x>> \in MemFresh' <=> <<d, x>> \in S
      BY <1>1, <1>3, <2>1
    <2>. QED BY <1>2, <1>3, <2>1, <2>2, <2>3, FreshNext, PairSets
  <1>4. CASE <<c, b>> \notin MemFresh'
    <2>1. PICK S : S = MemFresh \ {<<c, b>>}
      OBVIOUS
    <2>2. S \subseteq Clients \X Hosted
      BY <2>1, FreshFacts
    <2>3. \A d \in Clients, x \in Hosted : <<d, x>> \in MemFresh' <=> <<d, x>> \in S
      BY <1>1, <1>4, <2>1
    <2>. QED BY <1>2, <1>4, <2>1, <2>2, <2>3, FreshNext, PairSets
  <1>. QED BY <1>3, <1>4

\* What is there besides the call and c's copy of b stays the same.
OneCopy(c, b) ==
  /\ MemHeld' = [MemHeld EXCEPT ![c] = HeldBlocks(c)']
  /\ MemCopy' = [MemCopy EXCEPT ![c][b] = MemCopy'[c][b]]
  /\ b \in HeldBlocks(c)' /\ RevSoon(c, b)' = blocks[b].rev => MemFresh' = MemFresh \cup {<<c, b>>}
  /\ b \notin HeldBlocks(c)' => MemFresh' = MemFresh \ {<<c, b>>}
  /\ MemData' = MemData /\ MemLeft' = MemLeft

\* An answer that synchronises c's copy of b, or takes it away.
LEMMA CopyChange ==
  ASSUME Inductive, NEW k \in Conns, req[k] # <<>>, NEW a \in Reply, Answer(k, a),
         UNCHANGED clientVars, link[k] = "open", blocks' = blocks,
         NEW c \in Clients, c = k[1], NEW b \in Hosted, b = Head(req[k]).id
  PROVE  /\ Memory!Finish(c, Head(req[k]).type, b, IF a.type = "ACK" THEN "ok" ELSE "refused")
         /\ OneCopy(c, b)
  <1>1. \A d \in Clients : d # c => SameView(d)
    BY ServerOthers
  <1>2. \A d \in Clients : d # c => SameCopies(d)
    BY <1>1, SameViewCopies
  <1>3. \A x \in Hosted : x # b => /\ x \in HeldBlocks(c)' <=> x \in HeldBlocks(c)
                                   /\ CopySoon(c, x)' = CopySoon(c, x)
                                   /\ RevSoon(c, x)' = RevSoon(c, x)
    <2>1. /\ HeldBlocks(c) = {x \in mapped[c] \cap Hosted : ~(call[c].op = "MAP" /\ x = b)}
          /\ HeldBlocks(c)' = {x \in mapped[c] \cap Hosted :
                                 ~(call[c].op = "UNMAP" /\ x = b /\ a.type = "ACK")}
      BY ClientAnswered
    <2>2. PlainCopies(c, b, a)
      BY ClientAnswered
    <2>. QED BY <2>1, <2>2 DEF PlainCopies
  <1>4. MemHeld' = [MemHeld EXCEPT ![c] = HeldBlocks(c)']
    BY <1>1, HeldNext DEF SameView
  <1>5. MemCopy' = [MemCopy EXCEPT ![c][b] = MemCopy'[c][b]]
    <2>1. PICK v : v = IF b \in HeldBlocks(c)' THEN CopySoon(c, b)' ELSE Zero
      OBVIOUS
    <2>2. MemCopy'[c][b] = v
      BY <2>1 DEF MemCopy
    <2>. QED BY <1>2, <1>3, <2>1, <2>2, CopyNext
  <1>6. ~Orphan(k)
    BY DEF Orphan
  <1>7. MemData' = MemData /\ MemLeft' = MemLeft
    BY <1>6, LeftServer DEF MemData
  <1>8. /\ b \in HeldBlocks(c)' /\ RevSoon(c, b)' = blocks[b].rev =>
             MemFresh' = MemFresh \cup {<<c, b>>}
        /\ b \notin HeldBlocks(c)' => MemFresh' = MemFresh \ {<<c, b>>}
    BY <1>2, <1>3, FreshChange
  <1>9. OneCopy(c, b)
    BY <1>4, <1>5, <1>7, <1>8 DEF OneCopy
  <1>. QED BY <1>9, Finished

\* The copy a request was made from.
LEMMA CopyBehind ==
  ASSUME Inductive, NEW k \in Conns, req[k] # <<>>, link[k] = "open",
         NEW c \in Clients, c = k[1], NEW b \in Hosted, b = Head(req[k]).id
  PROVE  /\ b \in Blocks /\ b \in mapped[c] /\ call[c].id = b /\ call[c].op = Head(req[k]).type
         /\ k = Sock(c, b) /\ Found(k, b) /\ Alive(c)
         /\ local[c][b].rev \in Nat /\ blocks[b].rev \in Nat /\ Head(req[k]).rev = local[c][b].rev
         /\ Head(req[k]).type # "MAP" => local[c][b].rev <= blocks[b].rev
  <1>1. Engaged(c, k)
    BY EngagedConn
  <1>2. /\ Head(req[k]).type = call[c].op /\ b = call[c].id /\ b \in Blocks
        /\ Head(req[k]).rev = local[c][b].rev /\ b \in mapped[c]
        /\ k = Sock(c, b) /\ Owner[b] = k[2] /\ Alive(c)
        /\ Head(req[k]).type # "MAP" => Agrees(Head(req[k]).rev, base[c][b], b)
    BY <1>1, RequestFacts
  <1>. QED BY <1>2, TypeFacts DEF Agrees, Found, Inductive

LEMMA MapSeen ==
  ASSUME Inductive, NEW k \in Conns, HandleMap(k), UNCHANGED clientVars
  PROVE  (\E c \in Clients, b \in Hosted : Memory!Map(c, b)) \/ UNCHANGED Memory!vars
  <1>1. PICK b : b = Head(req[k]).id
    OBVIOUS
  <1>2. req[k] # <<>> /\ Head(req[k]).type = "MAP" /\ blocks' = blocks
    BY DEF HandleMap, Serving
  <1>3. b \in Blocks /\ blocks[b] \in [rev : Revs, data : Data]
    BY <1>1, <1>2, HeadType DEF Inductive, Request, TypeInv, TypeOK, ServerTypeOK
  <1>4. PICK a \in Reply :
          a = IF Found(k, b) /\ k \notin mappedClients[b] THEN FullAck(b, blocks[b]) ELSE Nack
    BY <1>3, ReplyTypes
  <1>5. Answer(k, a) /\ ~Orphan(k)
    BY <1>1, <1>2, <1>4 DEF HandleMap, Orphan
  <1>6. CASE link[k] # "open" \/ b \notin Hosted
    BY <1>1, <1>2, <1>5, <1>6, NotSeen
  <1>7. CASE link[k] = "open" /\ b \in Hosted
    <2>1. PICK c \in Clients : c = k[1]
      BY DEF Conns
    <2>2. b \in mapped[c] /\ call[c].id = b /\ call[c].op = "MAP" /\ k = Sock(c, b)
          /\ Found(k, b) /\ Alive(c) /\ blocks[b].rev \in Nat
      BY <1>1, <1>2, <1>7, <2>1, CopyBehind
    <2>3. k \notin mappedClients[b]
      <3>1. call[c] \in [op : Calls, id : Blocks] \cup {Off, Idle, Fault}
        BY DEF Inductive, TypeInv, TypeOK, ClientTypeOK
      <3>2. call[c] = [op |-> "MAP", id |-> b]
        BY <2>2, <3>1 DEF Off, Idle, Fault
      <3>3. AssocOK(c, b)
        BY <1>3 DEF Inductive
      <3>. QED BY <1>2, <2>2, <3>2, <3>3 DEF AssocOK
    <2>4. a.type = "ACK" /\ a.block.rev = blocks[b].rev /\ Content(a.block) = blocks[b].data
      <3>1. a = FullAck(b, blocks[b])
        BY <1>4, <2>2, <2>3
      <3>. QED BY <1>3, <3>1, WireAssumption DEF FullAck, Content
    <2>5. /\ HeldBlocks(c) = {x \in mapped[c] \cap Hosted : ~(call[c].op = "MAP" /\ x = b)}
          /\ HeldBlocks(c)' = {x \in mapped[c] \cap Hosted :
                                 ~(call[c].op = "UNMAP" /\ x = b /\ a.type = "ACK")}
      BY <1>1, <1>2, <1>5, <1>7, <2>1, ClientAnswered
    <2>6. HeldBlocks(c)' = HeldBlocks(c) \cup {b} /\ b \in HeldBlocks(c)'
      BY <1>7, <2>2, <2>5
    <2>7. a.type = "ACK" /\ call[c].op = "MAP"
      BY <2>2, <2>4
    <2>8. CopySoon(c, b)' = Content(a.block) /\ RevSoon(c, b)' = a.block.rev
      BY <1>1, <1>2, <1>5, <1>7, <2>1, <2>7, ClientAnswered
    <2>9. /\ MemCopy'[c][b] = MemData[b] /\ MemHeld[c] = HeldBlocks(c)
          /\ RevSoon(c, b)' = blocks[b].rev
      BY <1>7, <2>4, <2>6, <2>8 DEF MemCopy, MemData, MemHeld
    <2>10. Memory!Finish(c, "MAP", b, "ok") /\ OneCopy(c, b)
      BY <1>1, <1>2, <1>5, <1>7, <2>1, <2>7, CopyChange
    <2>11. Memory!Map(c, b)
      BY <2>6, <2>9, <2>10 DEF Memory!Map, OneCopy
    <2>. QED BY <1>7, <2>11
  <1>. QED BY <1>6, <1>7

LEMMA UnmapSeen ==
  ASSUME Inductive, NEW k \in Conns, HandleUnmap(k), UNCHANGED clientVars
  PROVE  (\E c \in Clients, b \in Hosted : Memory!Unmap(c, b)) \/ UNCHANGED Memory!vars
  <1>1. PICK b : b = Head(req[k]).id
    OBVIOUS
  <1>2. req[k] # <<>> /\ Head(req[k]).type = "UNMAP" /\ blocks' = blocks
    BY DEF HandleUnmap, Serving
  <1>3. PICK a \in Reply : Answer(k, a) /\ a \in {PlainAck, Nack}
    BY DEF HandleUnmap, PlainAck, Nack, Reply
  <1>4. ~Orphan(k)
    BY <1>2 DEF Orphan
  <1>5. CASE link[k] # "open" \/ b \notin Hosted
    BY <1>1, <1>2, <1>3, <1>4, <1>5, NotSeen
  <1>6. CASE link[k] = "open" /\ b \in Hosted
    <2>1. PICK c \in Clients : c = k[1]
      BY DEF Conns
    <2>2. call[c].op = "UNMAP" /\ b \in mapped[c] /\ blocks[b].rev \in Nat
      BY <1>1, <1>2, <1>6, <2>1, CopyBehind
    <2>3. /\ HeldBlocks(c) = {x \in mapped[c] \cap Hosted : ~(call[c].op = "MAP" /\ x = b)}
          /\ HeldBlocks(c)' = {x \in mapped[c] \cap Hosted :
                                 ~(call[c].op = "UNMAP" /\ x = b /\ a.type = "ACK")}
      BY <1>1, <1>2, <1>3, <1>6, <2>1, ClientAnswered
    <2>4. PlainCopies(c, b, a)
      BY <1>1, <1>2, <1>3, <1>6, <2>1, ClientAnswered
    <2>5. CASE a = Nack
      <3>1. HeldBlocks(c)' = HeldBlocks(c) /\ a.type = "NACK"
        BY <2>2, <2>3, <2>5 DEF Nack
      <3>2. SameCopies(c)
        BY <2>4, <3>1 DEF SameCopies, PlainCopies
      <3>3. /\ Memory!Finish(c, "UNMAP", b, "refused")
            /\ UNCHANGED <<MemData, MemHeld, MemCopy, MemFresh, MemLeft>>
        BY <1>1, <1>2, <1>3, <1>6, <2>1, <3>1, <3>2, OnlyFinished
      <3>. QED BY <1>6, <3>3 DEF Memory!Unmap
    <2>6. CASE a = PlainAck
      <3>1. HeldBlocks(c)' = HeldBlocks(c) \ {b} /\ b \notin HeldBlocks(c)' /\ a.type = "ACK"
        BY <2>2, <2>3, <2>6 DEF PlainAck
      <3>2. MemCopy'[c][b] = Zero /\ MemHeld[c] = HeldBlocks(c)
        BY <1>6, <3>1 DEF MemCopy, MemHeld
      <3>3. Memory!Finish(c, "UNMAP", b, "ok") /\ OneCopy(c, b)
        BY <1>1, <1>2, <1>3, <1>6, <2>1, <3>1, CopyChange
      <3>4. Memory!Unmap(c, b)
        BY <3>1, <3>2, <3>3 DEF Memory!Unmap, OneCopy
      <3>. QED BY <1>6, <3>4
    <2>. QED BY <1>3, <2>5, <2>6
  <1>. QED BY <1>5, <1>6

LEMMA WaitSeen ==
  ASSUME Inductive, NEW k \in Conns, HandleWait(k), UNCHANGED clientVars
  PROVE  (\E c \in Clients, b \in Hosted : Memory!Wait(c, b)) \/ UNCHANGED Memory!vars
  <1>1. PICK b : b = Head(req[k]).id
    OBVIOUS
  <1>2. PICK a \in Reply : a = PlainAck
    BY DEF PlainAck, Reply
  <1>3. /\ req[k] # <<>> /\ Head(req[k]).type = "WAIT" /\ blocks' = blocks /\ Answer(k, a)
        /\ ~(Found(k, b) /\ blocks[b].rev = Head(req[k]).rev)
    BY <1>1, <1>2 DEF HandleWait, Serving
  <1>4. ~Orphan(k) /\ a.type = "ACK"
    BY <1>2, <1>3 DEF Orphan, PlainAck
  <1>5. CASE link[k] # "open" \/ b \notin Hosted
    BY <1>1, <1>3, <1>4, <1>5, NotSeen
  <1>6. CASE link[k] = "open" /\ b \in Hosted
    <2>1. PICK c \in Clients : c = k[1]
      BY DEF Conns
    <2>2. call[c].op = "WAIT" /\ Found(k, b) /\ Head(req[k]).rev = local[c][b].rev
      BY <1>1, <1>3, <1>6, <2>1, CopyBehind
    <2>3. /\ HeldBlocks(c) = {x \in mapped[c] \cap Hosted : ~(call[c].op = "MAP" /\ x = b)}
          /\ HeldBlocks(c)' = {x \in mapped[c] \cap Hosted :
                                 ~(call[c].op = "UNMAP" /\ x = b /\ a.type = "ACK")}
      BY <1>1, <1>3, <1>6, <2>1, ClientAnswered
    <2>4. PlainCopies(c, b, a)
      BY <1>1, <1>3, <1>6, <2>1, ClientAnswered
    <2>5. CopySoon(c, b)' = local[c][b].data /\ RevSoon(c, b)' = local[c][b].rev
      BY <1>1, <1>3, <1>4, <1>6, <2>1, <2>2, ClientAnswered
    <2>6. HeldBlocks(c)' = HeldBlocks(c)
      BY <2>2, <2>3
    <2>7. SameCopies(c)
      BY <2>4, <2>5, <2>6 DEF SameCopies, PlainCopies
    <2>8. /\ Memory!Finish(c, "WAIT", b, "ok")
          /\ UNCHANGED <<MemData, MemHeld, MemCopy, MemFresh, MemLeft>>
      BY <1>1, <1>3, <1>4, <1>6, <2>1, <2>7, OnlyFinished
    <2>9. <<c, b>> \notin MemFresh
      <3>1. RevSoon(c, b) = local[c][b].rev
        BY <2>4 DEF PlainCopies
      <3>. QED BY <1>3, <1>6, <2>2, <3>1, FreshFacts
    <2>10. Memory!Wait(c, b)
      BY <2>8, <2>9 DEF Memory!Wait
    <2>. QED BY <1>6, <2>10
  <1>. QED BY <1>5, <1>6

LEMMA UpdateSeen ==
  ASSUME Inductive, NEW k \in Conns, HandleUpdate(k), UNCHANGED clientVars
  PROVE  (\E c \in Clients, b \in Hosted : Memory!Update(c, b)) \/ UNCHANGED Memory!vars
  <1>1. PICK b : b = Head(req[k]).id
    OBVIOUS
  <1>2. req[k] # <<>> /\ Head(req[k]).type = "UPDATE" /\ blocks' = blocks
    BY DEF HandleUpdate, Serving
  <1>3. b \in Blocks /\ blocks[b] \in [rev : Revs, data : Data]
    BY <1>1, <1>2, HeadType DEF Inductive, Request, TypeInv, TypeOK, ServerTypeOK
  <1>4. PICK a \in Reply : a = IF ~Found(k, b) THEN Nack
                               ELSE IF Head(req[k]).rev < blocks[b].rev THEN FullAck(b, blocks[b])
                               ELSE ShallowAck(b, blocks[b])
    BY <1>3, ReplyTypes
  <1>5. Answer(k, a) /\ ~Orphan(k)
    BY <1>1, <1>2, <1>4 DEF HandleUpdate, Orphan
  <1>6. CASE link[k] # "open" \/ b \notin Hosted
    BY <1>1, <1>2, <1>5, <1>6, NotSeen
  <1>7. CASE link[k] = "open" /\ b \in Hosted
    <2>1. PICK c \in Clients : c = k[1]
      BY DEF Conns
    <2>2. /\ b \in mapped[c] /\ call[c].op = "UPDATE" /\ Found(k, b)
          /\ local[c][b].rev \in Nat /\ blocks[b].rev \in Nat
          /\ Head(req[k]).rev = local[c][b].rev /\ local[c][b].rev <= blocks[b].rev
      BY <1>1, <1>2, <1>7, <2>1, CopyBehind
    <2>3. /\ a.type = "ACK" /\ a.block.rev = blocks[b].rev
          /\ local[c][b].rev # blocks[b].rev => Content(a.block) = blocks[b].data
      <3>1. CASE local[c][b].rev < blocks[b].rev
        BY <1>3, <1>4, <2>2, <3>1, WireAssumption DEF FullAck, Content
      <3>2. CASE ~(local[c][b].rev < blocks[b].rev)
        BY <1>4, <2>2, <3>2 DEF ShallowAck
      <3>. QED BY <3>1, <3>2
    <2>4. a.type = "ACK" /\ call[c].op = "UPDATE"
      BY <2>2, <2>3
    <2>5. /\ HeldBlocks(c) = {x \in mapped[c] \cap Hosted : ~(call[c].op = "MAP" /\ x = b)}
          /\ HeldBlocks(c)' = {x \in mapped[c] \cap Hosted :
                                 ~(call[c].op = "UNMAP" /\ x = b /\ a.type = "ACK")}
      BY <1>1, <1>2, <1>5, <1>7, <2>1, ClientAnswered
    <2>6. HeldBlocks(c)' = HeldBlocks(c) /\ b \in HeldBlocks(c)
      BY <1>7, <2>2, <2>4, <2>5
    <2>7. /\ CopySoon(c, b)' = IF a.block.rev = local[c][b].rev THEN local[c][b].data
                               ELSE Content(a.block)
          /\ RevSoon(c, b)' = a.block.rev
      BY <1>1, <1>2, <1>5, <1>7, <2>1, <2>4, ClientAnswered
    <2>8. PlainCopies(c, b, a)
      BY <1>1, <1>2, <1>5, <1>7, <2>1, ClientAnswered
    <2>9. CopySoon(c, b) = local[c][b].data /\ RevSoon(c, b) = local[c][b].rev
      BY <2>8 DEF PlainCopies
    <2>10. <<c, b>> \in MemFresh <=> local[c][b].rev = blocks[b].rev
      BY <1>7, <2>6, <2>9, FreshFacts
    <2>11. MemCopy[c][b] = local[c][b].data /\ MemHeld[c] = HeldBlocks(c) /\ MemData[b] = blocks[b].data
      BY <1>7, <2>6, <2>9 DEF MemCopy, MemHeld, MemData
    <2>12. /\ MemCopy'[c][b] = IF <<c, b>> \in MemFresh THEN MemCopy[c][b] ELSE MemData[b]
           /\ b \in HeldBlocks(c)' /\ RevSoon(c, b)' = blocks[b].rev
      BY <1>7, <2>3, <2>6, <2>7, <2>10, <2>11 DEF MemCopy
    <2>13. Memory!Finish(c, "UPDATE", b, "ok") /\ OneCopy(c, b)
      BY <1>1, <1>2, <1>5, <1>7, <2>1, <2>4, CopyChange
    <2>14. MemHeld' = MemHeld
      BY <2>6, <2>13 DEF MemHeld, OneCopy
    <2>15. MemCopy' = IF <<c, b>> \in MemFresh THEN MemCopy
                      ELSE [MemCopy EXCEPT ![c][b] = MemData[b]]
      <3>1. CASE <<c, b>> \in MemFresh
        <4>1. [MemCopy EXCEPT ![c][b] = MemCopy[c][b]] = MemCopy
          BY <1>7 DEF MemCopy
        <4>. QED BY <2>12, <2>13, <3>1, <4>1 DEF OneCopy
      <3>2. CASE <<c, b>> \notin MemFresh
        BY <2>12, <2>13, <3>2 DEF OneCopy
      <3>. QED BY <3>1, <3>2
    <2>16. Memory!Update(c, b)
      BY <2>12, <2>13, <2>14, <2>15 DEF Memory!Update, OneCopy
    <2>. QED BY <1>7, <2>16
  <1>. QED BY <1>6, <1>7

\* A write that takes place: what it leaves of the other copies and writes.
LEMMA Overwritten ==
  ASSUME Inductive, NEW k \in Conns, req[k] # <<>>, NEW a \in Reply, Answer(k, a), a.type = "ACK",
         UNCHANGED clientVars, NEW b \in Hosted, b = Head(req[k]).id,
         Head(req[k]).type = "WRITE", NEW v, NEW rev \in Nat, blocks[b].rev = rev,
         blocks'[b] = [rev |-> rev + 1, data |-> v],
         \A x \in Blocks : x # b => blocks'[x] = blocks[x],
         NEW S, S = IF link[k] = "open" THEN {<<k[1], b>>} ELSE {},
         link[k] = "open" => Head(req[k]).rev = rev
  PROVE  Memory!Overwrite(b, v, S)
  <1>1. PICK c \in Clients : c = k[1]
    BY DEF Conns
  <1>2. \A d \in Clients : d # c \/ link[k] # "open" => SameView(d)
    BY <1>1, ServerOthers
  <1>3. link[k] = "open" =>
          /\ HeldBlocks(c)' = HeldBlocks(c) /\ b \in HeldBlocks(c)
          /\ RevSoon(c, b)' = rev + 1
          /\ \A x \in Hosted : /\ CopySoon(c, x)' = CopySoon(c, x)
                               /\ x # b => RevSoon(c, x)' = RevSoon(c, x)
    <2>. SUFFICES ASSUME link[k] = "open"
                  PROVE  /\ HeldBlocks(c)' = HeldBlocks(c) /\ b \in HeldBlocks(c)
                         /\ RevSoon(c, b)' = rev + 1
                         /\ \A x \in Hosted : /\ CopySoon(c, x)' = CopySoon(c, x)
                                              /\ x # b => RevSoon(c, x)' = RevSoon(c, x)
      OBVIOUS
    <2>1. b \in mapped[c] /\ call[c].op = "WRITE" /\ local[c][b].rev = rev
      BY <1>1, CopyBehind
    <2>2. /\ HeldBlocks(c) = {x \in mapped[c] \cap Hosted : ~(call[c].op = "MAP" /\ x = b)}
          /\ HeldBlocks(c)' = {x \in mapped[c] \cap Hosted :
                                 ~(call[c].op = "UNMAP" /\ x = b /\ a.type = "ACK")}
      BY <1>1, ClientAnswered
    <2>3. CopySoon(c, b)' = local[c][b].data /\ RevSoon(c, b)' = local[c][b].rev + 1
      BY <1>1, <2>1, ClientAnswered
    <2>4. PlainCopies(c, b, a)
      BY <1>1, ClientAnswered
    <2>. QED BY <2>1, <2>2, <2>3, <2>4 DEF PlainCopies
  <1>4. ASSUME NEW d \in Clients
        PROVE  /\ HeldBlocks(d)' = HeldBlocks(d)
               /\ \A x \in Hosted : x \in HeldBlocks(d) =>
                    /\ CopySoon(d, x)' = CopySoon(d, x)
                    /\ x # b \/ d # c \/ link[k] # "open" => RevSoon(d, x)' = RevSoon(d, x)
    BY <1>2, <1>3 DEF SameView
  <1>5. MemHeld' = MemHeld /\ MemCopy' = MemCopy
    BY <1>4 DEF MemHeld, MemCopy
  <1>6. MemData' = [MemData EXCEPT ![b] = v]
    <2>1. \A x \in Hosted : blocks'[x].data = IF x = b THEN v ELSE blocks[x].data
      BY WireAssumption
    <2>. QED BY <2>1 DEF MemData
  <1>7. PICK T : T = {f \in MemFresh : f[2] # b} \cup S
    OBVIOUS
  <1>8. ASSUME NEW d \in Clients, NEW x \in Hosted
        PROVE  <<d, x>> \in MemFresh' <=> <<d, x>> \in T
    <2>1. <<d, x>> \in MemFresh' <=> x \in HeldBlocks(d)' /\ RevSoon(d, x)' = blocks'[x].rev
      BY FreshNext
    <2>2. <<d, x>> \in MemFresh <=> x \in HeldBlocks(d) /\ RevSoon(d, x) = blocks[x].rev
      BY FreshFacts
    <2>3. CASE x # b
      <3>1. x \in Blocks
        BY WireAssumption
      <3>2. <<d, x>> \in T <=> <<d, x>> \in MemFresh
        BY <1>7, <2>3
      <3>. QED BY <1>4, <2>1, <2>2, <2>3, <3>1, <3>2
    <2>4. CASE x = b /\ (d # c \/ link[k] # "open")
      <3>1. <<d, x>> \notin T
        BY <1>1, <1>7, <2>4
      <3>2. b \in HeldBlocks(d) => RevSoon(d, b) \in Nat /\ RevSoon(d, b) <= rev
        BY SoonBounded
      <3>. QED BY <1>4, <2>1, <2>4, <3>1, <3>2
    <2>5. CASE x = b /\ d = c /\ link[k] = "open"
      BY <1>1, <1>3, <1>7, <2>1, <2>5
    <2>. QED BY <2>3, <2>4, <2>5
  <1>9. MemFresh' = T
    <2>1. T \subseteq Clients \X Hosted
      BY <1>1, <1>7, FreshFacts
    <2>. QED BY <1>8, <2>1, FreshNext, PairSets
  <1>10. MemLeft' = {w \in MemLeft : w.id # b}
    <2>1. link' = link /\ req'[k] = <<>> /\ \A j \in Conns : j # k => req'[j] = req[j]
      BY AnswerEffect
    <2>2. ASSUME NEW j \in Conns
          PROVE  /\ Orphan(j)' <=> Orphan(j) /\ Head(req[j]).id # b
                 /\ Orphan(j)' => req'[j] = req[j]
      <3>1. CASE j = k
        BY <2>1, <3>1 DEF Orphan
      <3>2. PICK x : x = Head(req[j]).id
        OBVIOUS
      <3>3. CASE j # k /\ x # b
        <4>1. x \in Hosted => blocks'[x] = blocks[x]
          BY <3>3, WireAssumption
        <4>2. req'[j] = req[j] /\ link'[j] = link[j]
          BY <2>1, <3>3
        <4>. QED BY <3>2, <3>3, <4>1, <4>2 DEF Orphan, Found
      <3>4. CASE j # k /\ x = b
        <4>1. req'[j] = req[j] /\ link'[j] = link[j]
          BY <2>1, <3>4
        <4>2. ASSUME Orphan(j)' PROVE FALSE
          <5>1. req[j] # <<>> /\ Head(req[j]).type = "WRITE" /\ Head(req[j]).rev = rev + 1
            BY <3>2, <3>4, <4>1, <4>2 DEF Orphan
          <5>2. WriteOK(j)
            BY DEF Inductive
          <5>3. rev + 1 <= rev
            BY <3>2, <3>4, <5>1, <5>2 DEF WriteOK, Agrees
          <5>. QED BY <5>3
        <4>. QED BY <3>2, <3>4, <4>2
      <3>. QED BY <3>1, <3>3, <3>4
    <2>3. ASSUME NEW w \in MemLeft' PROVE w \in MemLeft /\ w.id # b
      <3>1. PICK j \in Conns : Orphan(j)' /\ w = [id |-> Head(req'[j]).id, data |-> Content(Head(req'[j]))]
        BY <2>3 DEF MemLeft, Content
      <3>. QED BY <2>2, <3>1 DEF MemLeft
    <2>4. ASSUME NEW w \in MemLeft, w.id # b PROVE w \in MemLeft'
      <3>1. PICK j \in Conns : Orphan(j) /\ w = [id |-> Head(req[j]).id, data |-> Content(Head(req[j]))]
        BY <2>4 DEF MemLeft
      <3>2. Orphan(j)' /\ req'[j] = req[j]
        BY <2>2, <2>4, <3>1
      <3>. QED BY <3>1, <3>2 DEF MemLeft, Content
    <2>. QED BY <2>3, <2>4
  <1>. QED BY <1>5, <1>6, <1>7, <1>9, <1>10 DEF Memory!Overwrite

LEMMA WriteSeen ==
  ASSUME Inductive, NEW k \in Conns, HandleWrite(k), UNCHANGED clientVars
  PROVE  \/ \E c \in Clients, b \in Hosted : Memory!Write(c, b)
         \/ \E w \in MemLeft : Memory!LateWrite(w)
         \/ UNCHANGED Memory!vars
  <1>1. PICK b : b = Head(req[k]).id
    OBVIOUS
  <1>2. /\ req[k] # <<>> /\ Head(req[k]).type = "WRITE" /\ b \in Blocks /\ Head(req[k]).rev \in Nat
        /\ \A x \in Blocks : x # b => blocks'[x] = blocks[x]
    BY <1>1, WriteEffect
  <1>3. blocks \in [Blocks -> [rev : Revs, data : Data]]
    BY DEF Inductive, TypeInv, TypeOK, ServerTypeOK
  <1>4. PICK c \in Clients : c = k[1]
    BY DEF Conns
  <1>5. CASE Found(k, b) /\ blocks[b].rev = Head(req[k]).rev
    <2>1. PICK a \in Reply : a = PlainAck
      BY DEF PlainAck, Reply
    <2>2. Answer(k, a) /\ a.type = "ACK"
      BY <1>1, <1>5, <2>1 DEF HandleWrite, PlainAck
    <2>3. PICK v : v = Content(Head(req[k]))
      OBVIOUS
    <2>4. PICK rev \in Nat : rev = Head(req[k]).rev
      BY <1>2
    <2>5. b \in Hosted /\ blocks'[b] = [rev |-> rev + 1, data |-> v]
      BY <1>1, <1>2, <1>3, <1>5, <2>3, <2>4 DEF HandleWrite, Found
    <2>6. PICK S : S = IF link[k] = "open" THEN {<<k[1], b>>} ELSE {}
      OBVIOUS
    <2>7. Memory!Overwrite(b, v, S)
      BY <1>1, <1>2, <1>5, <2>2, <2>4, <2>5, <2>6, Overwritten
    <2>8. CASE link[k] = "open"
      <3>1. /\ b \in mapped[c] /\ call[c].op = "WRITE" /\ local[c][b].rev = blocks[b].rev
        BY <1>1, <1>2, <1>4, <1>5, <2>5, <2>8, CopyBehind
      <3>2. HeldBlocks(c) = {x \in mapped[c] \cap Hosted : ~(call[c].op = "MAP" /\ x = b)}
        BY <1>1, <1>2, <1>4, <2>2, <2>8, ClientAnswered, SMTT(30)
      <3>3. PlainCopies(c, b, a)
        BY <1>1, <1>2, <1>4, <2>2, <2>8, ClientAnswered
      <3>4. Content(Head(req[k])) = local[c][b].data
        BY <1>1, <1>2, <1>4, <2>2, <2>8, <3>1, ClientAnswered
      <3>5. <<c, b>> \in MemFresh /\ MemCopy[c][b] = v
        BY <2>3, <2>5, <3>1, <3>2, <3>3, <3>4, FreshFacts DEF PlainCopies, MemCopy
      <3>6. Memory!Finish(c, "WRITE", b, "ok")
        BY <1>1, <1>2, <1>4, <2>2, <2>5, <2>8, Finished
      <3>7. Memory!Write(c, b)
        BY <1>4, <2>6, <2>7, <2>8, <3>5, <3>6 DEF Memory!Write
      <3>. QED BY <2>5, <3>7
    <2>9. CASE link[k] # "open"
      <3>1. PICK w : w = [id |-> b, data |-> v]
        OBVIOUS
      <3>2. Orphan(k)
        BY <1>1, <1>2, <1>5, <2>9 DEF Orphan
      <3>3. w \in MemLeft
        BY <1>1, <2>3, <3>1, <3>2 DEF MemLeft
      <3>4. \A d \in Clients : Operation(d)' = Operation(d)
        BY <1>2, <2>2, <2>9, ServerOthers DEF SameView
      <3>5. MemOp' = MemOp
        BY <3>4 DEF MemOp
      <3>6. Memory!LateWrite(w)
        BY <2>6, <2>7, <2>9, <3>1, <3>3, <3>5 DEF Memory!LateWrite
      <3>. QED BY <3>3, <3>6
    <2>. QED BY <2>8, <2>9
  <1>6. CASE ~(Found(k, b) /\ blocks[b].rev = Head(req[k]).rev)
    <2>1. PICK a \in Reply : a = Nack
      BY DEF Nack, Reply
    <2>2. Answer(k, a) /\ a.type = "NACK"
      BY <1>1, <1>6, <2>1 DEF HandleWrite, Nack
    <2>3. ~Orphan(k) /\ blocks' = blocks
      BY <1>1, <1>6 DEF Orphan, HandleWrite
    <2>4. CASE link[k] # "open" \/ b \notin Hosted
      BY <1>1, <1>2, <2>2, <2>3, <2>4, NotSeen
    <2>5. CASE link[k] = "open" /\ b \in Hosted
      <3>1. /\ b \in mapped[c] /\ call[c].op = "WRITE" /\ Found(k, b)
            /\ Head(req[k]).rev = local[c][b].rev
        BY <1>1, <1>2, <1>4, <2>5, CopyBehind
      <3>2. /\ HeldBlocks(c) = {x \in mapped[c] \cap Hosted : ~(call[c].op = "MAP" /\ x = b)}
            /\ HeldBlocks(c)' = {x \in mapped[c] \cap Hosted :
                                   ~(call[c].op = "UNMAP" /\ x = b /\ a.type = "ACK")}
        BY <1>1, <1>2, <1>4, <2>2, <2>5, ClientAnswered
      <3>3. PlainCopies(c, b, a)
        BY <1>1, <1>2, <1>4, <2>2, <2>5, ClientAnswered
      <3>4. SameCopies(c)
        BY <2>2, <3>1, <3>2, <3>3 DEF SameCopies, PlainCopies
      <3>5. RevSoon(c, b) = local[c][b].rev
        BY <3>3 DEF PlainCopies
      <3>6. <<c, b>> \notin MemFresh
        BY <1>6, <2>5, <3>1, <3>5, FreshFacts
      <3>7. /\ Memory!Finish(c, "WRITE", b, "refused")
            /\ UNCHANGED <<MemData, MemHeld, MemCopy, MemFresh, MemLeft>>
        BY <1>1, <1>2, <1>4, <2>2, <2>3, <2>5, <3>4, OnlyFinished
      <3>8. Memory!Write(c, b)
        BY <3>6, <3>7 DEF Memory!Write
      <3>. QED BY <2>5, <3>8
    <2>. QED BY <2>4, <2>5
  <1>. QED BY <1>5, <1>6

LEMMA DisconnectSeen ==
  ASSUME NEW k \in Conns, Disconnect(k), UNCHANGED clientVars
  PROVE  UNCHANGED Memory!vars
  <1>1. UNCHANGED <<blocks, link, req, rep>> /\ UNCHANGED <<call, gen, mapped, local>>
    BY DEF Disconnect, wireVars, clientVars
  <1>2. \A d \in Clients : SameView(d)
    BY <1>1, ViewSame
  <1>3. \A d \in Clients : SameCopies(d) /\ Operation(d)' = Operation(d)
    BY <1>2, SameViewCopies
  <1>4. MemLeft' = MemLeft
    BY <1>1, LeftClient
  <1>5. MemOp' = MemOp
    BY <1>3 DEF MemOp
  <1>. QED BY <1>1, <1>3, <1>4, <1>5, MemorySame DEF Memory!vars

-----------------------------------------------------------------------------
(* The refinement. *)

LEMMA ServerSeen ==
  ASSUME Inductive, NEW k \in Conns, ServerStep(k), UNCHANGED clientVars
  PROVE  Memory!Next \/ UNCHANGED Memory!vars
  <1>1. CASE HandleMap(k)
    BY <1>1, MapSeen DEF Memory!Next, Memory!Step
  <1>2. CASE HandleUnmap(k)
    BY <1>2, UnmapSeen DEF Memory!Next, Memory!Step
  <1>3. CASE HandleUpdate(k)
    BY <1>3, UpdateSeen DEF Memory!Next, Memory!Step
  <1>4. CASE HandleWrite(k)
    BY <1>4, WriteSeen DEF Memory!Next, Memory!Step
  <1>5. CASE HandleWait(k)
    BY <1>5, WaitSeen DEF Memory!Next, Memory!Step
  <1>6. CASE Disconnect(k)
    BY <1>6, DisconnectSeen
  <1>. QED BY <1>1, <1>2, <1>3, <1>4, <1>5, <1>6 DEF ServerStep

LEMMA ClientSeen ==
  ASSUME Inductive, NEW c \in Clients, ClientStep(c), UNCHANGED serverVars
  PROVE  Memory!Next \/ UNCHANGED Memory!vars
  <1>1. CASE DmInit(c)
    BY <1>1, DmInitSeen
  <1>2. CASE Exit(c)
    BY <1>2, ExitSeen DEF Memory!Next
  <1>3. CASE Begin(c)
    BY <1>3, BeginSeen DEF Memory!Next
  <1>4. CASE Return(c)
    BY <1>4, ReturnSeen DEF Memory!Next
  <1>. QED BY <1>1, <1>2, <1>3, <1>4 DEF ClientStep

LEMMA IdleSeen ==
  ASSUME UNCHANGED vars
  PROVE  UNCHANGED Memory!vars
  <1>1. UNCHANGED <<blocks, link, req, rep>> /\ UNCHANGED <<call, gen, mapped, local>>
    BY DEF vars, wireVars, serverVars, clientVars
  <1>2. \A d \in Clients : SameView(d)
    BY <1>1, ViewSame
  <1>3. \A d \in Clients : SameCopies(d) /\ Operation(d)' = Operation(d)
    BY <1>2, SameViewCopies
  <1>4. MemLeft' = MemLeft
    BY <1>1, LeftClient
  <1>5. MemOp' = MemOp
    BY <1>3 DEF MemOp
  <1>. QED BY <1>1, <1>3, <1>4, <1>5, MemorySame DEF Memory!vars

LEMMA InitSeen == Init => Memory!Init
  <1>. SUFFICES ASSUME Init PROVE Memory!Init
    OBVIOUS
  <1>1. \A c \in Clients : call[c] = Off /\ mapped[c] = {}
    BY DEF Init, ClientInit
  <1>2. \A c \in Clients : HeldBlocks(c) = {} /\ Operation(c) = [state |-> "none"]
    BY <1>1, IdleView
  <1>3. MemData = [b \in Hosted |-> Zero]
    BY WireAssumption DEF MemData, Init, ServerInit
  <1>4. MemHeld = [c \in Clients |-> {}] /\ MemCopy = [c \in Clients |-> [b \in Hosted |-> Zero]]
    BY <1>2 DEF MemHeld, MemCopy
  <1>5. MemFresh = {}
    BY <1>2 DEF MemFresh
  <1>6. MemOp = [c \in Clients |-> Memory!NoOp]
    BY <1>2 DEF MemOp, Memory!NoOp
  <1>7. MemLeft = {}
    BY DEF MemLeft, Orphan, Init, WireInit
  <1>. QED BY <1>3, <1>4, <1>5, <1>6, <1>7 DEF Memory!Init

LEMMA StepSeen == Inductive /\ [Next]_vars => [Memory!Next]_Memory!vars
  <1>. SUFFICES ASSUME Inductive, [Next]_vars PROVE Memory!Next \/ UNCHANGED Memory!vars
    OBVIOUS
  <1>1. ASSUME NEW c \in Clients, ClientStep(c), UNCHANGED serverVars
        PROVE  Memory!Next \/ UNCHANGED Memory!vars
    BY <1>1, ClientSeen
  <1>2. ASSUME NEW k \in Conns, ServerStep(k), UNCHANGED clientVars
        PROVE  Memory!Next \/ UNCHANGED Memory!vars
    BY <1>2, ServerSeen
  <1>3. CASE UNCHANGED vars
    BY <1>3, IdleSeen
  <1>. QED BY <1>1, <1>2, <1>3 DEF Next

\* The protocol of libdm and dmserver (client.cpp, server.cpp) gives its
\* applications the memory of SharedMemory: whatever the number of clients,
\* servers and blocks, each call takes effect at one instant, and a write
\* succeeds exactly if nobody has written the block since the writer's copy
\* was synchronised.  The bounds on revisions and dm_init calls only end
\* behaviours early.
THEOREM SystemImplementsMemory == Spec => ImplementsMemory
  BY InitSeen, StepSeen, InductiveInvariant, PTL DEF Spec, ImplementsMemory, Memory!Spec
=============================================================================
