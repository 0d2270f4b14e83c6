------------------------------ MODULE Framing ------------------------------
(***************************************************************************)
(* Messages on the byte stream of a connection (secure_socket.cpp): the    *)
(* length and the encrypted text, sent by two calls of send and read by    *)
(* two of recv.  A recv returns what has arrived, which may be less than   *)
(* the text; then, and when the peer has closed or the client's time-out   *)
(* has run, the receiver gets an error.  A thread closes its connection    *)
(* (server.cpp); a client reports -4 and goes on with what is left in the  *)
(* stream (client.cpp).  A send to a peer that has closed its end raises   *)
(* SIGPIPE, which neither program handles.                                 *)
(***************************************************************************)
EXTENDS Naturals, SequencesExt

CONSTANTS
  Clients,
  Parts,     \* pieces of a text that a recv can return one at a time
  MaxCalls   \* bound: calls of one client

ASSUME FramingAssumption == Parts \in Nat \ {0} /\ MaxCalls \in Nat

Ways == {"request", "reply"}
\* A message in the stream: its length and the pieces of its text.
Packet(m) == [i \in 1 .. Parts + 1 |-> <<m, i - 1>>]
Piece == (1 .. MaxCalls) \X (0 .. Parts)

VARIABLES
  stream,   \* of each client and way: the pieces sent and not yet received
  expect,   \* what the receiver takes the next piece for
  made,     \* calls the client has made
  calling,  \* the client is in a call
  handled,  \* of each client: the requests its thread has handled
  taken,    \* of each client: the replies its calls have taken
  closed    \* <<c, "client">> or <<c, "server">>: ends that are closed

vars == <<stream, expect, made, calling, handled, taken, closed>>

TypeOK ==
  /\ stream \in [Clients -> [Ways -> Seq(Piece)]]
  /\ expect \in [Clients -> [Ways -> {"length", "text", "garbage"}]]
  /\ made \in [Clients -> 0 .. MaxCalls] /\ calling \in [Clients -> BOOLEAN]
  /\ handled \in [Clients -> Seq(1 .. MaxCalls)]
  /\ taken \in [Clients -> Seq(1 .. MaxCalls)]
  /\ closed \subseteq Clients \X {"client", "server"}

Init ==
  /\ stream = [c \in Clients |-> [w \in Ways |-> <<>>]]
  /\ expect = [c \in Clients |-> [w \in Ways |-> "length"]]
  /\ made = [c \in Clients |-> 0] /\ calling = [c \in Clients |-> FALSE]
  /\ handled = [c \in Clients |-> <<>>] /\ taken = handled
  /\ closed = {}

Runs(c) == <<c, "client">> \notin closed
Serves(c) == <<c, "server">> \notin closed
\* SIGPIPE ends a program, which closes all its sockets.
Kill(ends) == closed' = closed \cup ends

-----------------------------------------------------------------------------
\* recv_secure: the first recv gives a length, or what is taken for one after
\* the client has lost its place in the stream.  A part of a length leaves what
\* this and a Timeout, or a Drop, leave; a program whose buffer for a length that
\* is none cannot be allocated Exits, by std::bad_alloc.
RecvLength(c, w) ==
  /\ stream[c][w] # <<>> /\ expect[c][w] = "length"
  /\ IF w = "request" THEN Serves(c) ELSE Runs(c) /\ calling[c]
  /\ expect' = [expect EXCEPT ![c][w] = IF Head(stream[c][w])[2] = 0 THEN "text" ELSE "garbage"]
  /\ stream' = [stream EXCEPT ![c][w] = Tail(@)]
  /\ UNCHANGED <<made, calling, handled, taken, closed>>

\* The second recv gives at least one of the pieces that have been sent, and
\* all of a text only if they have all arrived.  A length that is not one is
\* never the number of bytes that arrive.
RecvText(c, w, n) ==
  /\ expect[c][w] # "length" /\ n \in 1 .. Len(stream[c][w])
  /\ expect[c][w] = "text" => n <= Parts
  /\ stream' = [stream EXCEPT ![c][w] = SubSeq(@, n + 1, Len(@))]
  /\ expect' = [expect EXCEPT ![c][w] = "length"]
Whole(c, w, n) == expect[c][w] = "text" /\ n = Parts

\* The answer to request m; if the client has closed, it is lost or the signal
\* ends the server.
Answer(c, n, m) ==
  \/ /\ stream' = [stream EXCEPT
           ![c]["request"] = SubSeq(@, n + 1, Len(@)),
           ![c]["reply"] = IF Runs(c) THEN @ \o Packet(m) ELSE @]
     /\ UNCHANGED closed
  \/ ~Runs(c) /\ Kill(Clients \X {"server"}) /\ UNCHANGED stream
\* Faulty variant: the request is taken for the one after it.
HandleNext(c, n) ==
  /\ Serves(c) /\ n <= Len(stream[c]["request"]) /\ Whole(c, "request", n)
  /\ handled' = [handled EXCEPT ![c] = Append(@, Head(stream[c]["request"])[1] + 1)]
  /\ expect' = [expect EXCEPT ![c]["request"] = "length"]
  /\ Answer(c, n, Head(stream[c]["request"])[1])
  /\ UNCHANGED <<made, calling, taken>>
\* A thread handles a request.
Handle(c, n) ==
  /\ Serves(c) /\ n <= Len(stream[c]["request"]) /\ Whole(c, "request", n)
  /\ handled' = [handled EXCEPT ![c] = Append(@, Head(stream[c]["request"])[1])]
  /\ expect' = [expect EXCEPT ![c]["request"] = "length"]
  /\ Answer(c, n, Head(stream[c]["request"])[1])
  /\ UNCHANGED <<made, calling, taken>>
\* Faulty variant: the thread goes on after a short read.
DropKeeps(c, n) ==
  /\ Serves(c) /\ RecvText(c, "request", n) /\ ~Whole(c, "request", n)
  /\ handled' = [handled EXCEPT ![c] = Append(@, Head(stream[c]["request"])[1])]
  /\ UNCHANGED <<made, calling, taken, closed>>
\* A thread that reads a part of a request gives up its client.
Drop(c, n) ==
  /\ Serves(c) /\ RecvText(c, "request", n) /\ ~Whole(c, "request", n)
  /\ closed' = closed \cup {<<c, "server">>}
  /\ UNCHANGED <<made, calling, handled, taken>>
\* Faulty variant: the end of the stream is looked for between requests only.
DisconnectBetween(c) ==
  /\ Serves(c) /\ ~Runs(c) /\ stream[c]["request"] = <<>> /\ expect[c]["request"] = "length"
  /\ closed' = closed \cup {<<c, "server">>}
  /\ UNCHANGED <<stream, expect, made, calling, handled, taken>>
\* The thread reads the end of the stream.
Disconnect(c) ==
  /\ Serves(c) /\ ~Runs(c) /\ stream[c]["request"] = <<>>
  /\ closed' = closed \cup {<<c, "server">>}
  /\ UNCHANGED <<stream, expect, made, calling, handled, taken>>

-----------------------------------------------------------------------------
\* A call sends its request.
Call(c) ==
  /\ Runs(c) /\ ~calling[c] /\ made[c] < MaxCalls
  /\ made' = [made EXCEPT ![c] = @ + 1]
  /\ \/ /\ stream' = [stream EXCEPT ![c]["request"] = IF Serves(c) THEN @ \o Packet(made'[c]) ELSE @]
        /\ calling' = [calling EXCEPT ![c] = TRUE] /\ UNCHANGED closed
     \/ ~Serves(c) /\ UNCHANGED <<stream, calling, closed>>   \* -4
     \/ ~Serves(c) /\ Kill({<<c, "client">>}) /\ UNCHANGED <<stream, calling>>
  /\ UNCHANGED <<expect, handled, taken>>

\* The call takes a reply for its own.
Take(c, n) ==
  /\ Runs(c) /\ calling[c] /\ RecvText(c, "reply", n) /\ Whole(c, "reply", n)
  /\ taken' = [taken EXCEPT ![c] = Append(@, Head(stream[c]["reply"])[1])]
  /\ calling' = [calling EXCEPT ![c] = FALSE]
  /\ UNCHANGED <<made, handled, closed>>
\* Faulty variant: a part of a reply is taken for the reply.
TakeShort(c, n) ==
  /\ Runs(c) /\ calling[c] /\ RecvText(c, "reply", n) /\ ~Whole(c, "reply", n)
  /\ taken' = [taken EXCEPT ![c] = Append(@, Head(stream[c]["reply"])[1])]
  /\ calling' = [calling EXCEPT ![c] = FALSE]
  /\ UNCHANGED <<made, handled, closed>>
\* -4: a part of a reply, or what follows a reply it did not read to its end.
Short(c, n) ==
  /\ Runs(c) /\ calling[c] /\ RecvText(c, "reply", n) /\ ~Whole(c, "reply", n)
  /\ calling' = [calling EXCEPT ![c] = FALSE]
  /\ UNCHANGED <<made, handled, taken, closed>>
\* -4: a recv that has timed out, or has read the end of the stream.
Timeout(c) ==
  /\ Runs(c) /\ calling[c]
  /\ calling' = [calling EXCEPT ![c] = FALSE]
  /\ expect' = [expect EXCEPT ![c]["reply"] = "length"]
  /\ UNCHANGED <<stream, made, handled, taken, closed>>
\* The program ends; in a call, the request may not have gone to its end.
Exit(c) ==
  LET queue == stream[c]["request"] IN
  /\ Runs(c) /\ closed' = closed \cup {<<c, "client">>}
  /\ \E n \in 0 .. Len(queue) :
       /\ n = Len(queue) \/ (calling[c] /\ n + Parts >= Len(queue))
       /\ stream' = [stream EXCEPT ![c]["request"] = SubSeq(queue, 1, n)]
  /\ UNCHANGED <<expect, made, calling, handled, taken>>

ThreadStep(c) ==
  \/ RecvLength(c, "request") \/ Disconnect(c)
  \/ \E n \in 1 .. Parts : Handle(c, n) \/ Drop(c, n)
ClientStep(c) ==
  \/ Call(c) \/ Exit(c) \/ Timeout(c) \/ RecvLength(c, "reply")
  \/ \E n \in 1 .. MaxCalls * (Parts + 1) : Take(c, n) \/ Short(c, n)

Next == \E c \in Clients : ThreadStep(c) \/ ClientStep(c)

\* Threads run.  Nothing else has to happen: a client may stop for good.
FairSpec == Init /\ [][Next]_vars /\ \A c \in Clients : WF_vars(ThreadStep(c))

-----------------------------------------------------------------------------
Increasing(q) == \A i, j \in DOMAIN q : i < j => q[i] < q[j]

\* Whatever recv returns, a thread handles the requests of its client in order,
\* each once and none that was not sent: it ends at the first error (server.cpp).
HandledInOrder ==
  \A c \in Clients : \A i \in DOMAIN handled[c] : handled[c][i] = i /\ i <= made[c]

\* A call never takes a part of a message for a reply, and the replies it takes
\* are those of requests that were handled, none twice, even after the client
\* has lost its place in the stream (client.cpp).
TakenInOrder ==
  \A c \in Clients : /\ Increasing(taken[c])
                     /\ Range(taken[c]) \subseteq Range(handled[c])

\* A thread that is not asleep in a dm_block_wait ends after its client, wherever
\* in a request the client has stopped (server.cpp).
ThreadsEnd == \A c \in Clients : ~Runs(c) ~> ~Serves(c)
=============================================================================
