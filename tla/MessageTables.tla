--------------------------- MODULE MessageTables ---------------------------
(***************************************************************************)
(* What the threads of a server share outside its mutex: the two static    *)
(* maps of Message, filled by whoever finds them empty (message.cpp), and  *)
(* the one stream of Logger (logger.cpp).  Program is a handler thread: it *)
(* announces its client in the log, and then for each request builds a     *)
(* Message, emits a NACK and asks for the type, which says how it goes on. *)
(* The accept loop's thread logs a refused connection twice, in            *)
(* SecureSocket::accept and, with the mutex, in Server::start.  An access  *)
(* to a map or to the stream is two steps, so that two threads can be      *)
(* inside together.                                                        *)
(***************************************************************************)
EXTENDS Naturals, FiniteSets, SequencesExt

CONSTANTS
  Threads,   \* the handler threads
  Main,      \* the thread of the accept loop
  Order,     \* the message types, in the order maps_initializer inserts them
  NoThread,  \* nobody holds the mutex
  MaxRequests  \* bound: requests of one thread

All == Threads \cup {Main}

ASSUME TablesAssumption ==
  /\ Order \in Seq(Range(Order)) /\ IsInjective(Order)
  /\ {"ACK", "NACK", "UNDEF"} \subseteq Range(Order) /\ "UNSET" \notin Range(Order)
  /\ Main \notin Threads /\ NoThread \notin All /\ MaxRequests \in Nat

Types == Range(Order)
Sent == Types \ {"ACK", "NACK", "UNDEF"}    \* the types of requests
Unset == "UNSET"                            \* no entry
Default == [names |-> "UNDEF", texts |-> ""]  \* what operator[] inserts

\* "names" is string_to_type and "texts" type_to_string; at "names" and "texts"
\* the thread is in maps_initializer.
Program ==
  <<"log", "recv", "names", "texts", "names", "texts", "emit", "type",
    "names", "texts", "emit",                             \* 9: an answer without the mutex
    "lock", "log", "names", "texts", "emit", "unlock",    \* 12: one with it
    "lock", "log", "sleep", "lock", "log", "unlock",      \* 18: dm_block_wait
    "end">>

VARIABLES
  entry,    \* the two maps; a type stands for its name too
  pc,       \* where each thread is in Program
  doing,    \* "request", "WAIT", "unknown": a type no case has; "bye", "accept"
  n,        \* the entry the thread inserts next in maps_initializer, or 0
  inside,   \* the thread is in the middle of an access
  key,      \* what the thread looks up
  value,    \* what it found at the last look-up of key
  count,    \* requests the thread has received
  mutex     \* the server's mutex

vars == <<entry, pc, doing, n, inside, key, value, count, mutex>>

TypeOK ==
  /\ entry \in [{"names", "texts"} -> [Types -> Types \cup {"", Unset}]]
  /\ pc \in [All -> DOMAIN Program] /\ n \in [All -> 0 .. Len(Order)]
  /\ doing \in [All -> {"request", "WAIT", "unknown", "bye", "accept"}]
  /\ inside \in [All -> BOOLEAN] /\ count \in [All -> 0 .. MaxRequests]
  /\ key \in [All -> Types] /\ value \in [All -> Types \cup {"", Unset}]
  /\ mutex \in All \cup {NoThread}

Init ==
  /\ entry = [table \in {"names", "texts"} |-> [x \in Types |-> Unset]]
  /\ pc = [t \in All |-> 1] /\ n = [t \in All |-> 0]
  /\ doing = [t \in All |-> IF t = Main THEN "accept" ELSE "request"]
  /\ inside = [t \in All |-> FALSE] /\ count = [t \in All |-> 0]
  /\ key = [t \in All |-> "NACK"] /\ value = [t \in All |-> Unset]
  /\ mutex = NoThread

At(t) == Program[pc[t]]

\* Where t goes on: what the client is told once the mutex is released, whether
\* there is an ACK, whether to wait (again).
Follow(t) ==
  CASE pc[t] = 1 /\ doing[t] = "accept" -> {12}
    [] pc[t] = 11 -> {IF doing[t] = "WAIT" THEN 18 ELSE 2}
    [] pc[t] = 13 -> IF doing[t] = "request" THEN {14, 17} ELSE {17}
    [] pc[t] = 17 -> {CASE doing[t] = "request" -> 2 [] doing[t] = "unknown" -> 9
                        [] doing[t] = "accept" -> 1 [] OTHER -> 24}
    [] pc[t] \in {18, 22} -> {19, 23}
    [] pc[t] = 23 -> {2}
    [] OTHER -> {pc[t] + 1}

Goto(t, p) == pc' = [pc EXCEPT ![t] = p]
Advance(t) == \E p \in Follow(t) : Goto(t, p)
Leave(t) == inside[t] /\ inside' = [inside EXCEPT ![t] = FALSE]

-----------------------------------------------------------------------------
\* The next request; its type is the key of the look-up in type().
Recv(t) ==
  /\ At(t) = "recv" /\ count[t] < MaxRequests
  /\ count' = [count EXCEPT ![t] = @ + 1] /\ Advance(t)
  /\ UNCHANGED <<entry, doing, n, inside, key, value, mutex>>

\* The client is gone: the thread logs that, with the mutex, and ends (a second
\* message in the log before it changes nothing here).
Bye(t) ==
  /\ At(t) = "recv"
  /\ doing' = [doing EXCEPT ![t] = "bye"] /\ Goto(t, 12)
  /\ UNCHANGED <<entry, n, inside, key, value, count, mutex>>

\* A connection that Socket::accept fails to accept is logged only once.
Refused(t) ==
  /\ pc[t] = 1 /\ doing[t] = "accept" /\ ~inside[t] /\ Advance(t)
  /\ UNCHANGED <<entry, doing, n, inside, key, value, count, mutex>>

Enter(t) ==
  /\ At(t) \in {"log", "names", "texts", "emit", "type"} /\ ~inside[t]
  /\ inside' = [inside EXCEPT ![t] = TRUE]
  /\ \E k \in CASE At(t) = "type" -> Sent
                [] At(t) = "emit" ->
                     {IF mutex = t \/ (pc[t] = 11 /\ doing[t] = "WAIT") THEN "ACK" ELSE "NACK"}
                [] OTHER -> {key[t]} :
       /\ key' = [key EXCEPT ![t] = k]
       /\ value' = [value EXCEPT ![t] = IF At(t) \in {"type", "emit"} THEN Unset ELSE @]
  /\ UNCHANGED <<entry, pc, doing, n, count, mutex>>

Logged(t) ==
  /\ At(t) = "log" /\ Leave(t) /\ Advance(t)
  /\ UNCHANGED <<entry, doing, n, key, value, count, mutex>>

\* Faulty variant: the size is not looked at.
SizeReadAlways(t) ==
  /\ At(t) \in {"names", "texts"} /\ n[t] = 0 /\ Leave(t)
  /\ n' = [n EXCEPT ![t] = 1] /\ UNCHANGED pc
  /\ UNCHANGED <<entry, doing, key, value, count, mutex>>
\* Faulty variant: the first type is not inserted.
SizeReadSkipsFirst(t) ==
  /\ At(t) \in {"names", "texts"} /\ n[t] = 0 /\ Leave(t)
  /\ IF \A x \in Types : entry[At(t)][x] = Unset
       THEN n' = [n EXCEPT ![t] = 2] /\ UNCHANGED pc
       ELSE Advance(t) /\ UNCHANGED n
  /\ UNCHANGED <<entry, doing, key, value, count, mutex>>
\* maps_initializer fills a map if its size is 0.
SizeRead(t) ==
  /\ At(t) \in {"names", "texts"} /\ n[t] = 0 /\ Leave(t)
  /\ IF \A x \in Types : entry[At(t)][x] = Unset
       THEN n' = [n EXCEPT ![t] = 1] /\ UNCHANGED pc
       ELSE Advance(t) /\ UNCHANGED n
  /\ UNCHANGED <<entry, doing, key, value, count, mutex>>

\* Faulty variant: one entry too many.
InsertTooMany(t) ==
  /\ At(t) \in {"names", "texts"} /\ n[t] > 0 /\ Leave(t)
  /\ entry' = [entry EXCEPT ![At(t)][Order[n[t]]] = Order[n[t]]]
  /\ n' = [n EXCEPT ![t] = n[t] + 1] /\ UNCHANGED <<pc, doing, key, value, count, mutex>>
Insert(t) ==
  /\ At(t) \in {"names", "texts"} /\ n[t] > 0 /\ Leave(t)
  /\ entry' = [entry EXCEPT ![At(t)][Order[n[t]]] = Order[n[t]]]
  /\ IF n[t] = Len(Order) THEN n' = [n EXCEPT ![t] = 0] /\ Advance(t)
                          ELSE n' = [n EXCEPT ![t] = n[t] + 1] /\ UNCHANGED pc
  /\ UNCHANGED <<doing, key, value, count, mutex>>

\* operator[] of a map inserts a default for a key it does not find.
LookUp(t, table, found) ==
  /\ Leave(t)
  /\ found = IF entry[table][key[t]] = Unset THEN Default[table] ELSE entry[table][key[t]]
  /\ entry' = [entry EXCEPT ![table][key[t]] = found]
  /\ value' = [value EXCEPT ![t] = found]
  /\ UNCHANGED <<n, key, count, mutex>>
\* The switch of client_handler.
Type(t) ==
  /\ At(t) = "type"
  /\ \E found \in Types \cup {""} :
       /\ LookUp(t, "names", found)
       /\ doing' = [doing EXCEPT ![t] = IF found \notin Sent THEN "unknown"
                                        ELSE IF found = "WAIT" THEN "WAIT" ELSE "request"]
       /\ Goto(t, IF found = "WAIT" THEN 9 ELSE 12)
Emit(t) ==
  /\ At(t) = "emit"
  /\ \E found \in Types \cup {""} : LookUp(t, "texts", found)
  /\ Advance(t) /\ UNCHANGED doing

\* Faulty variant: a lock of the handler's own.
LockOwn(t) ==
  /\ At(t) = "lock" /\ mutex' = t /\ Advance(t)
  /\ UNCHANGED <<entry, doing, n, inside, key, value, count>>
Lock(t) ==
  /\ At(t) = "lock" /\ mutex = NoThread
  /\ mutex' = t /\ Advance(t)
  /\ UNCHANGED <<entry, doing, n, inside, key, value, count>>
\* pthread_mutex_unlock, and pthread_cond_wait, which is followed by a lock.
Unlock(t) ==
  /\ At(t) \in {"unlock", "sleep"}
  /\ mutex' = NoThread /\ Advance(t)
  /\ UNCHANGED <<entry, doing, n, inside, key, value, count>>

Step(t) ==
  \/ Recv(t) \/ Bye(t) \/ Refused(t) \/ Enter(t) \/ Logged(t) \/ SizeRead(t) \/ Insert(t)
  \/ Type(t) \/ Emit(t) \/ Lock(t) \/ Unlock(t)

\* Clients connect and ask at any time, and go.
Next == \E t \in All : Step(t)
Spec == Init /\ [][Next]_vars

-----------------------------------------------------------------------------
\* The structure the thread is in, and whether it does or may change it: by an
\* insertion, or by operator[] on a key that is not there.
In(t) == CASE ~inside[t] -> "nothing" [] At(t) = "type" -> "names"
           [] At(t) = "emit" -> "texts" [] OTHER -> At(t)
Changes(t) == \/ At(t) \in {"names", "texts"} /\ n[t] > 0
              \/ At(t) \in {"type", "emit"} /\ entry[In(t)][key[t]] = Unset

\* A thread that found the map empty is still inserting.
Filling(table) == {t \in All : At(t) = table /\ n[t] > 0}

\* A thread changes one of Message's maps while another is in it, which std::map
\* does not allow and no mutex prevents (message.cpp), only while a thread in its
\* first request is still filling that map.
RacesOnlyWhileFilling ==
  \A t, u \in All :
    (t # u /\ In(t) \in {"names", "texts"} /\ Changes(t) /\ In(u) = In(t))
      => \E w \in Filling(In(t)) : count[w] = 1

\* type() returns the type of the message (message.h), unless somebody is
\* filling the map at that moment: no default it stored then is left over.
TypeReadOnceFilled ==
  [][\A t \in All :
       (At(t) = "type" /\ pc'[t] # pc[t] /\ Filling("names") = {})
         => value'[t] = key'[t]]_vars

\* Logger is not thread-safe (logger.h).  Two threads write to it at the same time
\* only if one of them announces its client (server.cpp) or is in accept
\* (secure_socket.cpp): they do without the mutex, and nobody else does.
LogExclusive ==
  \A t, u \in All :
    t # u /\ In(t) = "log" /\ In(u) = "log" => pc[t] = 1 \/ pc[u] = 1
=============================================================================
