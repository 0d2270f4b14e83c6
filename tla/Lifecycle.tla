----------------------------- MODULE Lifecycle -----------------------------
(***************************************************************************)
(* The dmserver process from its start to its end (dmserver.cpp, start and *)
(* stop in server.cpp): the pointer to the listening socket, and the       *)
(* handler of SIGINT, which runs on top of whatever thread the system      *)
(* interrupts, deletes the socket, writes to the log and exits.  Two locks *)
(* of the C library are not for handlers: malloc's, which every thread     *)
(* takes all the time, and ctime's, which the log takes; neither knows     *)
(* that the thread the handler runs on may have it.  What the use of a     *)
(* dead socket does is undefined: here it may end the process, or go       *)
(* unnoticed.  The server's mutex is left out: the handler does not take   *)
(* it.                                                                     *)
(***************************************************************************)
EXTENDS Naturals

CONSTANTS
  Handlers,    \* handler threads
  MaxSignals   \* bound: SIGINTs

Main == "main"
Threads == Handlers \cup {Main}

VARIABLES
  pc,        \* where each thread is, signal handler apart
  handler,   \* where its signal handler is, or "none"
  listen,    \* what listen_socket points to
  misused,   \* a dead or uninitialised listen_socket was used or deleted
  clock,     \* the lock in ctime: <<thread, "thread" or "handler">>, or Free
  heap,      \* malloc's lock, of a thread; its handler is quicker than a step
  signals,   \* SIGINTs delivered
  status     \* "running", the exit status, or "killed"

vars == <<pc, handler, listen, misused, clock, heap, signals, status>>
Free == <<>>

Init ==
  /\ pc = [t \in Threads |-> IF t = Main THEN "open" ELSE "none"]
  /\ handler = [t \in Threads |-> "none"]
  /\ listen \in {"garbage", "null"}   \* the constructor does not set it
  /\ misused = FALSE /\ clock = Free /\ heap = Free /\ signals = 0 /\ status = "running"

\* Thread t can go on: no signal handler is on top of it, and it is not in malloc.
Runs(t) == status = "running" /\ handler[t] = "none" /\ heap # <<t, "thread">>
At(t, label) == Runs(t) /\ pc[t] = label
Goto(t, label) == pc' = [pc EXCEPT ![t] = label]

Delete ==
  /\ misused' = (misused \/ listen \in {"garbage", "deleted"})
  /\ listen' = IF listen = "null" THEN "null" ELSE "deleted"

-----------------------------------------------------------------------------
\* Faulty variant: start() goes on without a socket.
OpenUnchecked ==
  /\ At(Main, "open") /\ Goto(Main, "started")
  /\ listen' = "live" \/ UNCHANGED listen
  /\ UNCHANGED <<handler, misused, clock, heap, signals, status>>
\* start(): the listening socket opens, or stop() is called and main returns 0.
Open ==
  /\ At(Main, "open")
  /\ \/ listen' = "live" /\ Goto(Main, "started")
     \/ UNCHANGED listen /\ Goto(Main, "stop")
  /\ UNCHANGED <<handler, misused, clock, heap, signals, status>>
Stop ==
  /\ At(Main, "stop") /\ Delete /\ Goto(Main, "stopped")
  /\ UNCHANGED <<handler, clock, heap, signals, status>>
Return ==
  /\ At(Main, "return") /\ status' = "0"
  /\ UNCHANGED <<pc, handler, listen, misused, clock, heap, signals>>

\* The accept loop: a connection that gets a thread or an error that is logged.
Accept ==
  /\ At(Main, "accept")
  /\ misused' = (misused \/ listen # "live")
  /\ \/ Goto(Main, "error")
     \/ \E h \in Handlers : pc[h] = "none" /\ pc' = [pc EXCEPT ![h] = "log"]
  /\ UNCHANGED <<handler, listen, clock, heap, signals, status>>

\* A request is logged; a thread ends.
Request(h) ==
  /\ At(h, "serve") /\ (Goto(h, "log") \/ Goto(h, "none"))
  /\ UNCHANGED <<handler, listen, misused, clock, heap, signals, status>>

\* A thread's own entry in the log, in two steps.
After(label) == CASE label = "started" -> "accept" [] label = "error" -> "accept"
                  [] label = "stopped" -> "return" [] label = "log" -> "serve"
Log(t) ==
  /\ Runs(t) /\ pc[t] \in {"started", "error", "stopped", "log"}
  /\ \/ clock = Free /\ clock' = <<t, "thread">> /\ UNCHANGED pc
     \/ clock = <<t, "thread">> /\ clock' = Free /\ Goto(t, After(pc[t]))
  /\ UNCHANGED <<handler, listen, misused, heap, signals, status>>

\* new, delete, strings and messages, in the log, too: a thread is in malloc or free.
Malloc(t) ==
  /\ Runs(t) /\ pc[t] # "none" /\ heap = Free /\ heap' = <<t, "thread">>
  /\ UNCHANGED <<pc, handler, listen, misused, clock, signals, status>>
Malloced(t) ==
  /\ status = "running" /\ handler[t] = "none" /\ heap = <<t, "thread">> /\ heap' = Free
  /\ UNCHANGED <<pc, handler, listen, misused, clock, signals, status>>

\* A send to a client that has left raises SIGPIPE; a dead socket was used.
Killed(t) ==
  /\ At(t, "serve") \/ At(t, "accept") \/ (status = "running" /\ misused)
  /\ status' = "killed"
  /\ UNCHANGED <<pc, handler, listen, misused, clock, heap, signals>>

-----------------------------------------------------------------------------
Signal(t) ==
  /\ status = "running" /\ signals < MaxSignals
  /\ pc[t] # "none" /\ handler[t] = "none"
  /\ signals' = signals + 1
  /\ handler' = [handler EXCEPT ![t] = "delete"]
  /\ UNCHANGED <<pc, listen, misused, clock, heap, status>>
\* Faulty variant: the handler exits without stop().
KillAtOnce(t) ==
  /\ status = "running" /\ handler[t] = "delete"
  /\ handler' = [handler EXCEPT ![t] = "exit"]
  /\ UNCHANGED <<pc, listen, misused, clock, heap, signals, status>>
\* kill_handler: stop(), which deletes and logs, and exit(0).  All of them need
\* malloc's lock; delete does nothing to a null pointer.
KillDelete(t) ==
  /\ status = "running" /\ handler[t] = "delete" /\ Delete
  /\ heap = Free \/ listen = "null"
  /\ handler' = [handler EXCEPT ![t] = "log"]
  /\ UNCHANGED <<pc, clock, heap, signals, status>>
KillLog(t) ==
  /\ status = "running" /\ handler[t] = "log"
  /\ \/ clock = Free /\ clock' = <<t, "handler">> /\ UNCHANGED handler
     \/ /\ clock = <<t, "handler">> /\ heap = Free /\ clock' = Free
        /\ handler' = [handler EXCEPT ![t] = "exit"]
  /\ UNCHANGED <<pc, listen, misused, heap, signals, status>>
\* Faulty variant: the handler returns to the thread.
KillReturns(t) ==
  /\ status = "running" /\ handler[t] = "exit" /\ handler' = [handler EXCEPT ![t] = "none"]
  /\ UNCHANGED <<pc, listen, misused, clock, heap, signals, status>>
KillExit(t) ==
  /\ status = "running" /\ handler[t] = "exit" /\ heap = Free /\ status' = "0"
  /\ UNCHANGED <<pc, handler, listen, misused, clock, heap, signals>>

ThreadStep(t) ==
  \/ t = Main /\ (Open \/ Stop \/ Return \/ Accept)
  \/ t \in Handlers /\ Request(t)
  \/ Log(t) \/ Malloc(t) \/ Malloced(t) \/ Killed(t)
  \/ KillDelete(t) \/ KillLog(t) \/ KillExit(t)
Next == \E t \in Threads : ThreadStep(t) \/ Signal(t)

\* A thread that is in malloc or at its log entry goes on, and so does a handler:
\* neither lock starves anybody.  accept and recv may wait for ever, and nothing
\* need be killed.
Spec == Init /\ [][Next]_vars
  /\ \A t \in Threads : /\ WF_vars(Malloced(t)) /\ SF_vars(Log(t))
                        /\ SF_vars(KillDelete(t) \/ KillLog(t) \/ KillExit(t))

-----------------------------------------------------------------------------
\* What it takes to use or delete a listen_socket that is not there: two SIGINTs,
\* one that comes to a handler thread while the accept loop goes on, or one before
\* start() has opened the socket or a start() that cannot.  One SIGINT to the
\* thread in the accept loop, wherever it is and whatever the others do, is safe
\* (server.cpp, dmserver.cpp).
OneSigintSafe ==
  misused => \/ signals > 1
             \/ \E h \in Handlers : handler[h] # "none"
             \/ pc[Main] \in {"open", "stop", "stopped", "return"}

\* The process ends by itself only with the socket closed, however signals, the
\* failure of start() and the threads' own work interleave (server.h).
ClosedAtExit == status = "0" => listen # "live"

\* The signal came while its thread had a lock its handler needs.
SelfLocked ==
  \E t \in Threads : handler[t] # "none" /\ <<t, "thread">> \in {clock, heap}

\* SIGINT quits the server (server.h), whatever its threads are doing, unless it
\* interrupts one inside ctime or malloc, whose lock its handler then waits for.
SigintQuits == signals > 0 ~> status # "running" \/ SelfLocked
=============================================================================
