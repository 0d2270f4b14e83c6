---------------------------- MODULE DaemonProofs ----------------------------
(***************************************************************************)
(* What dmserver does besides serving requests: its configuration, and the *)
(* listening socket from start to end.                                     *)
(*                                                                         *)
(* The configuration, for any number of servers, blocks and entries: what  *)
(* the search over the map returns, and that the map holds the last entry  *)
(* of each server.  The search is a recursive function; instead of an      *)
(* induction along the map the proofs take the least place where the       *)
(* result would differ from what is claimed.                               *)
(*                                                                         *)
(* The listening socket, for any number of threads and of SIGINTs: the     *)
(* handler of the signal never returns, so a thread it runs on goes no     *)
(* further, and before start() has opened the socket the main thread is    *)
(* the only one it can run on.                                             *)
(***************************************************************************)
EXTENDS Configuration, Lifecycle, WellFoundedInduction, TLAPS

-----------------------------------------------------------------------------
(* The search. *)

\* A set of naturals with an element has a least one.
LEMMA LeastNat ==
  ASSUME NEW T, T \subseteq Nat, T # {}
  PROVE  \E x \in T : \A y \in T : x <= y
  <1>1. PICK R : R = OpToRel(<, Nat)
    OBVIOUS
  <1>2. IsWellFoundedOn(R, Nat)
    BY <1>1, NatLessThanWellFounded
  <1>3. \A x, y \in Nat : x < y => <<x, y>> \in R
    BY <1>1 DEF OpToRel
  <1>4. PICK x \in T : \A y \in T : ~ (<<y, x>> \in R)
    BY <1>2, WFMin
  <1>5. \A y \in T : ~ (y < x)
    BY <1>3, <1>4
  <1>. QED BY <1>5

\* The places of the servers that have a block.
Hits(b) == {i \in 1 .. Len(Ids) : Ids[i] \in DOMAIN servers /\ b \in servers[Ids[i]]}

\* The last place up to i of a server that has the block.
LastHit(b, i, k) == k \in Hits(b) /\ k <= i /\ \A j \in Hits(b) : j <= i => j <= k

LEMMA LastHitExists ==
  ASSUME NEW b, NEW i \in Nat, NEW h \in Hits(b), h <= i
  PROVE  \E k \in Hits(b) : LastHit(b, i, k)
  <1>1. Hits(b) \subseteq Nat
    BY DEF Hits
  <1>. DEFINE T == {n \in Nat : \E j \in Hits(b) : j <= i /\ n = i - j}
  <1>2. i - h \in T
    BY <1>1
  <1>3. PICK n \in T : \A m \in T : n <= m
    <2>1. T \subseteq Nat /\ T # {}
      BY <1>2
    <2>. HIDE DEF T
    <2>. QED BY <2>1, LeastNat
  <1>4. PICK k \in Hits(b) : k <= i /\ n = i - k
    OBVIOUS
  <1>5. ASSUME NEW j \in Hits(b), j <= i PROVE j <= k
    <2>1. i - j \in T
      BY <1>1, <1>5
    <2>. QED BY <1>1, <1>3, <1>4, <1>5, <2>1
  <1>. QED BY <1>4, <1>5 DEF LastHit

LEMMA LastHitUnique ==
  ASSUME NEW b, NEW i \in Nat, NEW k, NEW m, LastHit(b, i, k), LastHit(b, i, m)
  PROVE  k = m
  <1>1. k \in Nat /\ m \in Nat /\ k <= m /\ m <= k
    BY DEF LastHit, Hits
  <1>. QED BY <1>1

\* The equation of the search, and a function that satisfies it.
Scan(b, f) ==
  f = [i \in 0 .. Len(Ids) |->
        IF i = 0 THEN NoServer
        ELSE IF Ids[i] \in DOMAIN servers /\ b \in servers[Ids[i]] THEN Ids[i] ELSE f[i - 1]]

Closed(b) ==
  [i \in 0 .. Len(Ids) |->
     IF \E k \in Hits(b) : LastHit(b, i, k) THEN Ids[CHOOSE k \in Hits(b) : LastHit(b, i, k)]
     ELSE NoServer]

LEMMA ClosedStep ==
  ASSUME NEW b, Len(Ids) \in Nat, NEW i \in 0 .. Len(Ids)
  PROVE  Closed(b)[i] = IF i = 0 THEN NoServer
                        ELSE IF i \in Hits(b) THEN Ids[i] ELSE Closed(b)[i - 1]
  <1>1. CASE i = 0
    <2>1. ~ \E k \in Hits(b) : LastHit(b, i, k)
      BY <1>1 DEF LastHit, Hits
    <2>. QED BY <1>1, <2>1 DEF Closed
  <1>2. CASE i # 0 /\ i \in Hits(b)
    <2>1. LastHit(b, i, i)
      BY <1>2 DEF LastHit, Hits
    <2>2. \A k \in Hits(b) : LastHit(b, i, k) => k = i
      BY <2>1, LastHitUnique
    <2>3. (CHOOSE k \in Hits(b) : LastHit(b, i, k)) = i
      BY <1>2, <2>1, <2>2
    <2>. QED BY <1>2, <2>1, <2>3 DEF Closed
  <1>3. CASE i # 0 /\ i \notin Hits(b)
    <2>1. i - 1 \in 0 .. Len(Ids)
      BY <1>3
    <2>2. \A k \in Hits(b) : LastHit(b, i, k) <=> LastHit(b, i - 1, k)
      BY <1>3 DEF LastHit, Hits
    <2>3. PICK m : m = i - 1
      OBVIOUS
    <2>4. /\ (\E k \in Hits(b) : LastHit(b, i, k)) <=> (\E k \in Hits(b) : LastHit(b, m, k))
          /\ (CHOOSE k \in Hits(b) : LastHit(b, i, k)) = (CHOOSE k \in Hits(b) : LastHit(b, m, k))
      BY <2>2, <2>3, Zenon
    <2>5. Closed(b)[i] = Closed(b)[m]
      BY <2>1, <2>3, <2>4 DEF Closed
    <2>. QED BY <1>3, <2>3, <2>5
  <1>. QED BY <1>1, <1>2, <1>3

LEMMA ScanExists ==
  ASSUME NEW b, Len(Ids) \in Nat
  PROVE  \E f : Scan(b, f)
  <1>1. PICK f : f = Closed(b)
    OBVIOUS
  <1>2. f = [i \in 0 .. Len(Ids) |-> f[i]]
    BY <1>1 DEF Closed
  <1>3. \A i \in 0 .. Len(Ids) : f[i] = IF i = 0 THEN NoServer
                                        ELSE IF i \in Hits(b) THEN Ids[i] ELSE f[i - 1]
    BY <1>1, ClosedStep
  <1>4. \A i \in 0 .. Len(Ids) : f[i] = IF i = 0 THEN NoServer
                   ELSE IF Ids[i] \in DOMAIN servers /\ b \in servers[Ids[i]] THEN Ids[i] ELSE f[i - 1]
    BY <1>3 DEF Hits
  <1>5. Scan(b, f)
    BY <1>2, <1>4 DEF Scan
  <1>. QED BY <1>5

LEMMA FindServerScans ==
  ASSUME NEW b, Len(Ids) \in Nat
  PROVE  \E f : Scan(b, f) /\ FindServer(b) = f[Len(Ids)]
  <1>. DEFINE g == CHOOSE scan : scan = [i \in 0 .. Len(Ids) |->
                 IF i = 0 THEN NoServer
                 ELSE IF Ids[i] \in DOMAIN servers /\ b \in servers[Ids[i]] THEN Ids[i] ELSE scan[i - 1]]
  <1>1. FindServer(b) = g[Len(Ids)]
    BY DEF FindServer
  <1>2. Scan(b, g)
    BY ScanExists DEF Scan
  <1>. QED BY <1>1, <1>2

\* The search returns the last server that has the block, and the empty id if none has it.
THEOREM FindServerLast ==
  ASSUME NEW b, Len(Ids) \in Nat
  PROVE  IF Hits(b) = {} THEN FindServer(b) = NoServer
         ELSE \E k \in Hits(b) : FindServer(b) = Ids[k] /\ \A j \in Hits(b) : j <= k
  <1>1. PICK f : Scan(b, f) /\ FindServer(b) = f[Len(Ids)]
    BY FindServerScans
  <1>2. \A i \in 0 .. Len(Ids) : f[i] = IF i = 0 THEN NoServer
                                        ELSE IF i \in Hits(b) THEN Ids[i] ELSE f[i - 1]
    BY <1>1 DEF Scan, Hits
  \* From a place on, without a hit behind it, the result does not change.
  <1>3. ASSUME NEW k \in 0 .. Len(Ids), \A j \in Hits(b) : j <= k
        PROVE  f[Len(Ids)] = f[k]
    <2>. DEFINE T == {i \in Nat : k <= i /\ i <= Len(Ids) /\ f[i] # f[k]}
    <2>. SUFFICES ASSUME T # {} PROVE FALSE
      BY SMT
    <2>1. PICK i \in T : \A j \in T : i <= j
      <3>1. T \subseteq Nat /\ T # {}
        OBVIOUS
      <3>. HIDE DEF T
      <3>. QED BY <3>1, LeastNat
    <2>2. i \in Nat /\ k < i /\ i <= Len(Ids) /\ f[i] # f[k]
      OBVIOUS
    <2>3. i \notin Hits(b)
      BY <1>3, <2>2
    <2>4. f[i] = f[i - 1]
      BY <1>2, <2>2, <2>3
    <2>5. i - 1 \in T
      BY <2>2, <2>4
    <2>. QED BY <2>1, <2>2, <2>5
  <1>4. CASE Hits(b) = {}
    <2>1. f[Len(Ids)] = f[0]
      BY <1>3, <1>4
    <2>2. f[0] = NoServer
      BY <1>2
    <2>. QED BY <1>1, <1>4, <2>1, <2>2
  <1>5. CASE Hits(b) # {}
    <2>1. PICK h : h \in Hits(b)
      BY <1>5
    <2>2. PICK k \in Hits(b) : LastHit(b, Len(Ids), k)
      BY <2>1, LastHitExists DEF Hits
    <2>3. k \in 0 .. Len(Ids) /\ k # 0 /\ \A j \in Hits(b) : j <= k
      BY <2>2 DEF LastHit, Hits
    <2>4. f[Len(Ids)] = f[k] /\ f[k] = Ids[k]
      BY <1>2, <1>3, <2>3
    <2>. QED BY <1>1, <1>5, <2>3, <2>4
  <1>. QED BY <1>4, <1>5

\* Whatever is in the map, Owner and Hosted agree.
LEMMA OwnerHostsAlways == OwnerHosts
  <1>1. Len(Ids) \in Nat /\ Range(Ids) = {Ids[i] : i \in 1 .. Len(Ids)}
    BY ConfigurationAssumption DEF Range
  <1>2. \A id \in Range(Ids), b \in Blocks : b \in Creates(id) <=> id \in DOMAIN servers /\ b \in servers[id]
    BY DEF Creates
  <1>3. SUFFICES ASSUME NEW b \in Blocks
                 PROVE  IF \E id \in Range(Ids) : b \in Creates(id)
                          THEN b \in Creates(FindServer(b))
                          ELSE FindServer(b) = NoServer
    BY DEF OwnerHosts
  <1>4. \A i \in 1 .. Len(Ids) : i \in Hits(b) <=> b \in Creates(Ids[i])
    BY <1>1, <1>2 DEF Hits
  <1>5. Hits(b) # {} <=> \E id \in Range(Ids) : b \in Creates(id)
    BY <1>1, <1>4 DEF Hits
  <1>6. CASE Hits(b) = {}
    BY <1>1, <1>5, <1>6, FindServerLast
  <1>7. CASE Hits(b) # {}
    <2>1. PICK k \in Hits(b) : FindServer(b) = Ids[k]
      BY <1>1, <1>7, FindServerLast
    <2>2. k \in 1 .. Len(Ids)
      BY DEF Hits
    <2>. QED BY <1>4, <1>5, <1>7, <2>1, <2>2
  <1>. QED BY <1>6, <1>7

\* The server a client goes to for a block has created it, and a client finds
\* a server for every block that some server has created.
THEOREM OwnersHost == ConfigSpec => []OwnerHosts
  BY OwnerHostsAlways, PTL

-----------------------------------------------------------------------------
(* The entries. *)

\* What the configuration knows of a server: its last entry, if there is one.
EntriesOf(id) == {i \in DOMAIN entries : entries[i][1] = id}
FromLast(id) ==
  IF EntriesOf(id) = {}
    THEN id \notin DOMAIN servers
    ELSE id \in DOMAIN servers /\ \E i \in EntriesOf(id) :
           servers[id] = entries[i][2] /\ \A j \in EntriesOf(id) : j <= i

ConfigInv ==
  /\ entries \in Seq(Range(Ids) \X SUBSET Blocks)
  /\ failed \in BOOLEAN
  /\ failed => DOMAIN servers = {}
  /\ ~failed => \A id \in Range(Ids) : FromLast(id)

LEMMA ConfigInitInv == ConfigInit => ConfigInv
  <1>. SUFFICES ASSUME ConfigInit PROVE ConfigInv
    OBVIOUS
  <1>1. /\ entries = <<>> /\ entries \in Seq(Range(Ids) \X SUBSET Blocks)
        /\ DOMAIN servers = {} /\ failed = FALSE
    BY DEF ConfigInit
  <1>2. \A id : EntriesOf(id) = {}
    BY <1>1 DEF EntriesOf
  <1>3. \A id : FromLast(id)
    BY <1>1, <1>2 DEF FromLast
  <1>. QED BY <1>1, <1>3 DEF ConfigInv

LEMMA EntryInv ==
  ASSUME ConfigInv, NEW id \in Range(Ids), NEW blocks \in SUBSET Blocks, Entry(id, blocks)
  PROVE  ConfigInv'
  <1>1. /\ entries \in Seq(Range(Ids) \X SUBSET Blocks) /\ failed = FALSE /\ failed' = FALSE
        /\ \A x \in Range(Ids) : FromLast(x)
    BY DEF ConfigInv, Entry
  <1>2. PICK n \in Nat : n = Len(entries)
    BY <1>1
  <1>3. /\ entries' \in Seq(Range(Ids) \X SUBSET Blocks)
        /\ DOMAIN entries = 1 .. n /\ DOMAIN entries' = 1 .. n + 1
        /\ \A i \in 1 .. n : entries'[i] = entries[i]
        /\ entries'[n + 1] = <<id, blocks>>
    BY <1>1, <1>2 DEF Entry
  <1>4. /\ DOMAIN servers' = DOMAIN servers \cup {id} /\ servers'[id] = blocks
        /\ \A x \in DOMAIN servers : x # id => servers'[x] = servers[x]
    BY DEF Entry
  <1>5. ASSUME NEW x \in Range(Ids) PROVE FromLast(x)'
    <2>1. CASE x = id
      <3>1. n + 1 \in EntriesOf(x)' /\ \A j \in EntriesOf(x)' : j <= n + 1
        BY <1>2, <1>3, <2>1 DEF EntriesOf
      <3>2. x \in DOMAIN servers' /\ servers'[x] = entries'[n + 1][2]
        BY <1>3, <1>4, <2>1
      <3>. QED BY <3>1, <3>2 DEF FromLast
    <2>2. CASE x # id
      <3>1. EntriesOf(x)' = EntriesOf(x)
        BY <1>2, <1>3, <2>2 DEF EntriesOf
      <3>2. \A i \in EntriesOf(x) : entries'[i] = entries[i]
        BY <1>3 DEF EntriesOf
      <3>3. FromLast(x)
        BY <1>1
      <3>. QED BY <1>4, <2>2, <3>1, <3>2, <3>3 DEF FromLast
    <2>. QED BY <2>1, <2>2
  <1>. QED BY <1>1, <1>3, <1>5 DEF ConfigInv

LEMMA ErrorInv ==
  ASSUME ConfigInv, Error
  PROVE  ConfigInv'
  BY DEF ConfigInv, Error

LEMMA ConfigStep == ConfigInv /\ [ConfigNext]_configVars => ConfigInv'
  <1>. SUFFICES ASSUME ConfigInv, [ConfigNext]_configVars PROVE ConfigInv'
    OBVIOUS
  <1>1. CASE Error
    BY <1>1, ErrorInv
  <1>2. ASSUME NEW id \in Range(Ids), NEW blocks \in SUBSET Blocks, Entry(id, blocks)
        PROVE  ConfigInv'
    BY <1>2, EntryInv
  <1>3. CASE UNCHANGED configVars
    <2>1. /\ \A x : FromLast(x)' <=> FromLast(x)
          /\ servers' = servers /\ entries' = entries /\ failed' = failed
      BY <1>3 DEF configVars, FromLast, EntriesOf
    <2>. QED BY <2>1 DEF ConfigInv
  <1>. QED BY <1>1, <1>2, <1>3 DEF ConfigNext

LEMMA ConfigLast == ConfigInv => LastEntryCounts
  <1>. SUFFICES ASSUME ConfigInv, NEW id \in Range(Ids)
                PROVE  Creates(id) = IF failed \/ EntriesOf(id) = {} THEN {}
                                     ELSE entries[Max(EntriesOf(id))][2]
    BY DEF LastEntryCounts, EntriesOf
  <1>1. CASE failed
    BY <1>1 DEF ConfigInv, Creates
  <1>2. CASE ~failed /\ EntriesOf(id) = {}
    BY <1>2 DEF ConfigInv, FromLast, Creates
  <1>3. CASE ~failed /\ EntriesOf(id) # {}
    <2>1. PICK i \in EntriesOf(id) : /\ id \in DOMAIN servers /\ servers[id] = entries[i][2]
                                     /\ \A j \in EntriesOf(id) : j <= i
      BY <1>3 DEF ConfigInv, FromLast
    <2>2. EntriesOf(id) \subseteq Nat
      BY DEF EntriesOf, ConfigInv
    <2>3. \A k \in EntriesOf(id) : (\A j \in EntriesOf(id) : k >= j) <=> k = i
      BY <2>1, <2>2
    <2>4. Max(EntriesOf(id)) = i
      BY <2>3 DEF Max
    <2>. QED BY <1>3, <2>1, <2>4 DEF Creates
  <1>. QED BY <1>1, <1>2, <1>3

\* A server listed once serves what its entry lists; of a server listed twice
\* the last entry counts, and nothing is left of a file with an error.
THEOREM LastEntry == ConfigSpec => []LastEntryCounts
  <1>1. ConfigSpec => []ConfigInv
    BY ConfigInitInv, ConfigStep, PTL DEF ConfigSpec
  <1>. QED BY <1>1, ConfigLast, PTL

-----------------------------------------------------------------------------
(* The listening socket. *)

Workers == Handlers \ {Main}

Labels == {"none", "open", "started", "accept", "error", "stop", "stopped", "return",
           "log", "serve", "delete", "exit"}

Opened == {"started", "accept", "error"}   \* start() has the socket

PlaceOK ==
  /\ pc[Main] \in Opened \cup {"open", "stop", "stopped", "return"}
  /\ \A h \in Workers : pc[h] \in {"none", "log", "serve"}
  /\ pc[Main] = "open" => \A h \in Workers : pc[h] = "none"

SignalOK ==
  /\ \A t \in Threads : handler[t] # "none" => signals > 0 /\ pc[t] # "none"
  /\ \A t \in Threads : handler[t] \in {"log", "exit"} => listen # "live"
  /\ signals > 0 => \E t \in Threads : handler[t] # "none"

\* At most one SIGINT has come, to the main thread, and has not deleted yet.
Untouched ==
  /\ signals <= 1 /\ handler[Main] \in {"none", "delete"}
  /\ \A h \in Handlers : handler[h] = "none"

SocketOK ==
  /\ Untouched /\ pc[Main] \in Opened => listen = "live"
  /\ pc[Main] \in {"stopped", "return"} => listen # "live"
  /\ misused /\ pc[Main] \in {"open", "stop"} => signals > 0

LifecycleInv ==
  /\ pc \in [Threads -> Labels] /\ handler \in [Threads -> Labels]
  /\ signals \in Nat /\ misused \in BOOLEAN
  /\ PlaceOK /\ SignalOK /\ SocketOK
  /\ OneSigintSafe /\ ClosedAtExit

-----------------------------------------------------------------------------
LEMMA LifecycleInit == Init => LifecycleInv
  <1>. SUFFICES ASSUME Init PROVE LifecycleInv
    OBVIOUS
  <1>1. /\ pc \in [Threads -> Labels] /\ handler \in [Threads -> Labels] /\ signals \in Nat
        /\ pc[Main] = "open" /\ \A h \in Workers : pc[h] = "none"
        /\ \A t \in Threads : handler[t] = "none"
        /\ misused = FALSE /\ signals = 0
    BY DEF Init, Workers, Threads, Labels
  <1>2. PlaceOK /\ SignalOK /\ SocketOK
    BY <1>1 DEF PlaceOK, SignalOK, SocketOK, Opened
  <1>3. OneSigintSafe
    BY <1>1 DEF OneSigintSafe
  <1>4. ClosedAtExit
    BY DEF Init, ClosedAtExit
  <1>. QED BY <1>1, <1>2, <1>3, <1>4 DEF LifecycleInv

\* The main thread goes on to another place.
LEMMA MainMoves ==
  ASSUME LifecycleInv, NEW label,
         Goto(Main, label), UNCHANGED handler, handler[Main] = "none",
         label \in Opened \cup {"stop", "stopped", "return"}
  PROVE  /\ pc' \in [Threads -> Labels] /\ pc'[Main] = label
         /\ \A h \in Workers : pc'[h] = pc[h]
         /\ \A t \in Threads : handler'[t] # "none" => pc'[t] = pc[t]
         /\ PlaceOK'
  <1>1. /\ Main \in Threads /\ \A h \in Workers : h \in Threads /\ h # Main
        /\ pc \in [Threads -> Labels]
    BY DEF Threads, Workers, LifecycleInv
  <1>2. /\ pc' \in [Threads -> Labels] /\ pc'[Main] = label
        /\ \A t \in Threads : t # Main => pc'[t] = pc[t]
    BY <1>1 DEF Goto, Labels, Opened
  <1>3. \A h \in Workers : pc[h] \in {"none", "log", "serve"}
    BY DEF LifecycleInv, PlaceOK
  <1>4. PlaceOK'
    BY <1>1, <1>2, <1>3 DEF PlaceOK, Opened
  <1>. QED BY <1>1, <1>2, <1>4

\* start(): nothing has happened before, and a signal waits for its thread.
LEMMA OpenKeeps ==
  ASSUME LifecycleInv, Open
  PROVE  LifecycleInv'
  <1>1. /\ Main \in Threads /\ UNCHANGED <<handler, misused, signals, status>>
        /\ handler[Main] = "none" /\ pc[Main] = "open" /\ status = "running"
        /\ \A t \in Threads : t = Main \/ t \in Workers
    BY DEF Open, At, Runs, Threads, Workers
  <1>2. \A t \in Threads : handler[t] = "none"
    BY <1>1 DEF LifecycleInv, PlaceOK, SignalOK
  <1>3. ~(signals > 0)
    BY <1>2 DEF LifecycleInv, SignalOK
  <1>4. misused' = FALSE
    BY <1>1, <1>3 DEF LifecycleInv, SocketOK
  <1>5. \/ listen' = "live" /\ Goto(Main, "started")
        \/ Goto(Main, "stop")
    BY DEF Open
  <1>6. /\ pc' \in [Threads -> Labels] /\ PlaceOK'
        /\ (pc'[Main] = "started" /\ listen' = "live") \/ pc'[Main] = "stop"
    BY <1>1, <1>5, MainMoves DEF Opened
  <1>7. SignalOK'
    BY <1>1, <1>2, <1>3 DEF SignalOK
  <1>8. SocketOK'
    BY <1>4, <1>6 DEF SocketOK, Opened
  <1>9. OneSigintSafe' /\ ClosedAtExit'
    BY <1>1, <1>4 DEF OneSigintSafe, ClosedAtExit
  <1>. QED BY <1>1, <1>4, <1>6, <1>7, <1>8, <1>9 DEF LifecycleInv

LEMMA StopKeeps ==
  ASSUME LifecycleInv, Stop
  PROVE  LifecycleInv'
  <1>1. /\ UNCHANGED <<handler, signals, status>> /\ handler[Main] = "none"
        /\ listen' # "live" /\ misused' \in BOOLEAN /\ status = "running"
    BY DEF Stop, Delete, At, Runs, LifecycleInv
  <1>2. /\ pc' \in [Threads -> Labels] /\ PlaceOK' /\ pc'[Main] = "stopped"
        /\ \A t \in Threads : handler'[t] # "none" => pc'[t] = pc[t]
    BY <1>1, MainMoves DEF Stop
  <1>3. SignalOK'
    BY <1>1, <1>2 DEF LifecycleInv, SignalOK
  <1>4. SocketOK' /\ OneSigintSafe' /\ ClosedAtExit'
    BY <1>1, <1>2 DEF SocketOK, OneSigintSafe, ClosedAtExit, Opened
  <1>. QED BY <1>1, <1>2, <1>3, <1>4 DEF LifecycleInv

\* The accept loop uses the socket: it is there, or the case is one of the three.
LEMMA AcceptKeeps ==
  ASSUME LifecycleInv, Accept
  PROVE  LifecycleInv'
  <1>1. /\ Main \in Threads /\ UNCHANGED <<handler, listen, signals, status>>
        /\ handler[Main] = "none" /\ pc[Main] = "accept" /\ status = "running"
        /\ \A h \in Workers : h \in Threads /\ h # Main
        /\ \A t \in Threads : t = Main \/ t \in Workers
        /\ misused' = (misused \/ listen # "live")
    BY DEF Accept, At, Runs, Threads, Workers
  <1>2. pc \in [Threads -> Labels] /\ handler' \in [Threads -> Labels] /\ signals' \in Nat /\ misused' \in BOOLEAN
    BY <1>1 DEF LifecycleInv
  <1>3. /\ pc' \in [Threads -> Labels] /\ PlaceOK'
        /\ pc'[Main] \in {"accept", "error"}
        /\ \A t \in Threads : pc[t] # "none" => pc'[t] # "none"
    <2>1. CASE Goto(Main, "error")
      <3>1. /\ pc' \in [Threads -> Labels] /\ pc'[Main] = "error" /\ PlaceOK'
            /\ \A h \in Workers : pc'[h] = pc[h]
        BY <1>1, <2>1, MainMoves DEF Opened
      <3>. QED BY <1>1, <3>1
    <2>2. CASE \E h \in Handlers : pc[h] = "none" /\ pc' = [pc EXCEPT ![h] = "log"]
      <3>1. PICK h \in Handlers : pc[h] = "none" /\ pc' = [pc EXCEPT ![h] = "log"]
        BY <2>2
      <3>2. h \in Workers
        BY <1>1, <3>1 DEF Workers
      <3>3. /\ pc' \in [Threads -> Labels] /\ pc'[h] = "log" /\ pc'[Main] = "accept"
            /\ \A t \in Threads : t # h => pc'[t] = pc[t]
        BY <1>1, <1>2, <3>1, <3>2 DEF Labels
      <3>4. \A k \in Workers : pc[k] \in {"none", "log", "serve"}
        BY DEF LifecycleInv, PlaceOK
      <3>5. PlaceOK'
        BY <1>1, <3>3, <3>4 DEF PlaceOK, Opened
      <3>. QED BY <3>3, <3>5
    <2>. QED BY <2>1, <2>2 DEF Accept
  <1>4. SignalOK'
    BY <1>1, <1>3 DEF LifecycleInv, SignalOK
  <1>5. Untouched => listen = "live"
    BY <1>1 DEF LifecycleInv, SocketOK, Opened
  <1>6. SocketOK'
    BY <1>1, <1>3, <1>5 DEF SocketOK, Untouched, Opened
  <1>7. OneSigintSafe'
    <2>1. CASE misused
      BY <1>1, <2>1 DEF LifecycleInv, OneSigintSafe
    <2>2. CASE ~Untouched
      BY <1>1, <2>2 DEF LifecycleInv, OneSigintSafe, Untouched
    <2>. QED BY <1>1, <1>5, <2>1, <2>2 DEF OneSigintSafe
  <1>8. ClosedAtExit'
    BY <1>1 DEF ClosedAtExit
  <1>. QED BY <1>2, <1>3, <1>4, <1>6, <1>7, <1>8 DEF LifecycleInv

\* A step that changes neither places nor socket: malloc, or an end.
LEMMA EndKeeps ==
  ASSUME LifecycleInv, UNCHANGED <<pc, handler, listen, misused, signals>>,
         status' = "0" => listen # "live"
  PROVE  LifecycleInv'
  <1>1. PlaceOK' /\ SignalOK' /\ SocketOK'
    BY DEF LifecycleInv, PlaceOK, SignalOK, SocketOK, Untouched
  <1>2. OneSigintSafe' /\ ClosedAtExit'
    BY DEF LifecycleInv, OneSigintSafe, ClosedAtExit
  <1>. QED BY <1>1, <1>2 DEF LifecycleInv

LEMMA ReturnKeeps ==
  ASSUME LifecycleInv, Return
  PROVE  LifecycleInv'
  <1>1. UNCHANGED <<pc, handler, listen, misused, signals>> /\ listen # "live"
    BY DEF Return, At, LifecycleInv, SocketOK
  <1>. QED BY <1>1, EndKeeps

LEMMA IdleKeeps ==
  ASSUME LifecycleInv, NEW t \in Threads, Malloc(t) \/ Malloced(t) \/ Killed(t)
  PROVE  LifecycleInv'
  <1>1. /\ UNCHANGED <<pc, handler, listen, misused, signals>>
        /\ status' = status \/ status' = "killed"
    BY DEF Malloc, Malloced, Killed
  <1>2. status' = "0" => listen # "live"
    BY <1>1 DEF LifecycleInv, ClosedAtExit
  <1>. QED BY <1>1, <1>2, EndKeeps

\* A thread logs, or takes a request or ends.
LEMMA WorkKeeps ==
  ASSUME LifecycleInv, NEW t \in Threads, Log(t) \/ (t \in Handlers /\ Request(t))
  PROVE  LifecycleInv'
  <1>1. /\ Main \in Threads /\ UNCHANGED <<handler, listen, misused, signals, status>>
        /\ handler[t] = "none" /\ \A h \in Workers : h \in Threads /\ h # Main
        /\ status = "running" /\ pc \in [Threads -> Labels]
    BY DEF LifecycleInv, Log, Request, At, Runs, Threads, Workers
  <1>2. \/ pc' = pc
        \/ /\ pc[t] \in {"started", "error", "stopped", "log"}
           /\ pc' = [pc EXCEPT ![t] = After(pc[t])]
        \/ pc[t] = "serve" /\ pc' = [pc EXCEPT ![t] = "log"]
        \/ pc[t] = "serve" /\ pc' = [pc EXCEPT ![t] = "none"]
    BY DEF Log, Request, At, Goto
  <1>3. t = Main \/ t \in Workers
    BY DEF Threads, Workers
  <1>4. /\ After("started") = "accept" /\ After("error") = "accept"
        /\ After("stopped") = "return" /\ After("log") = "serve"
    BY DEF After
  <1>5. \/ pc' = pc
        \/ \E label \in {"accept", "return", "serve", "log", "none"} :
             /\ pc' = [pc EXCEPT ![t] = label]
             /\ \/ pc[t] \in {"started", "error"} /\ label = "accept"
                \/ pc[t] = "stopped" /\ label = "return"
                \/ pc[t] = "log" /\ label = "serve"
                \/ pc[t] = "serve" /\ label \in {"log", "none"}
    <2>1. CASE pc[t] \in {"started", "error", "stopped", "log"} /\ pc' = [pc EXCEPT ![t] = After(pc[t])]
      <3>1. CASE pc[t] = "started" BY <1>4, <2>1, <3>1
      <3>2. CASE pc[t] = "error" BY <1>4, <2>1, <3>2
      <3>3. CASE pc[t] = "stopped" BY <1>4, <2>1, <3>3
      <3>4. CASE pc[t] = "log" BY <1>4, <2>1, <3>4
      <3>. QED BY <2>1, <3>1, <3>2, <3>3, <3>4
    <2>. QED BY <1>2, <2>1
  <1>6. /\ pc' \in [Threads -> Labels] /\ \A u \in Threads : u # t => pc'[u] = pc[u]
        /\ \/ pc'[t] = pc[t]
           \/ pc[t] \in {"started", "error"} /\ pc'[t] = "accept"
           \/ pc[t] = "stopped" /\ pc'[t] = "return"
           \/ pc[t] = "log" /\ pc'[t] = "serve"
           \/ pc[t] = "serve" /\ pc'[t] \in {"log", "none"}
    BY <1>1, <1>5 DEF Labels
  <1>7. /\ pc[Main] \in Opened \cup {"open", "stop", "stopped", "return"}
        /\ \A h \in Workers : pc[h] \in {"none", "log", "serve"}
        /\ pc[Main] = "open" => \A h \in Workers : pc[h] = "none"
    BY DEF LifecycleInv, PlaceOK
  <1>8. /\ t \in Workers => /\ pc'[t] \in {"none", "log", "serve"} /\ pc'[Main] = pc[Main]
                            /\ pc[t] = "none" => pc'[t] = "none"
        /\ t = Main => \/ pc'[Main] = pc[Main]
                       \/ pc[Main] \in {"started", "error"} /\ pc'[Main] = "accept"
                       \/ pc[Main] = "stopped" /\ pc'[Main] = "return"
    BY <1>1, <1>6, <1>7 DEF Opened
  <1>9. PlaceOK'
    BY <1>1, <1>3, <1>6, <1>7, <1>8 DEF PlaceOK, Opened
  <1>10. SignalOK'
    BY <1>1, <1>6 DEF LifecycleInv, SignalOK
  <1>11. /\ pc'[Main] \in Opened <=> pc[Main] \in Opened
         /\ pc'[Main] \in {"stopped", "return"} <=> pc[Main] \in {"stopped", "return"}
         /\ pc'[Main] \in {"open", "stop"} <=> pc[Main] \in {"open", "stop"}
    BY <1>1, <1>3, <1>7, <1>8 DEF Opened
  <1>12. SocketOK'
    BY <1>1, <1>11 DEF LifecycleInv, SocketOK, Untouched
  <1>13. OneSigintSafe'
    BY <1>1, <1>11 DEF LifecycleInv, OneSigintSafe
  <1>14. ClosedAtExit'
    BY <1>1 DEF ClosedAtExit
  <1>. QED BY <1>1, <1>6, <1>9, <1>10, <1>12, <1>13, <1>14 DEF LifecycleInv

\* The signal and its handler.
LEMMA SignalKeeps ==
  ASSUME LifecycleInv, NEW t \in Threads, Signal(t)
  PROVE  LifecycleInv'
  <1>1. /\ signals' = signals + 1 /\ handler' = [handler EXCEPT ![t] = "delete"]
        /\ UNCHANGED <<pc, listen, misused, status>> /\ status = "running" /\ pc[t] # "none"
    BY DEF Signal
  <1>2. /\ signals \in Nat /\ handler \in [Threads -> Labels] /\ misused \in BOOLEAN
        /\ handler' \in [Threads -> Labels] /\ handler'[t] = "delete"
        /\ \A u \in Threads : u # t => handler'[u] = handler[u]
        /\ PlaceOK' /\ pc' \in [Threads -> Labels] /\ Main \in Threads
    BY <1>1 DEF LifecycleInv, Labels, PlaceOK, Threads
  <1>3. signals' \in Nat /\ signals' > 0 /\ (signals' <= 1 => ~(signals > 0)) /\ (signals > 0 => signals' > 1)
    BY <1>1, <1>2
  <1>4. SignalOK'
    BY <1>1, <1>2, <1>3 DEF LifecycleInv, SignalOK
  <1>5. ~(signals > 0) => \A u \in Threads : handler[u] = "none"
    BY DEF LifecycleInv, SignalOK
  <1>6. SocketOK'
    <2>1. ASSUME Untouched', pc[Main] \in Opened PROVE listen = "live"
      <3>1. ~(signals > 0) /\ signals <= 1
        BY <1>2, <1>3, <2>1 DEF Untouched
      <3>2. Untouched
        BY <1>2, <1>5, <3>1 DEF Untouched, Threads
      <3>. QED BY <2>1, <3>2 DEF LifecycleInv, SocketOK
    <2>2. pc[Main] \in {"stopped", "return"} => listen # "live"
      BY DEF LifecycleInv, SocketOK
    <2>. QED BY <1>1, <1>3, <2>1, <2>2 DEF SocketOK
  <1>7. OneSigintSafe'
    <2>1. CASE signals > 0
      BY <1>3, <2>1 DEF OneSigintSafe
    <2>2. CASE ~(signals > 0)
      <3>1. \A h \in Handlers : handler[h] = "none"
        BY <1>5, <2>2 DEF Threads
      <3>2. misused => pc[Main] \in {"open", "stop", "stopped", "return"}
        BY <1>2, <2>2, <3>1 DEF LifecycleInv, OneSigintSafe
      <3>. QED BY <1>1, <3>2 DEF OneSigintSafe
    <2>. QED BY <2>1, <2>2
  <1>8. ClosedAtExit'
    BY <1>1 DEF ClosedAtExit
  <1>. QED BY <1>1, <1>2, <1>3, <1>4, <1>6, <1>7, <1>8 DEF LifecycleInv

\* kill_handler up to the exit: label is where it goes on.
LEMMA HandlerKeeps ==
  ASSUME LifecycleInv, NEW t \in Threads, NEW label \in {"log", "exit"},
         handler[t] # "none", handler' = [handler EXCEPT ![t] = label],
         UNCHANGED <<pc, signals, status>>, status = "running",
         listen' # "live", misused' \in BOOLEAN, OneSigintSafe'
  PROVE  LifecycleInv'
  <1>1. /\ handler \in [Threads -> Labels] /\ handler' \in [Threads -> Labels]
        /\ handler'[t] = label /\ \A u \in Threads : u # t => handler'[u] = handler[u]
        /\ PlaceOK' /\ pc' \in [Threads -> Labels] /\ signals' \in Nat
        /\ t = Main \/ t \in Handlers
    BY DEF LifecycleInv, Labels, PlaceOK, Threads
  <1>2. signals > 0 /\ pc[t] # "none"
    BY DEF LifecycleInv, SignalOK
  <1>3. SignalOK'
    BY <1>1, <1>2 DEF LifecycleInv, SignalOK
  <1>4. ~Untouched'
    BY <1>1 DEF Untouched
  <1>5. SocketOK'
    BY <1>2, <1>4 DEF SocketOK
  <1>6. ClosedAtExit'
    BY DEF ClosedAtExit
  <1>. QED BY <1>1, <1>3, <1>5, <1>6 DEF LifecycleInv

LEMMA KillKeeps ==
  ASSUME LifecycleInv, NEW t \in Threads, KillDelete(t) \/ KillLog(t) \/ KillExit(t)
  PROVE  LifecycleInv'
  <1>1. CASE KillDelete(t)
    <2>1. /\ listen' # "live" /\ misused' \in BOOLEAN /\ handler[t] = "delete"
          /\ handler' = [handler EXCEPT ![t] = "log"] /\ handler \in [Threads -> Labels]
          /\ misused' = (misused \/ listen \in {"garbage", "deleted"})
          /\ UNCHANGED <<pc, signals, status>> /\ status = "running"
      BY <1>1 DEF LifecycleInv, KillDelete, Delete
    <2>2. \A h \in Handlers : handler[h] # "none" => handler'[h] # "none"
      BY <2>1 DEF Threads
    <2>3. OneSigintSafe'
      <3>1. CASE misused
        BY <2>1, <2>2, <3>1 DEF LifecycleInv, OneSigintSafe
      <3>2. CASE listen # "live"
        <4>1. ~Untouched \/ pc[Main] \notin Opened
          BY <3>2 DEF LifecycleInv, SocketOK
        <4>2. CASE pc[Main] \notin Opened
          BY <2>1, <4>2 DEF LifecycleInv, PlaceOK, OneSigintSafe
        <4>3. CASE t \in Handlers
          <5>1. handler'[t] = "log"
            BY <2>1
          <5>. QED BY <4>3, <5>1 DEF OneSigintSafe
        <4>4. CASE ~Untouched /\ t = Main
          <5>1. ~(signals <= 1) \/ \E h \in Handlers : handler[h] # "none"
            BY <2>1, <4>4 DEF Untouched
          <5>. QED BY <2>1, <2>2, <5>1 DEF LifecycleInv, OneSigintSafe
        <4>. QED BY <4>1, <4>2, <4>3, <4>4 DEF Threads
      <3>. QED BY <2>1, <3>1, <3>2 DEF OneSigintSafe
    <2>. QED BY <2>1, <2>3, HandlerKeeps
  <1>2. CASE KillLog(t)
    <2>1. /\ UNCHANGED <<pc, listen, misused, signals, status>> /\ handler[t] = "log" /\ listen # "live"
          /\ UNCHANGED handler \/ handler' = [handler EXCEPT ![t] = "exit"]
          /\ handler \in [Threads -> Labels] /\ status = "running" /\ misused \in BOOLEAN
      BY <1>2 DEF LifecycleInv, SignalOK, KillLog
    <2>2. CASE UNCHANGED handler
      BY <2>1, <2>2, EndKeeps
    <2>3. CASE handler' = [handler EXCEPT ![t] = "exit"]
      <3>1. \A h \in Handlers : handler[h] # "none" => handler'[h] # "none"
        BY <2>1, <2>3 DEF Threads
      <3>2. OneSigintSafe'
        BY <2>1, <3>1 DEF LifecycleInv, OneSigintSafe
      <3>. QED BY <2>1, <2>3, <3>2, HandlerKeeps
    <2>. QED BY <2>1, <2>2, <2>3
  <1>3. CASE KillExit(t)
    <2>1. UNCHANGED <<pc, handler, listen, misused, signals>> /\ listen # "live"
      BY <1>3 DEF LifecycleInv, SignalOK, KillExit
    <2>. QED BY <2>1, EndKeeps
  <1>. QED BY <1>1, <1>2, <1>3

LEMMA LifecycleStep == LifecycleInv /\ [Next]_vars => LifecycleInv'
  <1>. SUFFICES ASSUME LifecycleInv, [Next]_vars PROVE LifecycleInv'
    OBVIOUS
  <1>1. CASE Next
    BY <1>1, OpenKeeps, StopKeeps, ReturnKeeps, AcceptKeeps, IdleKeeps, WorkKeeps, SignalKeeps, KillKeeps
       DEF Next, ThreadStep
  <1>2. CASE UNCHANGED vars
    <2>1. UNCHANGED <<pc, handler, listen, misused, signals, status>>
      BY <1>2 DEF vars
    <2>2. status' = "0" => listen # "live"
      BY <2>1 DEF LifecycleInv, ClosedAtExit
    <2>. QED BY <2>1, <2>2, EndKeeps
  <1>. QED BY <1>1, <1>2

\* Where main is, which threads a signal can be on, and what is then left of the
\* listening socket (server.cpp, dmserver.cpp).
THEOREM LifecycleInvariant == Spec => []LifecycleInv
  BY LifecycleInit, LifecycleStep, PTL DEF Spec

\* With any number of threads and signals: a dead listen_socket is used or deleted
\* only after a second SIGINT, one that came to a handler thread, or one before or
\* without a start() that succeeds (server.cpp).
THEOREM SocketUsedLive == Spec => []OneSigintSafe
  <1>1. LifecycleInv => OneSigintSafe
    BY DEF LifecycleInv
  <1>. QED BY <1>1, LifecycleInvariant, PTL

\* However many threads and signals there are, the process ends by itself only
\* with the socket closed (server.h).
THEOREM SocketClosedAtExit == Spec => []ClosedAtExit
  <1>1. LifecycleInv => ClosedAtExit
    BY DEF LifecycleInv
  <1>. QED BY <1>1, LifecycleInvariant, PTL
=============================================================================
