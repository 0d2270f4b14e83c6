------------------------ MODULE MessageTablesProofs ------------------------
(***************************************************************************)
(* Safety of Message's static maps and of the log, for any number of       *)
(* threads, types and requests.  A map that is not empty is complete       *)
(* unless somebody is filling it, and only threads in their first request  *)
(* fill: every thread has a map filled, by itself or by another, before it *)
(* first looks something up.                                               *)
(***************************************************************************)
EXTENDS MessageTables, TLAPS

Tables == {"names", "texts"}

\* t has been through maps_initializer for this map.
Passed(t, table) ==
  /\ count[t] > 0
  /\ count[t] > 1 \/ pc[t] \notin (IF table = "names" THEN {3} ELSE {3, 4})

Asked == {"request", "WAIT", "unknown"}
Holding == {13, 14, 15, 16, 17, 19, 20, 22, 23}

\* Where a thread is, what it is doing and what it holds there.
PlaceOK(t) ==
  /\ doing[t] \in Asked /\ pc[t] \notin {1, 2} => count[t] > 0
  /\ doing[t] = "accept" => pc[t] \in {1, 12, 13, 17}
  /\ doing[t] = "bye" => pc[t] \in {12, 13, 17, 24}
  /\ pc[t] \in Holding => mutex = t
  /\ n[t] > 0 => pc[t] \in {3, 4} /\ count[t] = 1

\* What a thread that fills has behind it is there.
FilledOK(t) ==
  n[t] > 0 => \A i \in 1 .. n[t] - 1 : entry[At(t)][Order[i]] # Unset

\* Somebody has found the map empty and inserted, or looked up.
Begun(table) == \E x \in Types : entry[table][x] # Unset
Complete(table) == \A x \in Types : entry[table][x] # Unset
TableOK(table) ==
  /\ (\E t \in All : Passed(t, table)) => Begun(table)
  /\ Begun(table) => Complete(table) \/ Filling(table) # {}

\* A default among the names will be overwritten.
NamesOK(x) ==
  \/ entry["names"][x] \in {Unset, x}
  \/ \E w \in Filling("names") : \E i \in n[w] .. Len(Order) : Order[i] = x

TablesInv ==
  /\ TypeOK
  /\ \A t \in All : PlaceOK(t) /\ FilledOK(t)
  /\ \A table \in Tables : TableOK(table)
  /\ \A x \in Types : NamesOK(x)

-----------------------------------------------------------------------------
LEMMA OrderFacts ==
  /\ Len(Order) \in Nat /\ Len(Order) > 0
  /\ \A i \in 1 .. Len(Order) : Order[i] \in Types
  /\ \A x \in Types : \E i \in 1 .. Len(Order) : Order[i] = x
  /\ Unset \notin Types /\ "UNDEF" \in Types /\ Sent \subseteq Types
  /\ "ACK" \in Types /\ "NACK" \in Types
  <1>1. PICK S : S = Types
    OBVIOUS
  <1>2. Order \in Seq(S) /\ {"ACK", "NACK", "UNDEF"} \subseteq S /\ "UNSET" \notin S
    BY <1>1, TablesAssumption DEF Types
  <1>3. Len(Order) \in Nat /\ DOMAIN Order = 1 .. Len(Order)
    BY <1>2
  <1>4. \A x \in S : \E i \in 1 .. Len(Order) : Order[i] = x
    BY <1>1, <1>3 DEF Types, Range
  <1>5. \A i \in 1 .. Len(Order) : Order[i] \in S
    BY <1>2
  <1>6. Len(Order) > 0
    BY <1>2, <1>3, <1>4
  <1>. QED BY <1>1, <1>2, <1>3, <1>4, <1>5, <1>6 DEF Unset, Sent

\* Where the labels are.
LEMMA Labels ==
  ASSUME TypeOK, NEW t \in All
  PROVE  /\ pc[t] \in 1 .. 24
         /\ At(t) = "log" <=> pc[t] \in {1, 13, 19, 22}
         /\ At(t) = "recv" <=> pc[t] = 2
         /\ At(t) = "names" <=> pc[t] \in {3, 5, 9, 14}
         /\ At(t) = "texts" <=> pc[t] \in {4, 6, 10, 15}
         /\ At(t) = "emit" <=> pc[t] \in {7, 11, 16}
         /\ At(t) = "type" <=> pc[t] = 8
         /\ At(t) = "lock" <=> pc[t] \in {12, 18, 21}
         /\ At(t) = "unlock" <=> pc[t] \in {17, 23}
         /\ At(t) = "sleep" <=> pc[t] = 20
  <1>1. pc[t] \in DOMAIN Program
    BY DEF TypeOK
  <1>2. DOMAIN Program = 1 .. 24
    BY DEF Program
  <1>3. PICK p \in 1 .. 24 : p = pc[t]
    BY <1>1, <1>2
  <1>4. At(t) = Program[p]
    BY <1>3 DEF At
  <1>. QED BY <1>3, <1>4 DEF Program

\* Where a thread that is at q and doing d goes on.
Leads(q, p, d) ==
  /\ q = 1 => p = IF d = "accept" THEN 12 ELSE 2
  /\ q = 11 => p \in {2, 18}
  /\ q = 13 => p = 17 \/ (p = 14 /\ d = "request")
  /\ q = 17 => IF d = "accept" THEN p = 1 ELSE p \in {2, 9, 24} /\ (p # 24 => d \in Asked)
  /\ q \in {18, 22} => p \in {19, 23}
  /\ q = 23 => p = 2
  /\ q \in (2 .. 10) \cup {12, 14, 15, 16, 19, 20, 21} => p = q + 1

LEMMA Follows ==
  ASSUME TypeOK, NEW t \in All, pc[t] # 24, NEW p \in Follow(t)
  PROVE  p \in 1 .. 24 /\ Leads(pc[t], p, doing[t])
  <1>1. PICK q \in 1 .. 23 : q = pc[t]
    BY Labels
  <1>2. PICK d : d = doing[t] /\ d \in {"request", "WAIT", "unknown", "bye", "accept"}
    BY DEF TypeOK
  <1>3. CASE q \in {11, 18, 22, 23}
    BY <1>1, <1>2, <1>3 DEF Follow, Leads
  <1>4. CASE q = 1
    BY <1>1, <1>2, <1>4 DEF Follow, Leads
  <1>5. CASE q = 13
    BY <1>1, <1>2, <1>5 DEF Follow, Leads
  <1>6. CASE q = 17
    <2>1. p = CASE d = "request" -> 2 [] d = "unknown" -> 9 [] d = "accept" -> 1 [] OTHER -> 24
      BY <1>1, <1>2, <1>6 DEF Follow
    <2>. QED BY <1>1, <1>2, <1>6, <2>1 DEF Leads, Asked
  <1>7. CASE q \in (2 .. 10) \cup {12, 14, 15, 16, 19, 20, 21}
    <2>1. q \notin {1, 11, 13, 17, 18, 22, 23}
      BY <1>7
    <2>2. p = q + 1
      BY <1>1, <2>1 DEF Follow
    <2>. QED BY <1>1, <1>2, <1>7, <2>1, <2>2 DEF Leads
  <1>. QED BY <1>1, <1>3, <1>4, <1>5, <1>6, <1>7

LEMMA Advanced ==
  ASSUME TypeOK, NEW t \in All, pc[t] # 24, Advance(t)
  PROVE  /\ pc' \in [All -> DOMAIN Program] /\ pc'[t] \in 1 .. 24 /\ Leads(pc[t], pc'[t], doing[t])
         /\ \A u \in All : u # t => pc'[u] = pc[u]
  <1>1. PICK p \in Follow(t) : pc' = [pc EXCEPT ![t] = p]
    BY DEF Advance, Goto
  <1>2. p \in 1 .. 24 /\ Leads(pc[t], p, doing[t])
    BY Follows
  <1>3. DOMAIN Program = 1 .. 24
    BY DEF Program
  <1>. QED BY <1>1, <1>2, <1>3 DEF TypeOK

LEMMA PlaceKeeps ==
  ASSUME TypeOK, NEW t \in All, PlaceOK(t), pc[t] \notin {2, 24}, Advance(t),
         UNCHANGED <<doing, count>>, n'[t] = 0, pc'[t] \in Holding => mutex' = t
  PROVE  PlaceOK(t)'
  <1>1. PICK q, p : q = pc[t] /\ p = pc'[t] /\ q \in 1 .. 23 /\ q # 2 /\ Leads(q, p, doing[t])
    BY Labels, Advanced
  <1>2. doing[t] = "accept" => p \in {1, 12, 13, 17}
    BY <1>1 DEF PlaceOK, Leads
  <1>3. doing[t] = "bye" => p \in {12, 13, 17, 24}
    BY <1>1 DEF PlaceOK, Leads, Asked
  <1>4. doing[t] \in Asked /\ p \notin {1, 2} => count[t] > 0
    BY <1>1 DEF PlaceOK, Leads, Asked
  <1>. QED BY <1>1, <1>2, <1>3, <1>4 DEF PlaceOK

-----------------------------------------------------------------------------
(* A step of t that touches neither the maps nor what t inserts. *)

LEMMA MoveKeeps ==
  ASSUME TablesInv, TypeOK', NEW t \in All, n[t] = 0,
         UNCHANGED <<entry, n>>,
         \A u \in All : u # t => pc'[u] = pc[u] /\ count'[u] = count[u],
         \A u \in All : PlaceOK(u)',
         \A table \in Tables : Passed(t, table)' => Begun(table)
  PROVE  TablesInv'
  <1>1. \A u \in All : u # t => At(u)' = At(u) /\ \A table : Passed(u, table)' = Passed(u, table)
    BY DEF At, Passed
  <1>2. \A table : Filling(table)' = Filling(table)
    BY <1>1 DEF Filling
  <1>3. \A u \in All : FilledOK(u)'
    BY <1>1 DEF TablesInv, FilledOK
  <1>4. ASSUME NEW table \in Tables PROVE TableOK(table)'
    <2>1. TableOK(table)
      BY DEF TablesInv
    <2>2. Begun(table)' = Begun(table) /\ Complete(table)' = Complete(table)
      BY DEF Begun, Complete
    <2>3. \A u \in All : Passed(u, table)' => Begun(table)
      BY <1>1, <2>1 DEF TableOK
    <2>. QED BY <1>2, <2>1, <2>2, <2>3 DEF TableOK
  <1>5. \A x \in Types : NamesOK(x)'
    BY <1>2 DEF TablesInv, NamesOK
  <1>. QED BY <1>3, <1>4, <1>5 DEF TablesInv

LEMMA PassedBegun ==
  ASSUME TablesInv, NEW t \in All, NEW table \in Tables, Passed(t, table)
  PROVE  Begun(table)
  BY DEF TablesInv, TableOK

LEMMA TypeFacts ==
  ASSUME TypeOK
  PROVE  /\ pc \in [All -> 1 .. 24] /\ DOMAIN Program = 1 .. 24
         /\ \A t \in All : n[t] \in Nat /\ count[t] \in Nat /\ pc[t] \in 1 .. 24
  <1>1. DOMAIN Program = 1 .. 24
    BY DEF Program
  <1>2. pc \in [All -> 1 .. 24]
    BY <1>1 DEF TypeOK
  <1>3. ASSUME NEW t \in All PROVE n[t] \in Nat /\ count[t] \in Nat
    <2>1. Len(Order) \in Nat /\ MaxRequests \in Nat
      BY OrderFacts, TablesAssumption
    <2>2. n[t] \in 0 .. Len(Order) /\ count[t] \in 0 .. MaxRequests
      BY DEF TypeOK
    <2>. QED BY <2>1, <2>2
  <1>. QED BY <1>1, <1>2, <1>3

LEMMA RecvKeeps ==
  ASSUME TablesInv, NEW t \in All, Recv(t)
  PROVE  TablesInv'
  <1>1. TypeOK /\ \A u \in All : PlaceOK(u) /\ pc[u] \in 1 .. 24
    BY Labels DEF TablesInv
  <1>2. pc[t] = 2 /\ n[t] = 0 /\ count[t] \in Nat /\ doing[t] \in Asked
    <2>1. pc[t] = 2
      BY <1>1, Labels DEF Recv
    <2>2. doing[t] \in {"request", "WAIT", "unknown", "bye", "accept"}
      BY <1>1 DEF TypeOK
    <2>. QED BY <1>1, <2>1, <2>2, TypeFacts DEF PlaceOK, Asked
  <1>3. /\ pc' \in [All -> DOMAIN Program] /\ pc'[t] = 3 /\ \A u \in All : u # t => pc'[u] = pc[u]
        /\ count' = [count EXCEPT ![t] = count[t] + 1]
        /\ count[t] < MaxRequests /\ UNCHANGED <<entry, doing, n, inside, key, value, mutex>>
    BY <1>1, <1>2, Advanced DEF Recv, Leads
  <1>4. TypeOK'
    <2>1. MaxRequests \in Nat
      BY TablesAssumption
    <2>2. count' \in [All -> 0 .. MaxRequests]
      <3>1. count[t] + 1 \in 0 .. MaxRequests
        BY <1>2, <1>3, <2>1
      <3>. QED BY <1>1, <1>3, <3>1 DEF TypeOK
    <2>. QED BY <1>1, <1>3, <2>2 DEF TypeOK
  <1>5. count'[t] = count[t] + 1 /\ \A u \in All : u # t => pc'[u] = pc[u] /\ count'[u] = count[u]
    BY <1>1, <1>3 DEF TypeOK
  <1>6. \A u \in All : PlaceOK(u)'
    <2>1. PlaceOK(t)'
      BY <1>2, <1>3, <1>5 DEF PlaceOK, Asked, Holding
    <2>2. \A u \in All : u # t => PlaceOK(u)'
      BY <1>1, <1>3, <1>5 DEF PlaceOK
    <2>. QED BY <2>1, <2>2
  <1>7. ASSUME NEW table \in Tables, Passed(t, table)' PROVE Begun(table)
    <2>1. Passed(t, table)
      BY <1>2, <1>3, <1>5, <1>7 DEF Passed
    <2>. QED BY <2>1, PassedBegun
  <1>. QED BY <1>2, <1>3, <1>4, <1>5, <1>6, <1>7, MoveKeeps

LEMMA ByeKeeps ==
  ASSUME TablesInv, NEW t \in All, Bye(t)
  PROVE  TablesInv'
  <1>1. TypeOK /\ \A u \in All : PlaceOK(u) /\ pc[u] \in 1 .. 24
    BY Labels DEF TablesInv
  <1>2. pc[t] = 2 /\ n[t] = 0
    <2>1. pc[t] = 2
      BY <1>1, Labels DEF Bye
    <2>. QED BY <1>1, <2>1, TypeFacts DEF PlaceOK
  <1>3. /\ pc' = [pc EXCEPT ![t] = 12] /\ doing' = [doing EXCEPT ![t] = "bye"]
        /\ UNCHANGED <<entry, n, inside, key, value, count, mutex>>
    BY DEF Bye, Goto
  <1>4. TypeOK'
    <2>1. pc' \in [All -> DOMAIN Program]
      BY <1>1, <1>3, TypeFacts
    <2>. QED BY <1>1, <1>3, <2>1 DEF TypeOK
  <1>5. /\ pc'[t] = 12 /\ doing'[t] = "bye"
        /\ \A u \in All : u # t => pc'[u] = pc[u] /\ doing'[u] = doing[u]
    BY <1>1, <1>3 DEF TypeOK
  <1>6. \A u \in All : PlaceOK(u)'
    <2>1. PlaceOK(t)'
      BY <1>2, <1>3, <1>5 DEF PlaceOK, Asked, Holding
    <2>2. \A u \in All : u # t => PlaceOK(u)'
      BY <1>1, <1>3, <1>5 DEF PlaceOK
    <2>. QED BY <2>1, <2>2
  <1>7. ASSUME NEW table \in Tables, Passed(t, table)' PROVE Begun(table)
    <2>1. Passed(t, table)
      BY <1>2, <1>3, <1>7 DEF Passed
    <2>. QED BY <2>1, PassedBegun
  <1>. QED BY <1>2, <1>3, <1>4, <1>5, <1>6, <1>7, MoveKeeps

LEMMA EnterKeeps ==
  ASSUME TablesInv, NEW t \in All, Enter(t)
  PROVE  TablesInv'
  <1>1. UNCHANGED <<entry, pc, doing, n, count, mutex>>
    BY DEF Enter
  <1>2. TypeOK'
    <2>1. PICK k : /\ k \in CASE At(t) = "type" -> Sent
                              [] At(t) = "emit" ->
                                   {IF mutex = t \/ (pc[t] = 11 /\ doing[t] = "WAIT") THEN "ACK" ELSE "NACK"}
                              [] OTHER -> {key[t]}
                   /\ key' = [key EXCEPT ![t] = k]
                   /\ value' = [value EXCEPT ![t] = IF At(t) \in {"type", "emit"} THEN Unset ELSE @]
      BY DEF Enter
    <2>2. k \in Types
      BY <2>1, OrderFacts DEF TablesInv, TypeOK
    <2>3. inside' = [inside EXCEPT ![t] = TRUE]
      BY DEF Enter
    <2>4. key' \in [All -> Types] /\ inside' \in [All -> BOOLEAN]
      BY <2>1, <2>2, <2>3 DEF TablesInv, TypeOK
    <2>5. value' \in [All -> Types \cup {"", Unset}]
      BY <2>1 DEF TablesInv, TypeOK
    <2>. QED BY <1>1, <2>4, <2>5 DEF TablesInv, TypeOK
  <1>3. \A u \in All : At(u)' = At(u) /\ PlaceOK(u)' /\ \A table : Passed(u, table)' = Passed(u, table)
    BY <1>1 DEF TablesInv, At, Passed, PlaceOK
  <1>4. \A table : Filling(table)' = Filling(table)
    BY <1>1, <1>3 DEF Filling
  <1>5. \A u \in All : FilledOK(u)'
    BY <1>1, <1>3 DEF TablesInv, FilledOK
  <1>6. \A table \in Tables : TableOK(table)'
    BY <1>1, <1>3, <1>4 DEF TablesInv, TableOK, Begun, Complete
  <1>7. \A x \in Types : NamesOK(x)'
    BY <1>1, <1>4 DEF TablesInv, NamesOK
  <1>. QED BY <1>2, <1>3, <1>5, <1>6, <1>7 DEF TablesInv

\* Logged, Refused, Lock and Unlock leave maps, keys, values and counts alone.
LEMMA WalkKeeps ==
  ASSUME TablesInv, NEW t \in All, Logged(t) \/ Refused(t) \/ Lock(t) \/ Unlock(t)
  PROVE  TablesInv'
  <1>1. TypeOK /\ \A u \in All : PlaceOK(u) /\ pc[u] \in 1 .. 24 /\ count[u] \in Nat
    BY TypeFacts DEF TablesInv
  <1>2. /\ UNCHANGED <<entry, doing, n, key, value, count>> /\ Advance(t)
        /\ inside' \in [All -> BOOLEAN]
    BY <1>1 DEF Logged, Refused, Lock, Unlock, Leave, TypeOK
  <1>3. PICK q, p : q = pc[t] /\ p = pc'[t]
    OBVIOUS
  <1>4. \/ q \in {1, 13, 19, 22} /\ mutex' = mutex
        \/ q \in {12, 18, 21} /\ mutex = NoThread /\ mutex' = t
        \/ q \in {17, 20, 23} /\ mutex' = NoThread
    BY <1>1, <1>3, Labels DEF Logged, Refused, Lock, Unlock
  <1>5. /\ pc' \in [All -> DOMAIN Program] /\ p \in 1 .. 24 /\ Leads(q, p, doing[t])
        /\ \A u \in All : u # t => pc'[u] = pc[u]
    BY <1>1, <1>2, <1>3, <1>4, Advanced
  <1>6. /\ q \in {13, 17, 19, 20, 22, 23} => mutex = t
        /\ q \in {17, 20, 23} => p \notin Holding
        /\ q = 1 => p \notin Holding
    BY <1>1, <1>3, <1>5 DEF PlaceOK, Leads, Holding
  <1>7. TypeOK'
    <2>1. mutex' \in All \cup {NoThread}
      BY <1>1, <1>4 DEF TypeOK
    <2>. QED BY <1>1, <1>2, <1>5, <2>1 DEF TypeOK
  <1>8. n[t] = 0 /\ q \notin {2, 3, 4, 24}
    <2>1. q \notin {2, 3, 4, 24}
      BY <1>4
    <2>. QED BY <1>1, <1>3, <2>1, TypeFacts DEF PlaceOK
  <1>9. \A u \in All : PlaceOK(u)'
    <2>1. NoThread \notin All
      BY TablesAssumption
    <2>2. ASSUME NEW u \in All, u # t PROVE PlaceOK(u)'
      <3>1. pc[u] \in Holding => mutex' = u
        BY <1>1, <1>4, <1>6, <2>1, <2>2 DEF PlaceOK
      <3>. QED BY <1>1, <1>2, <1>5, <2>2, <3>1 DEF PlaceOK
    <2>3. PlaceOK(t)'
      <3>1. p \in Holding => mutex' = t
        BY <1>4, <1>6
      <3>. QED BY <1>1, <1>2, <1>3, <1>8, <3>1, PlaceKeeps
    <2>. QED BY <2>2, <2>3
  <1>10. ASSUME NEW table \in Tables, Passed(t, table)' PROVE Begun(table)
    <2>1. Passed(t, table)
      BY <1>1, <1>2, <1>3, <1>8, <1>10 DEF Passed
    <2>. QED BY <2>1, PassedBegun
  <1>. QED BY <1>2, <1>5, <1>7, <1>8, <1>9, <1>10, MoveKeeps

-----------------------------------------------------------------------------
(* maps_initializer. *)

LEMMA SizeReadKeeps ==
  ASSUME TablesInv, NEW t \in All, SizeRead(t)
  PROVE  TablesInv'
  <1>1. TypeOK /\ \A u \in All : PlaceOK(u) /\ pc[u] \in 1 .. 24 /\ count[u] \in Nat /\ n[u] \in Nat
    BY TypeFacts DEF TablesInv
  <1>2. /\ UNCHANGED <<entry, doing, key, value, count, mutex>> /\ inside' \in [All -> BOOLEAN]
        /\ At(t) \in Tables /\ n[t] = 0 /\ pc[t] \in {3, 4, 5, 6, 9, 10, 14, 15}
        /\ At(t) = "names" <=> pc[t] \in {3, 5, 9, 14}
    BY <1>1, Labels DEF SizeRead, Leave, TypeOK, Tables
  <1>3. CASE Begun(At(t))
    <2>1. n' = n /\ Advance(t)
      BY <1>3 DEF SizeRead, Begun
    <2>2. pc[t] \notin {2, 24}
      BY <1>2
    <2>3. pc' \in [All -> DOMAIN Program] /\ Leads(pc[t], pc'[t], doing[t]) /\ \A u \in All : u # t => pc'[u] = pc[u]
      BY <1>1, <2>1, <2>2, Advanced
    <2>4. pc'[t] = pc[t] + 1 /\ TypeOK'
      <3>1. pc'[t] = pc[t] + 1
        BY <1>2, <2>3 DEF Leads
      <3>. QED BY <1>1, <1>2, <2>1, <2>3, <3>1 DEF TypeOK
    <2>5. ASSUME NEW u \in All PROVE PlaceOK(u)'
      <3>1. CASE u = t
        <4>1. pc'[t] \in Holding => mutex' = t
          BY <1>1, <1>2, <2>4 DEF PlaceOK, Holding
        <4>. QED BY <1>1, <1>2, <2>1, <2>2, <3>1, <4>1, PlaceKeeps
      <3>2. CASE u # t
        BY <1>1, <1>2, <2>1, <2>3, <3>2 DEF PlaceOK
      <3>. QED BY <3>1, <3>2
    <2>6. ASSUME NEW table \in Tables, Passed(t, table)' PROVE Begun(table)
      <3>1. CASE table = At(t)
        BY <1>3, <3>1
      <3>2. CASE table # At(t)
        <4>1. Passed(t, table)
          BY <1>1, <1>2, <2>4, <2>6, <3>2 DEF Passed, Tables
        <4>. QED BY <4>1, PassedBegun
      <3>. QED BY <3>1, <3>2
    <2>. QED BY <1>2, <2>1, <2>3, <2>4, <2>5, <2>6, MoveKeeps
  <1>4. CASE ~Begun(At(t))
    <2>1. pc' = pc /\ n' = [n EXCEPT ![t] = 1]
      BY <1>4 DEF SizeRead, Begun
    <2>2. ~Passed(t, At(t))
      BY <1>2, <1>4, PassedBegun
    <2>3. pc[t] \in {3, 4} /\ count[t] = 1
      <3>1. doing[t] \in {"request", "WAIT", "unknown", "bye", "accept"}
        BY <1>1 DEF TypeOK
      <3>2. count[t] > 0
        BY <1>1, <1>2, <3>1 DEF PlaceOK, Asked
      <3>3. pc[t] \in {3, 4} /\ ~(count[t] > 1)
        BY <1>1, <1>2, <2>2, <3>2 DEF Passed, Tables
      <3>. QED BY <1>1, <3>2, <3>3
    <2>4. n'[t] = 1 /\ \A u \in All : u # t => n'[u] = n[u]
      BY <1>1, <2>1 DEF TypeOK
    <2>5. TypeOK'
      <3>1. 1 \in 0 .. Len(Order)
        BY OrderFacts
      <3>2. n' \in [All -> 0 .. Len(Order)]
        BY <1>1, <2>1, <3>1 DEF TypeOK
      <3>. QED BY <1>1, <1>2, <2>1, <3>2 DEF TypeOK
    <2>6. \A u \in All : At(u)' = At(u) /\ \A table : Passed(u, table)' = Passed(u, table)
      BY <1>2, <2>1 DEF At, Passed
    <2>7. ASSUME NEW u \in All PROVE PlaceOK(u)' /\ FilledOK(u)'
      <3>1. CASE u = t
        BY <1>1, <1>2, <2>1, <2>3, <2>4, <3>1 DEF PlaceOK, FilledOK
      <3>2. CASE u # t
        BY <1>2, <2>1, <2>4, <2>6, <3>2 DEF TablesInv, PlaceOK, FilledOK
      <3>. QED BY <3>1, <3>2
    <2>8. \A table : Filling(table) \subseteq Filling(table)'
      BY <1>2, <2>4, <2>6 DEF Filling
    <2>9. \A table \in Tables : TableOK(table)'
      BY <1>2, <2>6, <2>8 DEF TablesInv, TableOK, Begun, Complete
    <2>10. ASSUME NEW x \in Types PROVE NamesOK(x)'
      <3>1. CASE entry["names"][x] \in {Unset, x}
        BY <1>2, <3>1 DEF NamesOK
      <3>2. CASE entry["names"][x] \notin {Unset, x}
        <4>1. PICK w \in Filling("names") : \E i \in n[w] .. Len(Order) : Order[i] = x
          BY <3>2 DEF TablesInv, NamesOK
        <4>2. w \in Filling("names")' /\ w # t /\ w \in All
          BY <1>2, <2>8, <4>1 DEF Filling
        <4>3. n'[w] = n[w]
          BY <2>4, <4>2
        <4>. QED BY <4>1, <4>2, <4>3 DEF NamesOK
      <3>. QED BY <3>1, <3>2
    <2>. QED BY <2>5, <2>7, <2>9, <2>10 DEF TablesInv
  <1>. QED BY <1>3, <1>4

LEMMA InsertKeeps ==
  ASSUME TablesInv, NEW t \in All, Insert(t)
  PROVE  TablesInv'
  <1>1. TypeOK /\ \A u \in All : PlaceOK(u) /\ pc[u] \in 1 .. 24 /\ count[u] \in Nat /\ n[u] \in Nat
    BY TypeFacts DEF TablesInv
  <1>2. PICK table, i : table = At(t) /\ i = n[t]
    OBVIOUS
  <1>3. /\ UNCHANGED <<doing, key, value, count, mutex>> /\ inside' \in [All -> BOOLEAN]
        /\ table \in Tables /\ pc[t] \in {3, 4} /\ count[t] = 1
        /\ table = "names" <=> pc[t] = 3
        /\ i \in 1 .. Len(Order) /\ Order[i] \in Types
        /\ entry' = [entry EXCEPT ![table][Order[i]] = Order[i]]
    <2>1. i > 0 /\ i \in 0 .. Len(Order)
      BY <1>1, <1>2 DEF Insert, TypeOK
    <2>2. i \in 1 .. Len(Order) /\ Order[i] \in Types
      BY <2>1, OrderFacts
    <2>3. inside' \in [All -> BOOLEAN]
      BY <1>1 DEF Insert, Leave, TypeOK
    <2>4. pc[t] \in {3, 4} /\ count[t] = 1
      BY <1>1, <1>2, <2>1 DEF PlaceOK
    <2>. QED BY <1>1, <1>2, <2>2, <2>3, <2>4, Labels DEF Insert, Tables
  <1>4. \/ /\ i = Len(Order) /\ n' = [n EXCEPT ![t] = 0]
           /\ pc' \in [All -> DOMAIN Program] /\ pc'[t] = pc[t] + 1 /\ \A u \in All : u # t => pc'[u] = pc[u]
        \/ i # Len(Order) /\ n' = [n EXCEPT ![t] = i + 1] /\ pc' = pc
    <2>1. CASE i = Len(Order)
      <3>1. n' = [n EXCEPT ![t] = 0] /\ Advance(t) /\ pc[t] # 24
        BY <1>2, <1>3, <2>1 DEF Insert
      <3>2. /\ pc' \in [All -> DOMAIN Program] /\ Leads(pc[t], pc'[t], doing[t])
            /\ \A u \in All : u # t => pc'[u] = pc[u]
        BY <1>1, <3>1, Advanced
      <3>3. pc'[t] = pc[t] + 1
        BY <1>3, <3>2 DEF Leads
      <3>. QED BY <2>1, <3>1, <3>2, <3>3
    <2>2. CASE i # Len(Order)
      BY <1>2, <2>2 DEF Insert
    <2>. QED BY <2>1, <2>2
  <1>5. /\ entry'[table][Order[i]] = Order[i]
        /\ \A x \in Types : x # Order[i] => entry'[table][x] = entry[table][x]
        /\ \A other \in Tables \ {table} : entry'[other] = entry[other]
    BY <1>1, <1>3 DEF TypeOK, Tables
  <1>6. TypeOK'
    <2>1. entry' \in [{"names", "texts"} -> [Types -> Types \cup {"", Unset}]]
      BY <1>1, <1>3 DEF TypeOK, Tables
    <2>2. pc' \in [All -> DOMAIN Program]
      BY <1>1, <1>4 DEF TypeOK
    <2>3. n' \in [All -> 0 .. Len(Order)]
      <3>1. 0 \in 0 .. Len(Order) /\ (i # Len(Order) => i + 1 \in 0 .. Len(Order))
        BY <1>3, OrderFacts
      <3>. QED BY <1>1, <1>4, <3>1 DEF TypeOK
    <2>. QED BY <1>1, <1>3, <2>1, <2>2, <2>3 DEF TypeOK
  <1>7. \A u \in All : u # t =>
          /\ n'[u] = n[u] /\ pc'[u] = pc[u] /\ At(u)' = At(u)
          /\ \A tab : Passed(u, tab)' = Passed(u, tab)
    <2>1. \A u \in All : u # t => n'[u] = n[u] /\ pc'[u] = pc[u]
      BY <1>1, <1>4, TypeFacts DEF TypeOK
    <2>. QED BY <1>3, <2>1 DEF At, Passed
  <1>8. \/ i = Len(Order) /\ n'[t] = 0 /\ pc'[t] = pc[t] + 1
        \/ i # Len(Order) /\ n'[t] = i + 1 /\ pc'[t] = pc[t] /\ At(t)' = table
    BY <1>1, <1>2, <1>4, TypeFacts DEF TypeOK, At
  \* What is set stays set.
  <1>9. \A tab \in Tables, x \in Types : entry[tab][x] # Unset => entry'[tab][x] # Unset
    BY <1>3, <1>5, OrderFacts
  <1>10. \A u \in All : PlaceOK(u)'
    <2>1. ASSUME NEW u \in All, u # t PROVE PlaceOK(u)'
      BY <1>1, <1>3, <1>7, <2>1 DEF PlaceOK
    <2>2. PlaceOK(t)'
      <3>1. pc'[t] \in {3, 4, 5} /\ (n'[t] > 0 => pc'[t] \in {3, 4}) /\ count'[t] = 1 /\ doing'[t] = doing[t]
        BY <1>3, <1>8
      <3>2. doing[t] \notin {"accept", "bye"}
        BY <1>1, <1>3 DEF PlaceOK
      <3>. QED BY <3>1, <3>2 DEF PlaceOK, Holding
    <2>. QED BY <2>1, <2>2
  <1>11. \A u \in All : FilledOK(u)'
    <2>1. ASSUME NEW u \in All, n[u] > 0
          PROVE  \A j \in 1 .. n[u] - 1 : entry'[At(u)][Order[j]] # Unset
      <3>1. At(u) \in Tables
        BY <1>1, <2>1, Labels DEF PlaceOK, Tables
      <3>2. n[u] \in 0 .. Len(Order)
        BY <1>1 DEF TypeOK
      <3>3. \A j \in 1 .. n[u] - 1 : Order[j] \in Types
        BY <3>2, OrderFacts
      <3>4. \A j \in 1 .. n[u] - 1 : entry[At(u)][Order[j]] # Unset
        BY <2>1 DEF TablesInv, FilledOK
      <3>. QED BY <1>9, <3>1, <3>3, <3>4
    <2>2. ASSUME NEW u \in All, u # t PROVE FilledOK(u)'
      BY <1>7, <2>1, <2>2 DEF FilledOK
    <2>3. FilledOK(t)'
      <3>1. CASE i = Len(Order)
        BY <1>3, <1>8, <3>1 DEF FilledOK
      <3>2. CASE i # Len(Order)
        <4>1. \A j \in 1 .. i - 1 : entry'[table][Order[j]] # Unset
          BY <1>2, <1>3, <2>1
        <4>2. entry'[table][Order[i]] # Unset
          BY <1>3, <1>5, OrderFacts
        <4>3. \A j \in 1 .. (i + 1) - 1 : j = i \/ j \in 1 .. i - 1
          BY <1>3
        <4>. QED BY <1>3, <1>8, <3>2, <4>1, <4>2, <4>3 DEF FilledOK
      <3>. QED BY <3>1, <3>2
    <2>. QED BY <2>2, <2>3
  <1>12. ASSUME NEW tab \in Tables PROVE TableOK(tab)'
    <2>1. TableOK(tab) /\ (Begun(tab) => Begun(tab)') /\ (Complete(tab) => Complete(tab)')
      BY <1>9 DEF TablesInv, Begun, Complete
    <2>2. CASE tab = table
      <3>1. Begun(tab)'
        BY <1>3, <1>5, <2>2, OrderFacts DEF Begun
      <3>2. CASE i # Len(Order)
        <4>1. t \in Filling(tab)'
          BY <1>3, <1>8, <2>2, <3>2 DEF Filling
        <4>. QED BY <3>1, <4>1 DEF TableOK
      <3>3. CASE i = Len(Order)
        <4>1. \A j \in 1 .. i - 1 : entry[table][Order[j]] # Unset
          BY <1>2, <1>3 DEF TablesInv, FilledOK
        <4>2. ASSUME NEW x \in Types PROVE entry'[table][x] # Unset
          <5>1. PICK j \in 1 .. Len(Order) : Order[j] = x
            BY OrderFacts
          <5>2. CASE j = i
            BY <1>3, <1>5, <5>1, <5>2, OrderFacts
          <5>3. CASE j # i
            <6>1. j \in 1 .. i - 1
              BY <1>3, <3>3, <5>3
            <6>. QED BY <1>3, <1>9, <4>1, <5>1, <6>1
          <5>. QED BY <5>2, <5>3
        <4>. QED BY <2>2, <3>1, <4>2 DEF TableOK, Complete
      <3>. QED BY <3>2, <3>3
    <2>3. CASE tab # table
      <3>1. Passed(t, tab)' => Passed(t, tab)
        BY <1>1, <1>3, <1>8, <2>3 DEF Passed, Tables
      <3>2. Begun(tab)' = Begun(tab) /\ Complete(tab)' = Complete(tab)
        BY <1>5, <2>3 DEF Begun, Complete
      <3>3. Filling(tab) \subseteq Filling(tab)'
        BY <1>2, <1>7, <2>3 DEF Filling
      <3>4. (\E u \in All : Passed(u, tab)') => \E u \in All : Passed(u, tab)
        BY <1>7, <3>1
      <3>. QED BY <2>1, <3>2, <3>3, <3>4 DEF TableOK
    <2>. QED BY <2>2, <2>3
  <1>13. ASSUME NEW x \in Types PROVE NamesOK(x)'
    <2>1. CASE entry["names"][x] \in {Unset, x}
      <3>1. entry'["names"][x] \in {Unset, x}
        BY <1>3, <1>5, <2>1 DEF Tables
      <3>. QED BY <3>1 DEF NamesOK
    <2>2. CASE entry["names"][x] \notin {Unset, x}
      <3>1. PICK w \in Filling("names") : \E j \in n[w] .. Len(Order) : Order[j] = x
        BY <2>2 DEF TablesInv, NamesOK
      <3>2. PICK j \in n[w] .. Len(Order) : Order[j] = x
        BY <3>1
      <3>3. CASE w # t
        <4>1. w \in All
          BY <3>1 DEF Filling
        <4>2. w \in Filling("names")' /\ n'[w] = n[w]
          BY <1>7, <3>1, <3>3, <4>1 DEF Filling
        <4>. QED BY <3>2, <4>2 DEF NamesOK
      <3>4. CASE w = t /\ j = i
        <4>1. table = "names"
          BY <1>2, <3>1, <3>4 DEF Filling
        <4>. QED BY <1>5, <3>2, <3>4, <4>1 DEF NamesOK
      <3>5. CASE w = t /\ j # i
        <4>1. table = "names"
          BY <1>2, <3>1, <3>5 DEF Filling
        <4>2. i # Len(Order) /\ j \in i + 1 .. Len(Order)
          BY <1>2, <1>3, <3>2, <3>5
        <4>3. t \in Filling("names")' /\ n'[t] = i + 1
          BY <1>3, <1>8, <4>1, <4>2 DEF Filling
        <4>. QED BY <3>2, <4>2, <4>3 DEF NamesOK
      <3>. QED BY <3>3, <3>4, <3>5
    <2>. QED BY <2>1, <2>2
  <1>. QED BY <1>6, <1>10, <1>11, <1>12, <1>13 DEF TablesInv

-----------------------------------------------------------------------------
(* operator[]. *)

\* A key that is not found: somebody is filling the map, and has the key
\* before him.
LEMMA MissingIsComing ==
  ASSUME TablesInv, NEW t \in All, NEW table \in Tables, Passed(t, table),
         NEW x \in Types, entry[table][x] = Unset
  PROVE  \E w \in Filling(table) : \E j \in n[w] .. Len(Order) : Order[j] = x
  <1>1. ~Complete(table) /\ Begun(table)
    BY PassedBegun DEF Complete
  <1>2. PICK w \in Filling(table) : TRUE
    BY <1>1 DEF TablesInv, TableOK
  <1>3. w \in All /\ At(w) = table /\ n[w] > 0 /\ n[w] \in Nat
    BY <1>2, TypeFacts DEF Filling, TablesInv
  <1>4. PICK j \in 1 .. Len(Order) : Order[j] = x
    BY OrderFacts
  <1>5. j \notin 1 .. n[w] - 1
    BY <1>3, <1>4 DEF TablesInv, FilledOK
  <1>6. j \in n[w] .. Len(Order)
    BY <1>3, <1>4, <1>5, OrderFacts
  <1>. QED BY <1>2, <1>4, <1>6

LEMMA LookUpKeeps ==
  ASSUME TablesInv, NEW t \in All, Type(t) \/ Emit(t)
  PROVE  TablesInv'
  <1>1. TypeOK /\ \A u \in All : PlaceOK(u) /\ pc[u] \in 1 .. 24 /\ count[u] \in Nat /\ n[u] \in Nat
    BY TypeFacts DEF TablesInv
  <1>2. PICK table, found :
          /\ table \in Tables /\ LookUp(t, table, found) /\ Passed(t, table) /\ n[t] = 0 /\ count[t] > 0
          /\ pc[t] \in {7, 8, 11, 16}
    <2>1. pc[t] \in {7, 8, 11, 16} /\ n[t] = 0
      <3>1. pc[t] \in {7, 8, 11, 16}
        BY <1>1, Labels DEF Type, Emit
      <3>. QED BY <1>1, <3>1 DEF PlaceOK
    <2>2. doing[t] \in {"request", "WAIT", "unknown", "bye", "accept"}
      BY <1>1 DEF TypeOK
    <2>3. count[t] > 0
      BY <1>1, <2>1, <2>2 DEF PlaceOK, Asked
    <2>4. \A table \in Tables : Passed(t, table)
      BY <2>1, <2>3 DEF Passed
    <2>. QED BY <2>1, <2>3, <2>4 DEF Type, Emit, Tables
  <1>3. PICK x \in Types : x = key[t]
    BY <1>1 DEF TypeOK
  <1>4. /\ entry' = [entry EXCEPT ![table][x] = found]
        /\ value' = [value EXCEPT ![t] = found]
        /\ found # Unset
        /\ found = IF entry[table][x] = Unset THEN Default[table] ELSE entry[table][x]
    <2>1. Default["names"] # Unset /\ Default["texts"] # Unset
      BY DEF Default, Unset
    <2>2. found = IF entry[table][x] = Unset THEN Default[table] ELSE entry[table][x]
      BY <1>2, <1>3 DEF LookUp
    <2>3. found # Unset
      BY <1>2, <2>1, <2>2 DEF Tables
    <2>. QED BY <1>2, <1>3, <2>2, <2>3 DEF LookUp
  <1>5. /\ UNCHANGED <<n, key, count, mutex>> /\ inside' \in [All -> BOOLEAN]
        /\ pc' \in [All -> DOMAIN Program] /\ doing' \in [All -> {"request", "WAIT", "unknown", "bye", "accept"}]
        /\ \A u \in All : u # t => pc'[u] = pc[u] /\ doing'[u] = doing[u]
        /\ PlaceOK(t)' /\ pc'[t] \in {2, 8, 9, 12, 17, 18}
    <2>1. UNCHANGED <<n, key, count, mutex>> /\ inside' \in [All -> BOOLEAN]
      BY <1>1, <1>2 DEF LookUp, Leave, TypeOK
    <2>2. CASE Type(t)
      <3>1. PICK d, p : doing' = [doing EXCEPT ![t] = d] /\ d \in Asked /\ p \in {9, 12} /\ pc' = [pc EXCEPT ![t] = p]
        BY <2>2 DEF Type, Goto, Asked
      <3>2. pc' \in [All -> DOMAIN Program] /\ pc'[t] = p /\ doing'[t] = d
        <4>1. pc \in [All -> DOMAIN Program] /\ doing \in [All -> {"request", "WAIT", "unknown", "bye", "accept"}]
          BY <1>1 DEF TypeOK
        <4>2. p \in DOMAIN Program
          BY <1>1, <3>1, TypeFacts
        <4>. QED BY <3>1, <4>1, <4>2
      <3>3. PlaceOK(t)'
        BY <1>2, <2>1, <3>1, <3>2 DEF PlaceOK, Asked, Holding
      <3>. QED BY <1>1, <2>1, <3>1, <3>2, <3>3 DEF TypeOK, Asked
    <2>3. CASE Emit(t)
      <3>1. Advance(t) /\ UNCHANGED doing /\ pc[t] \in {7, 11, 16}
        BY <1>1, <2>3, Labels DEF Emit
      <3>2. /\ pc' \in [All -> DOMAIN Program] /\ Leads(pc[t], pc'[t], doing[t])
            /\ \A u \in All : u # t => pc'[u] = pc[u]
        BY <1>1, <3>1, Advanced
      <3>3. /\ pc'[t] \in {2, 8, 17, 18}
            /\ pc'[t] = 17 => pc[t] = 16
        BY <3>1, <3>2 DEF Leads
      <3>4. pc'[t] \in Holding => mutex' = t
        BY <1>1, <2>1, <3>3 DEF PlaceOK, Holding
      <3>5. PlaceOK(t)'
        BY <1>1, <1>2, <2>1, <3>1, <3>4, PlaceKeeps
      <3>. QED BY <1>1, <2>1, <3>1, <3>2, <3>3, <3>5 DEF TypeOK
    <2>. QED BY <2>2, <2>3
  <1>6. /\ entry'[table][x] = found
        /\ \A y \in Types : y # x => entry'[table][y] = entry[table][y]
        /\ \A other \in Tables \ {table} : entry'[other] = entry[other]
    BY <1>1, <1>2, <1>4 DEF TypeOK, Tables
  <1>7. TypeOK'
    <2>1. found \in Types \cup {"", Unset}
      <3>1. Default["names"] \in Types /\ Default["texts"] = ""
        BY OrderFacts DEF Default
      <3>2. entry[table][x] \in Types \cup {"", Unset}
        BY <1>1, <1>2 DEF TypeOK, Tables
      <3>. QED BY <1>2, <1>4, <3>1, <3>2 DEF Tables
    <2>3. value' \in [All -> Types \cup {"", Unset}]
      BY <1>1, <1>4, <2>1 DEF TypeOK
    <2>4. entry' \in [{"names", "texts"} -> [Types -> Types \cup {"", Unset}]]
      BY <1>1, <1>4, <2>1 DEF TypeOK, Tables
    <2>. QED BY <1>1, <1>5, <2>3, <2>4 DEF TypeOK
  <1>8. \A u \in All : u # t => pc'[u] = pc[u] /\ At(u)' = At(u)
    BY <1>5 DEF At
  <1>9. \A tab \in Tables, y \in Types : entry[tab][y] # Unset => entry'[tab][y] # Unset
    BY <1>4, <1>6
  <1>10. \A tab : Filling(tab)' = Filling(tab)
    BY <1>2, <1>5, <1>8 DEF Filling
  <1>11. ASSUME NEW u \in All PROVE PlaceOK(u)'
    <2>1. CASE u = t
      BY <1>5, <2>1
    <2>2. CASE u # t
      BY <1>1, <1>5, <1>8, <2>2 DEF PlaceOK
    <2>. QED BY <2>1, <2>2
  <1>12. ASSUME NEW u \in All PROVE FilledOK(u)'
    <2>1. CASE u = t
      BY <1>2, <1>5, <2>1 DEF FilledOK
    <2>2. CASE u # t /\ n[u] > 0
      <3>1. At(u) \in Tables
        BY <1>1, <2>2, Labels DEF PlaceOK, Tables
      <3>2. n[u] \in 0 .. Len(Order)
        BY <1>1 DEF TypeOK
      <3>3. \A j \in 1 .. n[u] - 1 : Order[j] \in Types
        BY <3>2, OrderFacts
      <3>4. \A j \in 1 .. n[u] - 1 : entry[At(u)][Order[j]] # Unset
        BY <2>2 DEF TablesInv, FilledOK
      <3>. QED BY <1>5, <1>8, <1>9, <2>2, <3>1, <3>3, <3>4 DEF FilledOK
    <2>3. CASE u # t /\ ~(n[u] > 0)
      BY <1>5, <2>3 DEF FilledOK
    <2>. QED BY <2>1, <2>2, <2>3
  <1>13. ASSUME NEW tab \in Tables PROVE TableOK(tab)'
    <2>1. TableOK(tab) /\ (Begun(tab) => Begun(tab)') /\ (Complete(tab) => Complete(tab)')
      BY <1>9 DEF TablesInv, Begun, Complete
    <2>2. Begun(tab)' => Begun(tab)
      <3>1. CASE tab = table
        BY <1>2, <3>1, PassedBegun
      <3>2. CASE tab # table
        BY <1>6, <3>2 DEF Begun
      <3>. QED BY <3>1, <3>2
    <2>3. \A u \in All : Passed(u, tab)' => Passed(u, tab)
      <3>1. Passed(t, tab)' => Passed(t, tab)
        BY <1>2, <1>5 DEF Passed, Tables
      <3>. QED BY <1>5, <1>8, <3>1 DEF Passed
    <2>. QED BY <1>10, <2>1, <2>2, <2>3 DEF TableOK
  <1>14. ASSUME NEW y \in Types PROVE NamesOK(y)'
    <2>1. CASE table = "names" /\ y = x /\ entry[table][x] = Unset
      <3>1. \E w \in Filling("names") : \E j \in n[w] .. Len(Order) : Order[j] = y
        BY <1>2, <2>1, MissingIsComing
      <3>. QED BY <1>5, <1>10, <3>1 DEF NamesOK
    <2>2. CASE ~(table = "names" /\ y = x /\ entry[table][x] = Unset)
      <3>1. entry'["names"][y] = entry["names"][y]
        BY <1>4, <1>6, <2>2 DEF Tables
      <3>. QED BY <1>5, <1>10, <3>1 DEF TablesInv, NamesOK
    <2>. QED BY <2>1, <2>2
  <1>. QED BY <1>7, <1>11, <1>12, <1>13, <1>14 DEF TablesInv

-----------------------------------------------------------------------------
LEMMA TablesInit == Init => TablesInv
  <1>. SUFFICES ASSUME Init PROVE TablesInv
    OBVIOUS
  <1>1. TypeOK
    BY OrderFacts, TablesAssumption DEF Init, TypeOK, Program
  <1>2. \A t \in All : pc[t] = 1 /\ n[t] = 0 /\ count[t] = 0
    BY DEF Init
  <1>3. \A table \in Tables, x \in Types : entry[table][x] = Unset
    BY DEF Init, Tables
  <1>4. \A t \in All : PlaceOK(t) /\ FilledOK(t)
    <2>1. \A t \in All : doing[t] \in {"request", "accept"}
      BY DEF Init
    <2>. QED BY <1>2, <2>1 DEF PlaceOK, FilledOK, Asked, Holding
  <1>5. \A table \in Tables : TableOK(table)
    BY <1>2, <1>3 DEF TableOK, Passed, Begun
  <1>6. \A x \in Types : NamesOK(x)
    BY <1>3 DEF NamesOK, Tables
  <1>. QED BY <1>1, <1>4, <1>5, <1>6 DEF TablesInv

LEMMA TablesStep == TablesInv /\ [Next]_vars => TablesInv'
  <1>. SUFFICES ASSUME TablesInv, [Next]_vars PROVE TablesInv'
    OBVIOUS
  <1>1. ASSUME NEW t \in All, Step(t) PROVE TablesInv'
    BY <1>1, RecvKeeps, ByeKeeps, EnterKeeps, WalkKeeps, SizeReadKeeps, InsertKeeps, LookUpKeeps DEF Step
  <1>2. CASE UNCHANGED vars
    <2>1. TypeOK'
      BY <1>2 DEF vars, TablesInv, TypeOK
    <2>2. \A u \in All : At(u)' = At(u) /\ PlaceOK(u)' /\ \A table : Passed(u, table)' = Passed(u, table)
      BY <1>2 DEF vars, TablesInv, At, Passed, PlaceOK
    <2>3. \A table : Filling(table)' = Filling(table)
      BY <1>2, <2>2 DEF vars, Filling
    <2>4. \A u \in All : FilledOK(u)'
      BY <1>2, <2>2 DEF vars, TablesInv, FilledOK
    <2>5. \A table \in Tables : TableOK(table)'
      BY <1>2, <2>2, <2>3 DEF vars, TablesInv, TableOK, Begun, Complete
    <2>6. \A x \in Types : NamesOK(x)'
      BY <1>2, <2>3 DEF vars, TablesInv, NamesOK
    <2>. QED BY <2>1, <2>2, <2>4, <2>5, <2>6 DEF TablesInv
  <1>. QED BY <1>1, <1>2 DEF Next

\* A map of Message is complete once somebody has inserted and nobody is filling
\* it, whatever handler threads do (message.cpp).
THEOREM TablesInvariant == Spec => []TablesInv
  BY TablesInit, TablesStep, PTL DEF Spec

\* Every variable keeps its type; operator[] finds or inserts a type or a text.
THEOREM TablesTypes == Spec => []TypeOK
  <1>1. TablesInv => TypeOK
    BY DEF TablesInv
  <1>. QED BY <1>1, TablesInvariant, PTL

\* However many threads serve clients, two of them are in one map with one changing
\* it only while a thread in its first request is filling it (message.cpp).
THEOREM RacesAreEarly == Spec => []RacesOnlyWhileFilling
  <1>1. ASSUME TablesInv, NEW t \in All, In(t) \in Tables, Changes(t)
        PROVE  \E w \in Filling(In(t)) : count[w] = 1
    <2>1. TypeOK /\ PlaceOK(t)
      BY <1>1 DEF TablesInv
    <2>2. \A w \in Filling(In(t)) : count[w] = 1
      BY <1>1 DEF Filling, TablesInv, PlaceOK
    <2>3. CASE At(t) \in Tables /\ n[t] > 0
      <3>1. In(t) = At(t)
        BY <1>1, <2>3 DEF In, Tables
      <3>. QED BY <2>2, <2>3, <3>1 DEF Filling
    <2>4. CASE At(t) \in {"type", "emit"} /\ entry[In(t)][key[t]] = Unset
      <3>1. Passed(t, In(t)) /\ key[t] \in Types
        <4>1. pc[t] \in {7, 8, 11, 16} /\ key[t] \in Types
          BY <2>1, <2>4, Labels DEF TypeOK
        <4>2. doing[t] \in {"request", "WAIT", "unknown", "bye", "accept"}
          BY <2>1 DEF TypeOK
        <4>3. count[t] > 0
          BY <2>1, <4>1, <4>2 DEF PlaceOK, Asked
        <4>. QED BY <1>1, <4>1, <4>3 DEF Passed, Tables
      <3>2. \E w \in Filling(In(t)) : TRUE
        BY <1>1, <2>4, <3>1, MissingIsComing
      <3>. QED BY <2>2, <3>2
    <2>. QED BY <1>1, <2>3, <2>4 DEF Changes, Tables
  <1>2. TablesInv => RacesOnlyWhileFilling
    BY <1>1 DEF RacesOnlyWhileFilling, Tables
  <1>. QED BY <1>2, TablesInvariant, PTL

\* Two threads are in the log at once only if one announces its client or is in
\* SecureSocket::accept, for any number of threads: everybody else who logs holds
\* the mutex (server.cpp, secure_socket.cpp, logger.h).
THEOREM LogMostlyExclusive == Spec => []LogExclusive
  <1>1. ASSUME TablesInv, NEW t \in All, In(t) = "log" PROVE pc[t] = 1 \/ mutex = t
    <2>1. At(t) = "log"
      BY <1>1 DEF In
    <2>. QED BY <1>1, <2>1, Labels DEF TablesInv, PlaceOK, Holding
  <1>2. TablesInv => LogExclusive
    BY <1>1 DEF LogExclusive
  <1>. QED BY <1>2, TablesInvariant, PTL

\* type() returns the type of the message unless somebody is filling the map: no
\* default that operator[] stored meanwhile is left over (message.h).
THEOREM TypesReadRight == Spec => TypeReadOnceFilled
  <1>1. ASSUME TablesInv, [Next]_vars, NEW t \in All, At(t) = "type", pc'[t] # pc[t],
               Filling("names") = {}
        PROVE  value'[t] = key'[t]
    <2>1. TypeOK /\ PlaceOK(t) /\ pc[t] = 8 /\ key[t] \in Types
      BY <1>1, Labels DEF TablesInv, TypeOK
    <2>2. PICK u \in All : Step(u)
      BY <1>1 DEF Next, vars
    <2>3. u = t
      BY <1>1, <2>1, <2>2, TypeFacts
         DEF Step, Recv, Bye, Refused, Enter, Logged, SizeRead, Insert, Type, Emit, Lock, Unlock, Goto, Advance
    <2>4. Type(t)
      BY <1>1, <2>1, <2>2, <2>3 DEF Step, Recv, Bye, Refused, Enter, Logged, SizeRead, Insert, Emit, Lock, Unlock
    <2>5. entry["names"][key[t]] = key[t]
      <3>1. entry["names"][key[t]] # Unset
        <4>1. Passed(t, "names")
          <5>1. doing[t] \in {"request", "WAIT", "unknown", "bye", "accept"}
            BY <2>1 DEF TypeOK
          <5>2. count[t] > 0
            BY <2>1, <5>1 DEF PlaceOK, Asked
          <5>. QED BY <2>1, <5>2 DEF Passed
        <4>. QED BY <1>1, <2>1, <4>1, MissingIsComing DEF Tables
      <3>. QED BY <1>1, <2>1, <3>1 DEF TablesInv, NamesOK
    <2>6. value'[t] = entry["names"][key[t]] /\ key' = key
      <3>1. entry["names"][key[t]] # Unset
        BY <2>1, <2>5, OrderFacts
      <3>. QED BY <2>1, <2>4, <3>1 DEF Type, LookUp, TypeOK
    <2>. QED BY <2>5, <2>6
  <1>2. TablesInv /\ [Next]_vars
          => [\A t \in All :
                (At(t) = "type" /\ pc'[t] # pc[t] /\ Filling("names") = {})
                  => value'[t] = key'[t]]_vars
    BY <1>1
  <1>. QED BY <1>2, TablesInvariant, PTL DEF Spec, TypeReadOnceFilled
=============================================================================
