--------------------------- MODULE ReadersProofs ---------------------------
(***************************************************************************)
(* Safety of the reader test over the abstract memory, for any number of   *)
(* rounds and whatever count_spaces returns.  Three of the blocks are      *)
(* mailboxes: one program fills the block, once in a round, and the other  *)
(* empties it, once it has seen it filled.  Each writes only while the     *)
(* other must not, so that no write finds its copy stale.  The fourth, the *)
(* text, is written before the size is, and read after.  All that holds    *)
(* until a call of theirs times out; of a program that is left alone then  *)
(* a weaker invariant says that its own writes still succeed.              *)
(***************************************************************************)
EXTENDS Readers, SequenceTheorems, TLAPS

Mails == {"size", "spaces", "words"}
Other(r) == IF r = Reader1 THEN Reader2 ELSE Reader1
From(b) == IF b = "words" THEN Reader2 ELSE Reader1
To(b) == Other(From(b))
PutAt(b) == IF b = "size" THEN 6 ELSE 7
TakeAt(b) == IF b = "size" THEN 4 ELSE 8

\* The write of the i-th instruction of r has taken effect in this round.
Wrote(r, i) == pc[r] > i \/ (pc[r] = i /\ op[r].state = "ok")
Filled(b) == Wrote(From(b), PutAt(b))
Emptied(b) == Wrote(To(b), TakeAt(b) + 1)

\* The call a program is in is that of its instruction.
CallOf(i, s) ==
  CASE i = "MAP" -> "MAP" [] i = "UNMAP" -> "UNMAP"
    [] i \in {"put", "clear"} -> "WRITE" [] OTHER -> IF s THEN "UPDATE" ELSE "WAIT"
OpOK(r) ==
  op[r] # NoOp =>
    /\ status[r] = "running" /\ pc[r] <= 13
    /\ LET i == Program(r)[pc[r]][1]
           b == Program(r)[pc[r]][2] IN
       /\ op[r] = Called(CallOf(i, stored[r]), b) \/ op[r] = Over(CallOf(i, stored[r]), b, "ok")
            \/ (i = "UNMAP" /\ op[r] = Over("UNMAP", b, "refused"))
       /\ i \in {"put", "clear"} => stored[r] /\ b \in held[r]
       /\ i = "MAP" /\ op[r].state = "ok" => b \in held[r]
StatusOK(r) ==
  /\ status[r] \in {"running", "0"}
  /\ status[r] = "0" => pc[r] = 14 /\ held[r] = {} /\ \A b \in Blocks : copy[r][b] = 0

FromOK(b) ==
  LET f == From(b) IN
  /\ b \in held[f] /\ ~Emptied(b) => <<f, b>> \in fresh
  /\ pc[f] = PutAt(b) /\ stored[f] => copy[f][b] = out[f][b]

ToOK(b) ==
  LET t == To(b) IN
  /\ pc[t] > TakeAt(b) => Filled(b) /\ out[t][b] = out[From(b)][b]
  /\ pc[t] <= TakeAt(b) /\ copy[t][b] # 0 =>
       <<t, b>> \in fresh /\ Filled(b) /\ copy[t][b] = out[From(b)][b]
  /\ pc[t] = TakeAt(b) + 1 => <<t, b>> \in fresh /\ (stored[t] => copy[t][b] = 0)

MailOK(b) ==
  /\ mem[b] = IF Filled(b) /\ ~Emptied(b) THEN out[From(b)][b] ELSE 0
  /\ FromOK(b) /\ ToOK(b)

TextOK ==
  /\ Wrote(Reader1, 5) => mem["text"] = round
  /\ "text" \in held[Reader1] => <<Reader1, "text">> \in fresh
  /\ pc[Reader1] = 5 /\ stored[Reader1] => copy[Reader1]["text"] = round
  /\ "text" \in held[Reader2] => pc[Reader2] > 4 /\ copy[Reader2]["text"] = round
  /\ pc[Reader2] \in 7 .. 9 => "text" \in held[Reader2]

\* The values that are known: the size and the words are the round's.
ValueOK(b) ==
  b # "spaces" =>
    (pc[From(b)] > PutAt(b) \/ (pc[From(b)] = PutAt(b) /\ stored[From(b)])
       => out[From(b)][b] = round)

Values == Data \cup Nat
ReadersTypes ==
  /\ round \in Nat /\ pc \in [Clients -> 1 .. 14] /\ stored \in [Clients -> BOOLEAN]
  /\ out \in [Clients -> [Mails -> Values]]
  /\ mem \in [Blocks -> Values] /\ copy \in [Clients -> [Blocks -> Values]]
  /\ held \in [Clients -> SUBSET Blocks] /\ fresh \subseteq Clients \X Blocks
  /\ DOMAIN op = Clients /\ DOMAIN status = Clients

ReadersInv ==
  /\ ReadersTypes
  /\ \A r \in Clients : OpOK(r) /\ StatusOK(r)
  /\ \A b \in Mails : MailOK(b) /\ ValueOK(b)
  /\ TextOK

-----------------------------------------------------------------------------
(* The programs. *)

\* Where the instruction <<x, b>> of r can be.
Place(r, i, x, b) ==
  \/ x = "MAP" /\ IF b = "text" THEN i = (IF r = Reader1 THEN 4 ELSE 6) ELSE i <= 3
  \/ x = "put" /\ IF b = "text" THEN r = Reader1 /\ i = 5 ELSE r = From(b) /\ i = PutAt(b)
  \/ x = "take" /\ b # "text" /\ r = To(b) /\ i = TakeAt(b)
  \/ x = "clear" /\ b # "text" /\ r = To(b) /\ i = TakeAt(b) + 1
  \/ x = "UNMAP" /\ i >= 10

\* The instructions of r that write.
Writes(r) == IF r = Reader1 THEN {5, 6, 7, 9} ELSE {5, 7, 9}

Pairs == {"MAP", "put", "take", "clear", "UNMAP"} \X {"text", "size", "spaces", "words"}

LEMMA MapsPart == Maps \in Seq(Pairs) /\ Len(Maps) = 3
  BY DEF Maps, Pairs
LEMMA UnmapsPart == Unmaps \in Seq(Pairs) /\ Len(Unmaps) = 4
  BY DEF Unmaps, Pairs
LEMMA WaiterPart == Waiter \in Seq(Pairs) /\ Len(Waiter) = 6
  BY DEF Waiter, Pairs

\* u is s, which has n elements, and then t, which has k.
Join(u, s, n, t, k) ==
  /\ u \in Seq(Pairs) /\ Len(u) = n + k
  /\ \A i \in 1 .. n : u[i] = s[i]
  /\ \A i \in 1 .. k : u[n + i] = t[i]

LEMMA Joined ==
  ASSUME NEW s \in Seq(Pairs), NEW t \in Seq(Pairs)
  PROVE  Join(s \o t, s, Len(s), t, Len(t))
  <1>1. PICK u : u = s \o t
    OBVIOUS
  <1>2. PICK n \in Nat, k \in Nat : n = Len(s) /\ k = Len(t)
    OBVIOUS
  <1>3. /\ s \o t \in Seq(Pairs) /\ Len(s \o t) = Len(s) + Len(t)
        /\ \A i \in 1 .. Len(s) + Len(t) : (s \o t)[i] = IF i <= Len(s) THEN s[i] ELSE t[i - Len(s)]
    BY ConcatProperties
  <1>4. /\ u \in Seq(Pairs) /\ Len(u) = n + k
        /\ \A i \in 1 .. n + k : u[i] = IF i <= n THEN s[i] ELSE t[i - n]
    BY <1>1, <1>2, <1>3
  <1>5. ASSUME NEW i \in 1 .. n PROVE u[i] = s[i]
    <2>1. i \in 1 .. n + k /\ i <= n
      OBVIOUS
    <2>. QED BY <1>4, <2>1
  <1>6. ASSUME NEW i \in 1 .. k PROVE u[n + i] = t[i]
    <2>1. PICK j : j = n + i
      OBVIOUS
    <2>2. j \in 1 .. n + k /\ ~(j <= n) /\ j - n = i
      BY <2>1
    <2>3. u[j] = t[j - n]
      BY <1>4, <2>2
    <2>. QED BY <2>1, <2>2, <2>3
  <1>7. Join(u, s, n, t, k)
    BY <1>4, <1>5, <1>6 DEF Join
  <1>. QED BY <1>1, <1>2, <1>7

\* A program whose own part is m.
Whole(p, m) ==
  /\ Len(p) = 13
  /\ p[1] = Maps[1] /\ p[2] = Maps[2] /\ p[3] = Maps[3]
  /\ p[4] = m[1] /\ p[5] = m[2] /\ p[6] = m[3] /\ p[7] = m[4] /\ p[8] = m[5] /\ p[9] = m[6]
  /\ p[10] = Unmaps[1] /\ p[11] = Unmaps[2] /\ p[12] = Unmaps[3] /\ p[13] = Unmaps[4]

LEMMA Lists ==
  ASSUME NEW m \in Seq(Pairs), Len(m) = 6
  PROVE  Whole(Maps \o m \o Unmaps, m)
  <1>1. PICK a : a = Maps \o m
    OBVIOUS
  <1>2. Join(a, Maps, 3, m, 6)
    <2>1. Join(Maps \o m, Maps, Len(Maps), m, Len(m))
      BY MapsPart, Joined
    <2>. QED BY <1>1, <2>1, MapsPart
  <1>3. /\ a \in Seq(Pairs) /\ Len(a) = 9
        /\ \A i \in 1 .. 3 : a[i] = Maps[i]
        /\ \A i \in 1 .. 6 : a[3 + i] = m[i]
    BY <1>2 DEF Join
  <1>4. PICK p : p = a \o Unmaps
    OBVIOUS
  <1>5. Join(p, a, 9, Unmaps, 4)
    <2>1. Join(a \o Unmaps, a, Len(a), Unmaps, Len(Unmaps))
      BY <1>3, UnmapsPart, Joined
    <2>. QED BY <1>3, <1>4, <2>1, UnmapsPart
  <1>6. /\ Len(p) = 13
        /\ \A i \in 1 .. 9 : p[i] = a[i]
        /\ \A i \in 1 .. 4 : p[9 + i] = Unmaps[i]
    BY <1>5 DEF Join
  <1>7. a[1] = Maps[1] /\ a[2] = Maps[2] /\ a[3] = Maps[3]
    BY <1>3
  <1>8. a[4] = m[1] /\ a[5] = m[2] /\ a[6] = m[3] /\ a[7] = m[4] /\ a[8] = m[5] /\ a[9] = m[6]
    <2>1. /\ 3 + 1 = 4 /\ 3 + 2 = 5 /\ 3 + 3 = 6 /\ 3 + 4 = 7 /\ 3 + 5 = 8 /\ 3 + 6 = 9
          /\ {1, 2, 3, 4, 5, 6} \subseteq 1 .. 6
      OBVIOUS
    <2>. QED BY <1>3, <2>1
  <1>9. p[10] = Unmaps[1] /\ p[11] = Unmaps[2] /\ p[12] = Unmaps[3] /\ p[13] = Unmaps[4]
    <2>1. 9 + 1 = 10 /\ 9 + 2 = 11 /\ 9 + 3 = 12 /\ 9 + 4 = 13 /\ {1, 2, 3, 4} \subseteq 1 .. 4
      OBVIOUS
    <2>. QED BY <1>6, <2>1
  <1>10. \A i \in {1, 2, 3, 4, 5, 6, 7, 8, 9} : p[i] = a[i]
    <2>1. {1, 2, 3, 4, 5, 6, 7, 8, 9} \subseteq 1 .. 9
      OBVIOUS
    <2>. QED BY <1>6, <2>1, Zenon
  <1>11. Whole(p, m)
    BY <1>6, <1>7, <1>8, <1>9, <1>10 DEF Whole
  <1>. QED BY <1>1, <1>4, <1>11

LEMMA Program1 ==
  LET p == Program(Reader1) IN
  /\ Len(p) = 13
  /\ p[1] = <<"MAP", "size">> /\ p[2] = <<"MAP", "spaces">> /\ p[3] = <<"MAP", "words">>
  /\ p[4] = <<"MAP", "text">> /\ p[5] = <<"put", "text">> /\ p[6] = <<"put", "size">>
  /\ p[7] = <<"put", "spaces">> /\ p[8] = <<"take", "words">> /\ p[9] = <<"clear", "words">>
  /\ p[10] = <<"UNMAP", "text">> /\ p[11] = <<"UNMAP", "size">>
  /\ p[12] = <<"UNMAP", "spaces">> /\ p[13] = <<"UNMAP", "words">>
  <1>1. PICK m : m = << <<"MAP", "text">>, <<"put", "text">>, <<"put", "size">>, <<"put", "spaces">>,
                        <<"take", "words">>, <<"clear", "words">> >>
    OBVIOUS
  <1>2. /\ m \in Seq(Pairs) /\ Len(m) = 6
        /\ m[1] = <<"MAP", "text">> /\ m[2] = <<"put", "text">> /\ m[3] = <<"put", "size">>
        /\ m[4] = <<"put", "spaces">> /\ m[5] = <<"take", "words">> /\ m[6] = <<"clear", "words">>
    BY <1>1 DEF Pairs
  <1>3. PICK p : p = Program(Reader1)
    OBVIOUS
  <1>4. p = Maps \o m \o Unmaps
    BY <1>1, <1>3 DEF Program, Reader1, Reader2
  <1>5. Whole(p, m)
    BY <1>2, <1>4, Lists
  <1>. QED BY <1>2, <1>3, <1>5 DEF Whole, Maps, Unmaps

LEMMA Program2 ==
  LET p == Program(Reader2) IN
  /\ Len(p) = 13
  /\ p[1] = <<"MAP", "size">> /\ p[2] = <<"MAP", "spaces">> /\ p[3] = <<"MAP", "words">>
  /\ p[4] = <<"take", "size">> /\ p[5] = <<"clear", "size">> /\ p[6] = <<"MAP", "text">>
  /\ p[7] = <<"put", "words">> /\ p[8] = <<"take", "spaces">> /\ p[9] = <<"clear", "spaces">>
  /\ p[10] = <<"UNMAP", "text">> /\ p[11] = <<"UNMAP", "size">>
  /\ p[12] = <<"UNMAP", "spaces">> /\ p[13] = <<"UNMAP", "words">>
  <1>1. /\ Waiter[1] = <<"take", "size">> /\ Waiter[2] = <<"clear", "size">>
        /\ Waiter[3] = <<"MAP", "text">> /\ Waiter[4] = <<"put", "words">>
        /\ Waiter[5] = <<"take", "spaces">> /\ Waiter[6] = <<"clear", "spaces">>
    BY DEF Waiter
  <1>2. PICK p : p = Program(Reader2)
    OBVIOUS
  <1>3. p = Maps \o Waiter \o Unmaps
    BY <1>2 DEF Program, Reader2
  <1>4. Whole(p, Waiter)
    BY <1>3, WaiterPart, Lists
  <1>. QED BY <1>1, <1>2, <1>4 DEF Whole, Maps, Unmaps

LEMMA Names3 ==
  /\ Clients = {Reader1, Reader2} /\ Reader1 # Reader2 /\ Zero = 0
  /\ Blocks = {"text", "size", "spaces", "words"} /\ Mails = Blocks \ {"text"}
  /\ "text" \in Blocks /\ "text" \notin Mails
  BY ReadersAssumption DEF Mails, Reader1, Reader2

LEMMA MailFacts ==
  ASSUME NEW b \in Mails
  PROVE  /\ b \in Blocks /\ b # "text"
         /\ From(b) \in Clients /\ To(b) \in Clients /\ From(b) # To(b)
         /\ \A r \in Clients : r = From(b) \/ r = To(b)
         /\ PutAt(b) \in {6, 7} /\ TakeAt(b) \in {4, 8}
         /\ PutAt(b) \in Writes(From(b)) /\ TakeAt(b) + 1 \in Writes(To(b))
         /\ TakeAt(b) \notin Writes(To(b))
  <1>1. b = "size" \/ b = "spaces" \/ b = "words"
    BY DEF Mails
  <1>. QED BY <1>1, Names3 DEF From, To, Other, PutAt, TakeAt, Writes, Mails

LEMMA Instructions ==
  ASSUME NEW r \in Clients, NEW i \in 1 .. 13
  PROVE  /\ Len(Program(r)) = 13
         /\ \E x, b : Program(r)[i] = <<x, b>> /\ b \in Blocks /\ Place(r, i, x, b)
  <1>1. /\ r = Reader1 \/ r = Reader2
        /\ Len(Program(r)) = 13
    BY Names3, Program1, Program2
  <1>2. i \in {1, 2, 3, 4, 5, 6, 7, 8, 9, 10, 11, 12, 13}
    OBVIOUS
  <1>3. CASE r = Reader1
    <2>1. CASE i = 1
      <3>1. "size" \in Blocks /\ Place(r, i, "MAP", "size") /\ Program(r)[i] = <<"MAP", "size">>
        BY <1>3, <2>1, Names3, Program1 DEF Place, From, To, Other, PutAt, TakeAt
      <3>. QED BY <1>1, <3>1
    <2>2. CASE i = 2
      <3>1. "spaces" \in Blocks /\ Place(r, i, "MAP", "spaces") /\ Program(r)[i] = <<"MAP", "spaces">>
        BY <1>3, <2>2, Names3, Program1 DEF Place, From, To, Other, PutAt, TakeAt
      <3>. QED BY <1>1, <3>1
    <2>3. CASE i = 3
      <3>1. "words" \in Blocks /\ Place(r, i, "MAP", "words") /\ Program(r)[i] = <<"MAP", "words">>
        BY <1>3, <2>3, Names3, Program1 DEF Place, From, To, Other, PutAt, TakeAt
      <3>. QED BY <1>1, <3>1
    <2>4. CASE i = 4
      <3>1. "text" \in Blocks /\ Place(r, i, "MAP", "text") /\ Program(r)[i] = <<"MAP", "text">>
        BY <1>3, <2>4, Names3, Program1 DEF Place, From, To, Other, PutAt, TakeAt
      <3>. QED BY <1>1, <3>1
    <2>5. CASE i = 5
      <3>1. "text" \in Blocks /\ Place(r, i, "put", "text") /\ Program(r)[i] = <<"put", "text">>
        BY <1>3, <2>5, Names3, Program1 DEF Place, From, To, Other, PutAt, TakeAt
      <3>. QED BY <1>1, <3>1
    <2>6. CASE i = 6
      <3>1. "size" \in Blocks /\ Place(r, i, "put", "size") /\ Program(r)[i] = <<"put", "size">>
        BY <1>3, <2>6, Names3, Program1 DEF Place, From, To, Other, PutAt, TakeAt
      <3>. QED BY <1>1, <3>1
    <2>7. CASE i = 7
      <3>1. "spaces" \in Blocks /\ Place(r, i, "put", "spaces") /\ Program(r)[i] = <<"put", "spaces">>
        BY <1>3, <2>7, Names3, Program1 DEF Place, From, To, Other, PutAt, TakeAt
      <3>. QED BY <1>1, <3>1
    <2>8. CASE i = 8
      <3>1. "words" \in Blocks /\ Place(r, i, "take", "words") /\ Program(r)[i] = <<"take", "words">>
        BY <1>3, <2>8, Names3, Program1 DEF Place, From, To, Other, PutAt, TakeAt
      <3>. QED BY <1>1, <3>1
    <2>9. CASE i = 9
      <3>1. "words" \in Blocks /\ Place(r, i, "clear", "words") /\ Program(r)[i] = <<"clear", "words">>
        BY <1>3, <2>9, Names3, Program1 DEF Place, From, To, Other, PutAt, TakeAt
      <3>. QED BY <1>1, <3>1
    <2>10. CASE i = 10
      <3>1. "text" \in Blocks /\ Place(r, i, "UNMAP", "text") /\ Program(r)[i] = <<"UNMAP", "text">>
        BY <1>3, <2>10, Names3, Program1 DEF Place, From, To, Other, PutAt, TakeAt
      <3>. QED BY <1>1, <3>1
    <2>11. CASE i = 11
      <3>1. "size" \in Blocks /\ Place(r, i, "UNMAP", "size") /\ Program(r)[i] = <<"UNMAP", "size">>
        BY <1>3, <2>11, Names3, Program1 DEF Place, From, To, Other, PutAt, TakeAt
      <3>. QED BY <1>1, <3>1
    <2>12. CASE i = 12
      <3>1. "spaces" \in Blocks /\ Place(r, i, "UNMAP", "spaces") /\ Program(r)[i] = <<"UNMAP", "spaces">>
        BY <1>3, <2>12, Names3, Program1 DEF Place, From, To, Other, PutAt, TakeAt
      <3>. QED BY <1>1, <3>1
    <2>13. CASE i = 13
      <3>1. "words" \in Blocks /\ Place(r, i, "UNMAP", "words") /\ Program(r)[i] = <<"UNMAP", "words">>
        BY <1>3, <2>13, Names3, Program1 DEF Place, From, To, Other, PutAt, TakeAt
      <3>. QED BY <1>1, <3>1
    <2>. QED BY <1>2, <2>1, <2>2, <2>3, <2>4, <2>5, <2>6, <2>7, <2>8, <2>9, <2>10, <2>11, <2>12, <2>13
  <1>4. CASE r = Reader2
    <2>1. CASE i = 1
      <3>1. "size" \in Blocks /\ Place(r, i, "MAP", "size") /\ Program(r)[i] = <<"MAP", "size">>
        BY <1>4, <2>1, Names3, Program2 DEF Place, From, To, Other, PutAt, TakeAt
      <3>. QED BY <1>1, <3>1
    <2>2. CASE i = 2
      <3>1. "spaces" \in Blocks /\ Place(r, i, "MAP", "spaces") /\ Program(r)[i] = <<"MAP", "spaces">>
        BY <1>4, <2>2, Names3, Program2 DEF Place, From, To, Other, PutAt, TakeAt
      <3>. QED BY <1>1, <3>1
    <2>3. CASE i = 3
      <3>1. "words" \in Blocks /\ Place(r, i, "MAP", "words") /\ Program(r)[i] = <<"MAP", "words">>
        BY <1>4, <2>3, Names3, Program2 DEF Place, From, To, Other, PutAt, TakeAt
      <3>. QED BY <1>1, <3>1
    <2>4. CASE i = 4
      <3>1. "size" \in Blocks /\ Place(r, i, "take", "size") /\ Program(r)[i] = <<"take", "size">>
        BY <1>4, <2>4, Names3, Program2 DEF Place, From, To, Other, PutAt, TakeAt
      <3>. QED BY <1>1, <3>1
    <2>5. CASE i = 5
      <3>1. "size" \in Blocks /\ Place(r, i, "clear", "size") /\ Program(r)[i] = <<"clear", "size">>
        BY <1>4, <2>5, Names3, Program2 DEF Place, From, To, Other, PutAt, TakeAt
      <3>. QED BY <1>1, <3>1
    <2>6. CASE i = 6
      <3>1. "text" \in Blocks /\ Place(r, i, "MAP", "text") /\ Program(r)[i] = <<"MAP", "text">>
        BY <1>4, <2>6, Names3, Program2 DEF Place, From, To, Other, PutAt, TakeAt
      <3>. QED BY <1>1, <3>1
    <2>7. CASE i = 7
      <3>1. "words" \in Blocks /\ Place(r, i, "put", "words") /\ Program(r)[i] = <<"put", "words">>
        BY <1>4, <2>7, Names3, Program2 DEF Place, From, To, Other, PutAt, TakeAt
      <3>. QED BY <1>1, <3>1
    <2>8. CASE i = 8
      <3>1. "spaces" \in Blocks /\ Place(r, i, "take", "spaces") /\ Program(r)[i] = <<"take", "spaces">>
        BY <1>4, <2>8, Names3, Program2 DEF Place, From, To, Other, PutAt, TakeAt
      <3>. QED BY <1>1, <3>1
    <2>9. CASE i = 9
      <3>1. "spaces" \in Blocks /\ Place(r, i, "clear", "spaces") /\ Program(r)[i] = <<"clear", "spaces">>
        BY <1>4, <2>9, Names3, Program2 DEF Place, From, To, Other, PutAt, TakeAt
      <3>. QED BY <1>1, <3>1
    <2>10. CASE i = 10
      <3>1. "text" \in Blocks /\ Place(r, i, "UNMAP", "text") /\ Program(r)[i] = <<"UNMAP", "text">>
        BY <1>4, <2>10, Names3, Program2 DEF Place, From, To, Other, PutAt, TakeAt
      <3>. QED BY <1>1, <3>1
    <2>11. CASE i = 11
      <3>1. "size" \in Blocks /\ Place(r, i, "UNMAP", "size") /\ Program(r)[i] = <<"UNMAP", "size">>
        BY <1>4, <2>11, Names3, Program2 DEF Place, From, To, Other, PutAt, TakeAt
      <3>. QED BY <1>1, <3>1
    <2>12. CASE i = 12
      <3>1. "spaces" \in Blocks /\ Place(r, i, "UNMAP", "spaces") /\ Program(r)[i] = <<"UNMAP", "spaces">>
        BY <1>4, <2>12, Names3, Program2 DEF Place, From, To, Other, PutAt, TakeAt
      <3>. QED BY <1>1, <3>1
    <2>13. CASE i = 13
      <3>1. "words" \in Blocks /\ Place(r, i, "UNMAP", "words") /\ Program(r)[i] = <<"UNMAP", "words">>
        BY <1>4, <2>13, Names3, Program2 DEF Place, From, To, Other, PutAt, TakeAt
      <3>. QED BY <1>1, <3>1
    <2>. QED BY <1>2, <2>1, <2>2, <2>3, <2>4, <2>5, <2>6, <2>7, <2>8, <2>9, <2>10, <2>11, <2>12, <2>13
  <1>. QED BY <1>1, <1>3, <1>4

\* The instructions at which something about a mailbox is decided.
LEMMA PlaceTouches ==
  ASSUME NEW r \in Clients, NEW b \in Blocks, NEW i \in 1 .. 13, NEW x, Place(r, i, x, b),
         NEW d \in Mails
  PROVE  /\ r = From(d) /\ i = PutAt(d) => x = "put" /\ b = d
         /\ r = To(d) /\ i = TakeAt(d) => x = "take" /\ b = d
         /\ r = To(d) /\ i = TakeAt(d) + 1 => x = "clear" /\ b = d
  <1>1. /\ d = "size" \/ d = "spaces" \/ d = "words"
        /\ b = "text" \/ b = "size" \/ b = "spaces" \/ b = "words"
        /\ r = Reader1 \/ r = Reader2
    BY Names3 DEF Mails
  <1>2. CASE r = Reader1
    BY <1>1, <1>2 DEF Place, From, To, Other, PutAt, TakeAt, Reader1, Reader2
  <1>3. CASE r = Reader2
    BY <1>1, <1>3 DEF Place, From, To, Other, PutAt, TakeAt, Reader1, Reader2
  <1>. QED BY <1>1, <1>2, <1>3

LEMMA PlaceFacts ==
  ASSUME NEW r \in Clients, NEW b \in Blocks, NEW i \in 1 .. 13, NEW x, Place(r, i, x, b)
  PROVE  /\ x \in {"MAP", "take", "UNMAP"} => i \notin Writes(r)
         /\ x = "put" /\ b # "text" => b \in Mails /\ r = From(b) /\ i = PutAt(b)
         /\ x = "take" => b \in Mails /\ r = To(b) /\ i = TakeAt(b)
         /\ x = "clear" => b \in Mails /\ r = To(b) /\ i = TakeAt(b) + 1
         /\ (r = Reader1 /\ i = 5) <=> (x = "put" /\ b = "text")
         /\ x = "MAP" /\ b = "text" => i = (IF r = Reader1 THEN 4 ELSE 6)
         /\ x \in {"MAP", "put", "take", "clear", "UNMAP"}
  <1>1. /\ b = "text" \/ b = "size" \/ b = "spaces" \/ b = "words"
        /\ r = Reader1 \/ r = Reader2
    BY Names3
  <1>2. CASE r = Reader1
    BY <1>1, <1>2, Names3 DEF Place, From, To, Other, PutAt, TakeAt, Writes, Reader1, Reader2
  <1>3. CASE r = Reader2
    BY <1>1, <1>3, Names3 DEF Place, From, To, Other, PutAt, TakeAt, Writes, Reader1, Reader2
  <1>. QED BY <1>1, <1>2, <1>3

\* A program that is not in a call.
LEMMA Here ==
  ASSUME ReadersInv, NEW r \in Clients, NEW b \in Blocks, NEW x, At(r, x, b)
  PROVE  /\ pc[r] \in 1 .. 13 /\ Place(r, pc[r], x, b) /\ Program(r)[pc[r]] = <<x, b>>
         /\ status[r] = "running" /\ op[r] = NoOp
  <1>1. pc[r] \in 1 .. 14 /\ pc[r] <= Len(Program(r))
    BY DEF ReadersInv, ReadersTypes, At
  <1>2. Len(Program(r)) = 13
    BY Names3, Program1, Program2
  <1>3. pc[r] \in 1 .. 13
    BY <1>1, <1>2
  <1>4. PICK i \in 1 .. 13 : i = pc[r]
    BY <1>3
  <1>5. PICK y, d : Program(r)[i] = <<y, d>> /\ d \in Blocks /\ Place(r, i, y, d)
    BY Instructions
  <1>6. y = x /\ d = b
    BY <1>4, <1>5 DEF At
  <1>. QED BY <1>4, <1>5, <1>6 DEF At

\* A program that is in one.
InCall(r, x, b) ==
  /\ pc[r] \in 1 .. 13 /\ b \in Blocks
  /\ Program(r)[pc[r]] = <<x, b>> /\ Place(r, pc[r], x, b)
  /\ status[r] = "running"
  /\ \/ op[r] = Called(CallOf(x, stored[r]), b)
     \/ op[r] = Over(CallOf(x, stored[r]), b, "ok")
     \/ x = "UNMAP" /\ op[r] = Over("UNMAP", b, "refused")
  /\ x \in {"put", "clear"} => stored[r] /\ b \in held[r]
  /\ x = "MAP" /\ op[r].state = "ok" => b \in held[r]

LEMMA CallAt ==
  ASSUME ReadersInv, NEW r \in Clients, op[r] # NoOp
  PROVE  \E x, b : InCall(r, x, b)
  <1>1. pc[r] \in 1 .. 14 /\ OpOK(r)
    BY DEF ReadersInv, ReadersTypes
  <1>2. PICK i \in 1 .. 13 : i = pc[r]
    BY <1>1 DEF OpOK
  <1>3. PICK x, b : Program(r)[i] = <<x, b>> /\ b \in Blocks /\ Place(r, i, x, b)
    BY Instructions
  <1>4. Program(r)[pc[r]][1] = x /\ Program(r)[pc[r]][2] = b
    BY <1>2, <1>3
  <1>. QED BY <1>1, <1>2, <1>3, <1>4 DEF OpOK, InCall

LEMMA CallNames ==
  /\ \A s : CallOf("MAP", s) = "MAP" /\ CallOf("UNMAP", s) = "UNMAP"
  /\ \A s : CallOf("put", s) = "WRITE" /\ CallOf("clear", s) = "WRITE"
  /\ CallOf("take", TRUE) = "UPDATE" /\ CallOf("take", FALSE) = "WAIT"
  BY DEF CallOf

\* A call that takes effect is that of the instruction.
LEMMA Finishing ==
  ASSUME ReadersInv, NEW r \in Clients, NEW b, NEW name, op[r] = Called(name, b)
  PROVE  \E x : /\ InCall(r, x, b) /\ name = CallOf(x, stored[r])
                /\ name = "MAP" => x = "MAP"
                /\ name = "UNMAP" => x = "UNMAP"
                /\ name = "WRITE" => x \in {"put", "clear"}
                /\ name \in {"UPDATE", "WAIT"} => x = "take"
  <1>1. op[r] # NoOp
    BY DEF Called, NoOp
  <1>2. PICK x, d : InCall(r, x, d)
    BY <1>1, CallAt
  <1>3. d = b /\ name = CallOf(x, stored[r])
    BY <1>2 DEF InCall, Called, Over
  <1>4. x \in {"MAP", "put", "take", "clear", "UNMAP"}
    BY <1>2, PlaceFacts DEF InCall
  <1>5. stored[r] = TRUE \/ stored[r] = FALSE
    BY DEF ReadersInv, ReadersTypes
  <1>. QED BY <1>2, <1>3, <1>4, <1>5, CallNames

-----------------------------------------------------------------------------
(* What a step leaves alone. *)

LEMMA OpStands ==
  ASSUME NEW r, NEW x, NEW b, InCall(r, x, b)'
  PROVE  OpOK(r)'
  BY DEF InCall, OpOK

LEMMA OthersStand ==
  ASSUME ReadersInv, NEW d \in Clients,
         op'[d] = op[d], pc'[d] = pc[d], status'[d] = status[d], stored'[d] = stored[d],
         held'[d] = held[d], \A b \in Blocks : copy'[d][b] = copy[d][b]
  PROVE  OpOK(d)' /\ StatusOK(d)'
  BY DEF ReadersInv, OpOK, StatusOK

\* No write has taken effect or been answered.
SameWrites == \A r \in Clients : \A i \in Writes(r) : Wrote(r, i)' = Wrote(r, i)

LEMMA SameMarks ==
  ASSUME SameWrites
  PROVE  /\ \A b \in Mails : Filled(b)' = Filled(b) /\ Emptied(b)' = Emptied(b)
         /\ Wrote(Reader1, 5)' = Wrote(Reader1, 5)
  <1>1. Reader1 \in Clients /\ 5 \in Writes(Reader1)
    BY Names3 DEF Writes
  <1>. QED BY <1>1, MailFacts DEF SameWrites, Filled, Emptied

LEMMA OpWrites ==
  ASSUME ReadersInv, NEW r \in Clients, UNCHANGED pc,
         \A d \in Clients : d # r => op'[d] = op[d],
         op'[r].state = op[r].state \/ pc[r] \notin Writes(r)
           \/ (op[r].state # "ok" /\ op'[r].state # "ok")
  PROVE  SameWrites
  BY DEF SameWrites, Wrote

\* Steps that change nothing but calls.
LEMMA OnlyCalls ==
  ASSUME ReadersInv, UNCHANGED <<mem, held, copy, fresh, round, pc, stored, out>>, SameWrites
  PROVE  /\ \A b \in Mails : MailOK(b)' /\ ValueOK(b)'
         /\ TextOK'
  <1>1. ASSUME NEW b \in Mails PROVE MailOK(b)' /\ ValueOK(b)'
    <2>1. Filled(b)' = Filled(b) /\ Emptied(b)' = Emptied(b) /\ MailOK(b) /\ ValueOK(b)
      BY SameMarks DEF ReadersInv
    <2>2. FromOK(b)' /\ ToOK(b)'
      BY <2>1 DEF MailOK, FromOK, ToOK
    <2>. QED BY <2>1, <2>2 DEF MailOK, ValueOK
  <1>2. TextOK'
    BY SameMarks DEF ReadersInv, TextOK
  <1>. QED BY <1>1, <1>2

-----------------------------------------------------------------------------
(* A call begins. *)

LEMMA CallKeeps ==
  ASSUME ReadersInv, NEW r \in Clients, NEW b \in Blocks, NEW x, At(r, x, b),
         Begin(r, CallOf(x, stored[r]), b), UNCHANGED progVars,
         x \in {"put", "clear"} => stored[r]
  PROVE  ReadersInv'
  <1>1. /\ UNCHANGED <<mem, held, copy, fresh, left, round, pc, stored, out, status>>
        /\ op' = [op EXCEPT ![r] = Called(CallOf(x, stored[r]), b)]
        /\ CallOf(x, stored[r]) = "MAP" <=> b \notin held[r]
    BY DEF Begin, progVars
  <1>2. ReadersTypes'
    BY <1>1 DEF ReadersInv, ReadersTypes
  <1>3. /\ op'[r] = Called(CallOf(x, stored[r]), b)
        /\ \A d \in Clients : d # r => op'[d] = op[d]
    BY <1>1 DEF ReadersInv, ReadersTypes
  <1>4. /\ pc[r] \in 1 .. 13 /\ Place(r, pc[r], x, b) /\ Program(r)[pc[r]] = <<x, b>>
        /\ status[r] = "running" /\ op[r] = NoOp
    BY Here
  <1>5. x \in {"put", "clear"} => b \in held[r]
    BY <1>1, CallNames
  <1>6. InCall(r, x, b)'
    BY <1>1, <1>3, <1>4, <1>5 DEF InCall, Called
  <1>7. \A d \in Clients : OpOK(d)' /\ StatusOK(d)'
    <2>1. OpOK(r)'
      BY <1>6, OpStands
    <2>2. StatusOK(r)'
      BY <1>1 DEF ReadersInv, StatusOK
    <2>3. \A d \in Clients : d # r => OpOK(d)' /\ StatusOK(d)'
      BY <1>1, <1>3, OthersStand
    <2>. QED BY <2>1, <2>2, <2>3
  <1>8. op[r].state # "ok" /\ op'[r].state # "ok"
    BY <1>3, <1>4 DEF NoOp, Called
  <1>9. SameWrites
    BY <1>1, <1>3, <1>8, OpWrites
  <1>. QED BY <1>1, <1>2, <1>7, <1>9, OnlyCalls DEF ReadersInv

LEMMA BeginKeeps ==
  ASSUME ReadersInv, NEW r \in Clients, NEW b \in Blocks,
         \/ CallMap(r, b) \/ CallUnmap(r, b) \/ CallWrite(r, b)
         \/ TakeWait(r, b) \/ TakeUpdate(r, b)
  PROVE  ReadersInv'
  <1>1. stored[r] = TRUE \/ stored[r] = FALSE
    BY DEF ReadersInv, ReadersTypes
  <1>2. CASE CallMap(r, b)
    BY <1>2, CallKeeps, CallNames DEF CallMap
  <1>3. CASE CallUnmap(r, b)
    BY <1>3, CallKeeps, CallNames DEF CallUnmap
  <1>4. CASE CallWrite(r, b)
    BY <1>4, CallKeeps, CallNames DEF CallWrite
  <1>5. CASE TakeWait(r, b)
    <2>1. CallOf("take", stored[r]) = "WAIT"
      BY <1>1, <1>5, CallNames DEF TakeWait
    <2>. QED BY <1>5, <2>1, CallKeeps DEF TakeWait
  <1>6. CASE TakeUpdate(r, b)
    <2>1. CallOf("take", stored[r]) = "UPDATE"
      BY <1>1, <1>6, CallNames DEF TakeUpdate
    <2>. QED BY <1>6, <2>1, CallKeeps DEF TakeUpdate
  <1>. QED BY <1>2, <1>3, <1>4, <1>5, <1>6
-----------------------------------------------------------------------------
(* A value is stored. *)

LEMMA StoreKeeps ==
  ASSUME ReadersInv, NEW r \in Clients, NEW b \in Blocks, NEW x, At(r, x, b),
         x = "put" \/ x = "clear", NEW v \in Values, Store(r, b, v), Done(r),
         UNCHANGED <<round, pc, status>>,
         \A c \in Clients : \A d \in Mails : d # b => out'[c][d] = out[c][d]
  PROVE  /\ \A d \in Clients : OpOK(d)' /\ StatusOK(d)'
         /\ \A d \in Mails : d # b => MailOK(d)' /\ ValueOK(d)'
         /\ SameWrites /\ copy'[r][b] = v /\ stored'[r] = TRUE /\ b \in held[r]
         /\ \A c \in Clients : \A d \in Blocks :
              c # r \/ d # b => copy'[c][d] = copy[c][d]
         /\ \A c \in Clients : c # r => stored'[c] = stored[c]
         /\ stored' \in [Clients -> BOOLEAN] /\ copy' \in [Clients -> [Blocks -> Values]]
         /\ UNCHANGED <<mem, held, fresh, op, left>>
  <1>1. UNCHANGED <<mem, held, fresh, op, left>> /\ b \in held[r]
    BY DEF Store
  <1>2. /\ copy'[r][b] = v
        /\ \A c \in Clients : \A d \in Blocks : c # r \/ d # b => copy'[c][d] = copy[c][d]
        /\ copy' \in [Clients -> [Blocks -> Values]]
    BY DEF Store, ReadersInv, ReadersTypes
  <1>3. /\ stored'[r] = TRUE /\ stored' \in [Clients -> BOOLEAN]
        /\ \A c \in Clients : c # r => stored'[c] = stored[c]
    BY DEF Done, ReadersInv, ReadersTypes
  <1>4. pc[r] \in 1 .. 13 /\ Place(r, pc[r], x, b) /\ status[r] = "running" /\ op[r] = NoOp
    BY Here
  <1>5. SameWrites
    BY <1>1, OpWrites
  <1>6. \A d \in Clients : OpOK(d)' /\ StatusOK(d)'
    <2>1. OpOK(r)' /\ StatusOK(r)'
      BY <1>1, <1>4 DEF OpOK, StatusOK
    <2>2. \A d \in Clients : d # r => OpOK(d)' /\ StatusOK(d)'
      BY <1>1, <1>2, <1>3, OthersStand
    <2>. QED BY <2>1, <2>2
  <1>7. ASSUME NEW d \in Mails, d # b PROVE MailOK(d)' /\ ValueOK(d)'
    <2>1. /\ r = From(d) => pc[r] # PutAt(d)
          /\ r = To(d) => pc[r] # TakeAt(d) /\ pc[r] # TakeAt(d) + 1
      <3>1. PICK i \in 1 .. 13 : i = pc[r]
        BY <1>4
      <3>2. /\ r = From(d) /\ i = PutAt(d) => x = "put" /\ b = d
            /\ r = To(d) /\ i = TakeAt(d) => x = "take" /\ b = d
            /\ r = To(d) /\ i = TakeAt(d) + 1 => x = "clear" /\ b = d
        BY <1>4, <3>1, PlaceTouches
      <3>. QED BY <1>7, <3>1, <3>2
    <2>2. Filled(d)' = Filled(d) /\ Emptied(d)' = Emptied(d) /\ MailOK(d) /\ ValueOK(d)
      BY <1>5, SameMarks DEF ReadersInv
    <2>3. /\ d \in Blocks /\ From(d) \in Clients /\ To(d) \in Clients
          /\ copy'[From(d)][d] = copy[From(d)][d] /\ copy'[To(d)][d] = copy[To(d)][d]
          /\ out'[From(d)][d] = out[From(d)][d] /\ out'[To(d)][d] = out[To(d)][d]
          /\ pc[From(d)] = PutAt(d) => stored'[From(d)] = stored[From(d)]
          /\ pc[To(d)] = TakeAt(d) + 1 => stored'[To(d)] = stored[To(d)]
      BY <1>2, <1>3, <1>7, <2>1, MailFacts
    <2>4. FromOK(d)'
      BY <1>1, <2>2, <2>3 DEF MailOK, FromOK
    <2>5. ToOK(d)'
      BY <1>1, <2>2, <2>3 DEF MailOK, ToOK
    <2>6. ValueOK(d)'
      BY <2>2, <2>3 DEF ValueOK
    <2>. QED BY <1>1, <2>2, <2>3, <2>4, <2>5, <2>6 DEF MailOK
  <1>. QED BY <1>1, <1>2, <1>3, <1>5, <1>6, <1>7

LEMMA PutKeeps ==
  ASSUME ReadersInv, NEW r \in Clients, NEW b \in Blocks, Put(r, b)
  PROVE  ReadersInv'
  <1>1. /\ At(r, "put", b) /\ ~stored[r] /\ Done(r) /\ UNCHANGED <<round, pc, status>>
    BY DEF Put
  <1>2. PICK v : /\ v \in CASE b = "spaces" -> Counted
                            [] b = "words" -> {copy[r]["text"]}
                            [] OTHER -> {round}
                 /\ Store(r, b, v)
                 /\ out' = IF b = "text" THEN out ELSE [out EXCEPT ![r][b] = v]
    BY DEF Put
  <1>3. PICK i \in 1 .. 13 : i = pc[r] /\ Place(r, i, "put", b) /\ op[r] = NoOp
    BY <1>1, Here
  <1>4. /\ b # "text" => b \in Mails /\ r = From(b) /\ i = PutAt(b)
        /\ (r = Reader1 /\ i = 5) <=> b = "text"
    BY <1>3, PlaceFacts
  <1>5. v \in Values /\ (b # "spaces" => v = round)
    <2>1. CASE b = "spaces"
      BY <1>2, <2>1, ReadersAssumption DEF Values
    <2>2. CASE b = "words"
      <3>1. r = Reader2 /\ pc[r] = 7
        BY <1>3, <1>4, <2>2 DEF From, PutAt
      <3>2. copy[r]["text"] = round
        BY <3>1 DEF ReadersInv, TextOK
      <3>. QED BY <1>2, <2>2, <3>2 DEF ReadersInv, ReadersTypes, Values
    <2>3. CASE b # "spaces" /\ b # "words"
      BY <1>2, <2>3 DEF ReadersInv, ReadersTypes, Values
    <2>. QED BY <2>1, <2>2, <2>3
  <1>6. /\ out' \in [Clients -> [Mails -> Values]]
        /\ b # "text" => out'[r][b] = v
        /\ \A c \in Clients : \A d \in Mails : c # r \/ d # b => out'[c][d] = out[c][d]
    BY <1>2, <1>4, <1>5 DEF ReadersInv, ReadersTypes
  <1>7. /\ \A d \in Clients : OpOK(d)' /\ StatusOK(d)'
        /\ \A d \in Mails : d # b => MailOK(d)' /\ ValueOK(d)'
        /\ SameWrites /\ copy'[r][b] = v /\ stored'[r] = TRUE /\ b \in held[r]
        /\ \A c \in Clients : \A d \in Blocks :
             c # r \/ d # b => copy'[c][d] = copy[c][d]
        /\ \A c \in Clients : c # r => stored'[c] = stored[c]
        /\ stored' \in [Clients -> BOOLEAN] /\ copy' \in [Clients -> [Blocks -> Values]]
        /\ UNCHANGED <<mem, held, fresh, op, left>>
    BY <1>1, <1>2, <1>5, <1>6, StoreKeeps
  <1>8. ReadersTypes'
    BY <1>1, <1>6, <1>7 DEF ReadersInv, ReadersTypes
  <1>9. ASSUME b \in Mails PROVE MailOK(b)' /\ ValueOK(b)'
    <2>1. r = From(b) /\ i = PutAt(b) /\ b # "text" /\ To(b) # r /\ To(b) \in Clients
      BY <1>4, <1>9, MailFacts
    <2>2. ~Filled(b)
      BY <1>3, <2>1 DEF Filled, Wrote, NoOp
    <2>3. Filled(b)' = Filled(b) /\ Emptied(b)' = Emptied(b) /\ MailOK(b)
      BY <1>7, <1>9, SameMarks DEF ReadersInv
    <2>4. PICK k, n : k = TakeAt(b) /\ n = pc[To(b)] /\ k \in {4, 8} /\ n \in 1 .. 14
      BY <1>9, <2>1, MailFacts DEF ReadersInv, ReadersTypes
    <2>5. ~(n > k) /\ copy[To(b)][b] = 0 /\ mem[b] = 0
      BY <2>2, <2>3, <2>4 DEF MailOK, ToOK
    <2>6. copy'[To(b)][b] = 0 /\ pc'[To(b)] = n /\ n # k + 1
      BY <1>1, <1>7, <1>9, <2>1, <2>4, <2>5, MailFacts
    <2>7. ToOK(b)'
      BY <2>4, <2>5, <2>6 DEF ToOK
    <2>8. FromOK(b)'
      BY <1>6, <1>7, <2>1, <2>3 DEF MailOK, FromOK
    <2>9. mem'[b] = 0 /\ ~Filled(b)'
      BY <1>7, <2>2, <2>3, <2>5
    <2>10. MailOK(b)'
      BY <2>7, <2>8, <2>9 DEF MailOK
    <2>11. ValueOK(b)'
      BY <1>1, <1>5, <1>6, <2>1 DEF ValueOK
    <2>. QED BY <2>10, <2>11
  <1>10. TextOK'
    <2>1. Wrote(Reader1, 5)' = Wrote(Reader1, 5) /\ TextOK
      BY <1>7, SameMarks DEF ReadersInv
    <2>2. pc[Reader1] = 5 /\ stored'[Reader1] => copy'[Reader1]["text"] = round
      <3>1. CASE r = Reader1 /\ b = "text"
        BY <1>5, <1>7, <3>1
      <3>2. CASE r = Reader1 /\ b # "text"
        BY <1>3, <1>4, <3>2
      <3>3. CASE r # Reader1
        BY <1>7, <2>1, <3>3, Names3 DEF TextOK
      <3>. QED BY <3>1, <3>2, <3>3
    <2>3. copy'[Reader2]["text"] = copy[Reader2]["text"]
      BY <1>4, <1>7, Names3
    <2>. QED BY <1>1, <1>7, <2>1, <2>2, <2>3 DEF TextOK
  <1>. QED BY <1>7, <1>8, <1>9, <1>10 DEF ReadersInv

LEMMA ClearKeeps ==
  ASSUME ReadersInv, NEW r \in Clients, NEW b \in Blocks, Clear(r, b)
  PROVE  ReadersInv'
  <1>1. /\ At(r, "clear", b) /\ ~stored[r] /\ Done(r) /\ UNCHANGED <<round, pc, out, status>>
        /\ Store(r, b, 0) /\ 0 \in Values
    BY DEF Clear, Values
  <1>2. PICK i \in 1 .. 13 : i = pc[r] /\ Place(r, i, "clear", b) /\ op[r] = NoOp
    BY <1>1, Here
  <1>3. /\ b \in Mails /\ r = To(b) /\ i = TakeAt(b) + 1
        /\ ~(r = Reader1 /\ i = 5) /\ b # "text" /\ From(b) # r /\ From(b) \in Clients
    BY <1>2, PlaceFacts, MailFacts
  <1>4. /\ \A d \in Clients : OpOK(d)' /\ StatusOK(d)'
        /\ \A d \in Mails : d # b => MailOK(d)' /\ ValueOK(d)'
        /\ SameWrites /\ copy'[r][b] = 0 /\ stored'[r] = TRUE /\ b \in held[r]
        /\ \A c \in Clients : \A d \in Blocks :
             c # r \/ d # b => copy'[c][d] = copy[c][d]
        /\ \A c \in Clients : c # r => stored'[c] = stored[c]
        /\ stored' \in [Clients -> BOOLEAN] /\ copy' \in [Clients -> [Blocks -> Values]]
        /\ UNCHANGED <<mem, held, fresh, op, left>>
    BY <1>1, StoreKeeps
  <1>5. ReadersTypes'
    BY <1>1, <1>4 DEF ReadersInv, ReadersTypes
  <1>6. MailOK(b)' /\ ValueOK(b)'
    <2>1. Filled(b)' = Filled(b) /\ Emptied(b)' = Emptied(b) /\ MailOK(b) /\ ValueOK(b)
      BY <1>3, <1>4, SameMarks DEF ReadersInv
    <2>2. stored'[From(b)] = stored[From(b)] /\ copy'[From(b)][b] = copy[From(b)][b]
      BY <1>3, <1>4
    <2>3. FromOK(b)'
      BY <1>1, <1>4, <2>1, <2>2 DEF MailOK, FromOK
    <2>4. PICK k, n : k = TakeAt(b) /\ n = pc[To(b)] /\ n = k + 1 /\ k \in {4, 8}
      BY <1>2, <1>3, MailFacts
    <2>5. ToOK(b)'
      BY <1>1, <1>3, <1>4, <2>1, <2>4 DEF MailOK, ToOK
    <2>6. ValueOK(b)'
      BY <1>1, <2>1, <2>2 DEF ValueOK
    <2>. QED BY <1>1, <1>4, <2>1, <2>3, <2>5, <2>6 DEF MailOK
  <1>7. TextOK'
    <2>1. Wrote(Reader1, 5)' = Wrote(Reader1, 5) /\ TextOK
      BY <1>4, SameMarks DEF ReadersInv
    <2>2. /\ copy'[Reader1]["text"] = copy[Reader1]["text"]
          /\ copy'[Reader2]["text"] = copy[Reader2]["text"]
      BY <1>3, <1>4, Names3
    <2>3. pc[Reader1] = 5 => stored'[Reader1] = stored[Reader1]
      BY <1>2, <1>3, <1>4, Names3
    <2>. QED BY <1>1, <1>4, <2>1, <2>2, <2>3 DEF TextOK
  <1>. QED BY <1>4, <1>5, <1>6, <1>7 DEF ReadersInv
-----------------------------------------------------------------------------
(* A program goes on to the next instruction. *)

LEMMA AdvanceWrites ==
  ASSUME ReadersInv, NEW r \in Clients, Advance(r), op'[r] = NoOp,
         \A c \in Clients : c # r => op'[c] = op[c],
         pc[r] \in Writes(r) => op[r].state = "ok"
  PROVE  SameWrites
  <1>1. PICK i \in 1 .. 14 : i = pc[r]
    BY DEF ReadersInv, ReadersTypes
  <1>2. pc'[r] = i + 1 /\ \A c \in Clients : c # r => pc'[c] = pc[c]
    BY <1>1 DEF Advance, ReadersInv, ReadersTypes
  <1>3. ASSUME NEW j \in Writes(r) PROVE Wrote(r, j)' = Wrote(r, j)
    <2>1. j \in Nat
      BY <1>3 DEF Writes
    <2>2. op'[r].state # "ok"
      BY DEF NoOp
    <2>3. i = j => op[r].state = "ok"
      BY <1>1, <1>3
    <2>4. (i + 1 > j) <=> (i > j \/ i = j)
      BY <2>1
    <2>. QED BY <1>1, <1>2, <2>2, <2>3, <2>4 DEF Wrote
  <1>4. ASSUME NEW c \in Clients, c # r, NEW j \in Writes(c) PROVE Wrote(c, j)' = Wrote(c, j)
    BY <1>2, <1>4 DEF Wrote
  <1>. QED BY <1>3, <1>4 DEF SameWrites

\* Program r, at instruction <<x, b>>, goes on.
GoesOn(r, x, b) ==
  /\ pc[r] \in 1 .. 13 /\ Place(r, pc[r], x, b) /\ status[r] = "running"
  /\ x = "MAP" => b \in held[r]
  /\ x = "put" => stored[r]
  /\ pc[r] \in Writes(r) => op[r].state = "ok"
  /\ Advance(r) /\ op'[r] = NoOp /\ DOMAIN op' = Clients
  /\ \A c \in Clients : c # r => op'[c] = op[c]
  /\ DOMAIN status' = Clients /\ \A c \in Clients : status'[c] = status[c]
  /\ UNCHANGED <<round, mem, held, copy, fresh>>
  /\ out' \in [Clients -> [Mails -> Values]]
  /\ \A c \in Clients : \A d \in Mails : d # b \/ x # "take" => out'[c][d] = out[c][d]

LEMMA AdvanceKeeps ==
  ASSUME ReadersInv, NEW r \in Clients, NEW b \in Blocks, NEW x, GoesOn(r, x, b)
  PROVE  /\ ReadersTypes' /\ TextOK' /\ SameWrites
         /\ \A d \in Clients : OpOK(d)' /\ StatusOK(d)'
         /\ \A d \in Mails : d # b \/ x # "take" => MailOK(d)' /\ ValueOK(d)'
  <1>. USE DEF GoesOn
  <1>1. PICK i \in 1 .. 13 : i = pc[r]
    OBVIOUS
  <1>2. /\ pc'[r] = i + 1 /\ \A c \in Clients : c # r => pc'[c] = pc[c]
        /\ stored'[r] = FALSE /\ \A c \in Clients : c # r => stored'[c] = stored[c]
        /\ pc' \in [Clients -> 1 .. 14] /\ stored' \in [Clients -> BOOLEAN]
    BY <1>1 DEF Advance, ReadersInv, ReadersTypes
  <1>3. ReadersTypes'
    BY <1>2 DEF ReadersInv, ReadersTypes
  <1>4. SameWrites
    BY AdvanceWrites
  <1>5. \A d \in Clients : OpOK(d)' /\ StatusOK(d)'
    <2>1. OpOK(r)' /\ StatusOK(r)'
      BY DEF OpOK, StatusOK
    <2>2. \A d \in Clients : d # r => OpOK(d)' /\ StatusOK(d)'
      BY <1>2, OthersStand
    <2>. QED BY <2>1, <2>2
  <1>6. ASSUME NEW d \in Mails, d # b \/ x # "take" PROVE MailOK(d)' /\ ValueOK(d)'
    <2>1. /\ r = From(d) /\ i = PutAt(d) => x = "put" /\ b = d
          /\ r = To(d) => i # TakeAt(d)
      BY <1>1, <1>6, PlaceTouches
    <2>2. Filled(d)' = Filled(d) /\ Emptied(d)' = Emptied(d) /\ MailOK(d) /\ ValueOK(d)
      BY <1>4, SameMarks DEF ReadersInv
    <2>3. /\ d \in Blocks /\ From(d) \in Clients /\ To(d) \in Clients
          /\ out'[From(d)][d] = out[From(d)][d] /\ out'[To(d)][d] = out[To(d)][d]
          /\ PutAt(d) \in {6, 7} /\ TakeAt(d) \in {4, 8}
      BY <1>6, MailFacts
    <2>4. /\ pc'[From(d)] = PutAt(d) /\ stored'[From(d)] => pc[From(d)] = PutAt(d) /\ stored[From(d)]
      BY <1>2, <2>3
    <2>5. FromOK(d)'
      BY <2>2, <2>3, <2>4 DEF MailOK, FromOK
    <2>6. PICK k, n : k = TakeAt(d) /\ n = pc[To(d)] /\ k \in {4, 8} /\ n \in 1 .. 14
      BY <2>3 DEF ReadersInv, ReadersTypes
    <2>7. PICK m : m = pc'[To(d)] /\ m \in 1 .. 14
      BY <1>2, <2>3
    <2>8. /\ m > k => n > k
          /\ m <= k => n <= k
          /\ m = k + 1 => n = k + 1 \/ ~stored'[To(d)]
          /\ m = k + 1 => n = k + 1
      <3>1. CASE r = To(d)
        <4>1. n = i /\ m = i + 1 /\ i # k
          BY <1>1, <1>2, <2>1, <2>6, <2>7, <3>1
        <4>2. m = k + 1 => n = k
          BY <2>6, <4>1
        <4>. QED BY <2>6, <4>1, <4>2
      <3>2. CASE r # To(d)
        BY <1>2, <2>3, <2>6, <2>7, <3>2
      <3>. QED BY <3>1, <3>2
    <2>9. m = k + 1 /\ stored'[To(d)] => n = k + 1 /\ stored[To(d)]
      BY <1>2, <2>3, <2>8
    <2>10. ToOK(d)'
      BY <2>2, <2>3, <2>6, <2>7, <2>8, <2>9 DEF MailOK, ToOK
    <2>11. PICK p, q : p = PutAt(d) /\ q = pc[From(d)] /\ p \in {6, 7} /\ q \in 1 .. 14
      BY <2>3 DEF ReadersInv, ReadersTypes
    <2>12. pc'[From(d)] > p => q > p \/ (q = p /\ stored[From(d)])
      <3>1. CASE r = From(d)
        <4>1. pc'[From(d)] = i + 1 /\ q = i
          BY <1>1, <1>2, <2>11, <3>1
        <4>2. i + 1 > p => i > p \/ i = p
          BY <2>11
        <4>3. i = p => stored[From(d)]
          BY <2>1, <2>11, <3>1
        <4>. QED BY <4>1, <4>2, <4>3
      <3>2. CASE r # From(d)
        BY <1>2, <2>3, <2>11, <3>2
      <3>. QED BY <3>1, <3>2
    <2>13. ValueOK(d)'
      BY <2>2, <2>3, <2>4, <2>11, <2>12 DEF ValueOK
    <2>. QED BY <2>2, <2>3, <2>5, <2>10, <2>13 DEF MailOK
  <1>7. TextOK'
    <2>1. Wrote(Reader1, 5)' = Wrote(Reader1, 5) /\ TextOK
      BY <1>4, SameMarks DEF ReadersInv
    <2>2. ~(pc'[Reader1] = 5 /\ stored'[Reader1]) \/ (pc[Reader1] = 5 /\ stored[Reader1])
      BY <1>2, Names3
    <2>3. PICK n, m : n = pc[Reader2] /\ m = pc'[Reader2] /\ n \in 1 .. 14
      BY Names3 DEF ReadersInv, ReadersTypes
    <2>4. m = n \/ (m = n + 1 /\ r = Reader2 /\ n = i)
      BY <1>1, <1>2, <2>3, Names3
    <2>5. n > 4 => m > 4
      BY <2>3, <2>4
    <2>6. m \in 7 .. 9 => n \in 7 .. 9 \/ (r = Reader2 /\ i = 6)
      BY <2>3, <2>4
    <2>7. r = Reader2 /\ i = 6 => x = "MAP" /\ b = "text"
      <3>1. ASSUME r = Reader2, i = 6 PROVE x = "MAP" /\ b = "text"
        <4>1. b = "text" \/ b = "size" \/ b = "spaces" \/ b = "words"
          BY Names3
        <4>2. Place(r, 6, x, b) /\ r # Reader1 /\ r = Reader2
          BY <1>1, <3>1, Names3
        <4>. QED BY <4>1, <4>2 DEF Place, From, To, Other, PutAt, TakeAt, Reader1, Reader2
      <3>. QED BY <3>1
    <2>8. m \in 7 .. 9 => "text" \in held[Reader2]
      BY <2>1, <2>3, <2>6, <2>7 DEF TextOK
    <2>. QED BY <2>1, <2>2, <2>3, <2>5, <2>8 DEF TextOK
  <1>. QED BY <1>3, <1>4, <1>5, <1>6, <1>7

LEMMA TakenKeeps ==
  ASSUME ReadersInv, NEW r \in Clients, NEW b \in Blocks, Taken(r, b)
  PROVE  ReadersInv'
  <1>1. /\ At(r, "take", b) /\ copy[r][b] # 0 /\ Advance(r)
        /\ out' = [out EXCEPT ![r][b] = copy[r][b]]
        /\ UNCHANGED <<round, status, mem, held, copy, fresh, op, left>>
    BY DEF Taken, vars
  <1>2. PICK i \in 1 .. 13 : /\ i = pc[r] /\ Place(r, i, "take", b)
                             /\ status[r] = "running" /\ op[r] = NoOp
    BY <1>1, Here
  <1>3. b \in Mails /\ r = To(b) /\ i = TakeAt(b) /\ i \notin Writes(r)
    BY <1>2, PlaceFacts
  <1>4. From(b) \in Clients /\ From(b) # r /\ i \in {4, 8}
    BY <1>3, MailFacts
  <1>5. copy[r][b] \in Values
    BY DEF ReadersInv, ReadersTypes
  <1>6. /\ out' \in [Clients -> [Mails -> Values]]
        /\ out'[r][b] = copy[r][b] /\ out'[From(b)][b] = out[From(b)][b]
        /\ \A c \in Clients : \A d \in Mails : d # b => out'[c][d] = out[c][d]
    BY <1>1, <1>3, <1>4, <1>5 DEF ReadersInv, ReadersTypes
  <1>7. DOMAIN op' = Clients /\ op'[r] = NoOp /\ \A c \in Clients : op'[c] = op[c]
    BY <1>1, <1>2 DEF ReadersInv, ReadersTypes
  <1>8. /\ ReadersTypes' /\ TextOK' /\ SameWrites
        /\ \A d \in Clients : OpOK(d)' /\ StatusOK(d)'
        /\ \A d \in Mails : d # b => MailOK(d)' /\ ValueOK(d)'
    <2>1. DOMAIN status' = Clients /\ \A c \in Clients : status'[c] = status[c]
      BY <1>1 DEF ReadersInv, ReadersTypes
    <2>2. GoesOn(r, "take", b)
      BY <1>1, <1>2, <1>3, <1>6, <1>7, <2>1 DEF GoesOn
    <2>. QED BY <2>2, AdvanceKeeps
  <1>9. MailOK(b)' /\ ValueOK(b)'
    <2>1. Filled(b)' = Filled(b) /\ Emptied(b)' = Emptied(b) /\ MailOK(b) /\ ValueOK(b)
      BY <1>3, <1>8, SameMarks DEF ReadersInv
    <2>2. /\ pc'[r] = i + 1 /\ stored'[r] = FALSE
          /\ pc'[From(b)] = pc[From(b)] /\ stored'[From(b)] = stored[From(b)]
      BY <1>1, <1>2, <1>4 DEF Advance, ReadersInv, ReadersTypes
    <2>3. <<r, b>> \in fresh /\ Filled(b) /\ copy[r][b] = out[From(b)][b]
      <3>1. pc[To(b)] <= TakeAt(b)
        BY <1>2, <1>3
      <3>. QED BY <1>1, <1>3, <2>1, <3>1 DEF MailOK, ToOK
    <2>4. ToOK(b)'
      <3>1. i + 1 > i /\ ~(i + 1 <= i)
        OBVIOUS
      <3>. QED BY <1>1, <1>3, <1>6, <2>1, <2>2, <2>3, <3>1 DEF ToOK
    <2>5. FromOK(b)'
      BY <1>1, <1>6, <2>1, <2>2 DEF MailOK, FromOK
    <2>6. ValueOK(b)'
      BY <1>1, <1>6, <2>1, <2>2 DEF ValueOK
    <2>. QED BY <1>1, <1>6, <2>1, <2>4, <2>5, <2>6 DEF MailOK
  <1>. QED BY <1>8, <1>9 DEF ReadersInv

\* A wait or an update returns: what it stored matters to no other instruction.
LEMMA TakeBack ==
  ASSUME ReadersInv, NEW r \in Clients, NEW b \in Blocks, InCall(r, "take", b), NEW s \in BOOLEAN,
         stored' = [stored EXCEPT ![r] = s], op' = [op EXCEPT ![r] = NoOp],
         DOMAIN status' = Clients, \A c \in Clients : status'[c] = status[c],
         UNCHANGED <<mem, held, copy, fresh, round, pc, out>>
  PROVE  ReadersInv'
  <1>1. /\ op'[r] = NoOp /\ DOMAIN op' = Clients
        /\ \A c \in Clients : c # r => op'[c] = op[c] /\ stored'[c] = stored[c]
        /\ stored' \in [Clients -> BOOLEAN]
    BY DEF ReadersInv, ReadersTypes
  <1>2. PICK i \in 1 .. 13 : i = pc[r] /\ Place(r, i, "take", b) /\ status[r] = "running"
    BY DEF InCall
  <1>3. i \notin Writes(r) /\ ~(r = Reader1 /\ i = 5)
    BY <1>2, PlaceFacts
  <1>4. SameWrites
    BY <1>1, <1>2, <1>3, OpWrites
  <1>5. ReadersTypes'
    BY <1>1 DEF ReadersInv, ReadersTypes
  <1>6. \A d \in Clients : OpOK(d)' /\ StatusOK(d)'
    <2>1. OpOK(r)' /\ StatusOK(r)'
      BY <1>1, <1>2 DEF OpOK, StatusOK
    <2>2. \A d \in Clients : d # r => OpOK(d)' /\ StatusOK(d)'
      BY <1>1, OthersStand
    <2>. QED BY <2>1, <2>2
  <1>7. ASSUME NEW d \in Mails PROVE MailOK(d)' /\ ValueOK(d)'
    <2>1. /\ r = From(d) => i # PutAt(d)
          /\ r = To(d) => i # TakeAt(d) + 1
      BY <1>2, <1>7, PlaceTouches
    <2>2. Filled(d)' = Filled(d) /\ Emptied(d)' = Emptied(d) /\ MailOK(d) /\ ValueOK(d)
      BY <1>4, SameMarks DEF ReadersInv
    <2>3. From(d) \in Clients /\ To(d) \in Clients
      BY <1>7, MailFacts
    <2>4. /\ pc[From(d)] = PutAt(d) => stored'[From(d)] = stored[From(d)]
          /\ pc[To(d)] = TakeAt(d) + 1 => stored'[To(d)] = stored[To(d)]
      BY <1>1, <1>2, <2>1, <2>3
    <2>5. FromOK(d)'
      BY <2>2, <2>4 DEF MailOK, FromOK
    <2>6. ToOK(d)'
      BY <2>2, <2>4 DEF MailOK, ToOK
    <2>. QED BY <2>2, <2>4, <2>5, <2>6 DEF MailOK, ValueOK
  <1>8. TextOK'
    <2>1. Wrote(Reader1, 5)' = Wrote(Reader1, 5) /\ TextOK
      BY <1>4, SameMarks DEF ReadersInv
    <2>2. pc[Reader1] = 5 => stored'[Reader1] = stored[Reader1]
      BY <1>1, <1>2, <1>3, Names3
    <2>. QED BY <2>1, <2>2 DEF TextOK
  <1>. QED BY <1>5, <1>6, <1>7, <1>8 DEF ReadersInv

LEMMA BackKeeps ==
  ASSUME ReadersInv, NEW r \in Clients, Back(r)
  PROVE  ReadersInv'
  <1>1. /\ op[r].state \in {"ok", "refused"} /\ op' = [op EXCEPT ![r] = NoOp]
        /\ UNCHANGED <<mem, held, copy, fresh, left, round, out>>
    BY DEF Back, Return
  <1>2. op[r] # NoOp
    BY <1>1 DEF NoOp
  <1>3. PICK x, b : InCall(r, x, b)
    BY <1>2, CallAt
  <1>4. /\ b \in Blocks /\ pc[r] \in 1 .. 13 /\ Place(r, pc[r], x, b)
        /\ x \in {"MAP", "put", "take", "clear", "UNMAP"}
        /\ x \in {"MAP", "take", "UNMAP"} => pc[r] \notin Writes(r)
    BY <1>3, PlaceFacts DEF InCall
  <1>5. /\ op[r].name = CallOf(x, stored[r])
        /\ x # "UNMAP" => op[r].state = "ok"
    BY <1>1, <1>3, CallNames DEF InCall, Called, Over
  <1>6. stored[r] = TRUE \/ stored[r] = FALSE
    BY DEF ReadersInv, ReadersTypes
  <1>7. DOMAIN status' = Clients /\ \A c \in Clients : status'[c] = status[c]
    <2>1. ~(op[r].state = "refused" /\ op[r].name \in {"MAP", "WRITE"})
      BY <1>5, CallNames
    <2>2. status' = [status EXCEPT ![r] = status[r]]
      BY <2>1 DEF Back
    <2>. QED BY <2>2 DEF ReadersInv, ReadersTypes
  <1>8. CASE x = "take"
    <2>1. /\ op[r].name = "WAIT" \/ op[r].name = "UPDATE"
      BY <1>5, <1>6, <1>8, CallNames
    <2>2. UNCHANGED pc /\ \E s \in BOOLEAN : stored' = [stored EXCEPT ![r] = s]
      <3>1. CASE op[r].name = "WAIT"
        BY <3>1 DEF Back, Done
      <3>2. CASE op[r].name = "UPDATE"
        BY <3>2 DEF Back
      <3>. QED BY <2>1, <3>1, <3>2
    <2>. QED BY <1>1, <1>3, <1>4, <1>7, <1>8, <2>2, TakeBack
  <1>9. CASE x # "take"
    <2>1. op[r].name \notin {"WAIT", "UPDATE"}
      BY <1>4, <1>5, <1>9, CallNames
    <2>2. Advance(r)
      BY <2>1 DEF Back
    <2>3. /\ op'[r] = NoOp /\ DOMAIN op' = Clients
          /\ \A c \in Clients : c # r => op'[c] = op[c]
          /\ out' \in [Clients -> [Mails -> Values]]
      BY <1>1 DEF ReadersInv, ReadersTypes
    <2>4. /\ x = "MAP" => b \in held[r]
          /\ x = "put" => stored[r]
          /\ pc[r] \in Writes(r) => op[r].state = "ok"
      BY <1>3, <1>4, <1>5 DEF InCall
    <2>5. GoesOn(r, x, b)
      BY <1>1, <1>3, <1>4, <1>7, <2>2, <2>3, <2>4 DEF GoesOn, InCall
    <2>. QED BY <1>4, <1>9, <2>5, AdvanceKeeps DEF ReadersInv
  <1>. QED BY <1>8, <1>9
-----------------------------------------------------------------------------
(* A call takes effect. *)

\* The call of r is over, with the result v.
Finished(r, x, b, v) ==
  /\ InCall(r, x, b) /\ op[r] = Called(CallOf(x, stored[r]), b)
  /\ op' = [op EXCEPT ![r] = Over(CallOf(x, stored[r]), b, v)]
  /\ UNCHANGED progVars

LEMMA FinishedKeeps ==
  ASSUME ReadersInv, NEW r \in Clients, NEW b, NEW x, NEW v, Finished(r, x, b, v),
         v = "ok" \/ (x = "UNMAP" /\ v = "refused"),
         x \in {"put", "clear"} => b \in held'[r],
         x = "MAP" => b \in held'[r],
         \A c \in Clients : c # r => held'[c] = held[c] /\ \A d \in Blocks : copy'[c][d] = copy[c][d]
  PROVE  /\ \A c \in Clients : OpOK(c)' /\ StatusOK(c)'
         /\ DOMAIN op' = Clients /\ \A c \in Clients : c # r => op'[c] = op[c]
         /\ op'[r].state = v /\ op[r].state = "called"
         /\ pc[r] \notin Writes(r) => SameWrites
         /\ UNCHANGED <<round, pc, stored, out, status>>
  <1>1. /\ DOMAIN op' = Clients /\ \A c \in Clients : c # r => op'[c] = op[c]
        /\ op'[r] = Over(CallOf(x, stored[r]), b, v)
        /\ UNCHANGED <<round, pc, stored, out, status>>
    BY DEF Finished, progVars, ReadersInv, ReadersTypes
  <1>2. op'[r].state = v /\ op[r].state = "called"
    BY <1>1 DEF Finished, Over, Called
  <1>3. InCall(r, x, b)'
    BY <1>1, CallNames DEF Finished, InCall
  <1>4. \A c \in Clients : OpOK(c)' /\ StatusOK(c)'
    <2>1. OpOK(r)' /\ StatusOK(r)'
      BY <1>3, OpStands DEF StatusOK, InCall
    <2>2. \A c \in Clients : c # r => OpOK(c)' /\ StatusOK(c)'
      BY <1>1, OthersStand
    <2>. QED BY <2>1, <2>2
  <1>5. pc[r] \notin Writes(r) => SameWrites
    BY <1>1, OpWrites
  <1>. QED BY <1>1, <1>2, <1>4, <1>5

\* A map or an update: the copy is what it was, and fresh, or what the block is.
Synced(r, x, b) ==
  /\ Finished(r, x, b, "ok") /\ x \in {"MAP", "take"}
  /\ UNCHANGED mem
  /\ held' = [held EXCEPT ![r] = IF x = "MAP" THEN @ \cup {b} ELSE @]
  /\ fresh' = fresh \cup {<<r, b>>}
  /\ \E v \in Values : /\ copy' = [copy EXCEPT ![r][b] = v]
                       /\ v = mem[b] \/ (<<r, b>> \in fresh /\ v = copy[r][b] /\ x = "take")

LEMMA SyncedKeeps ==
  ASSUME ReadersInv, NEW r \in Clients, NEW x, NEW b, Synced(r, x, b)
  PROVE  ReadersInv'
  <1>1. PICK v \in Values : /\ copy' = [copy EXCEPT ![r][b] = v]
                            /\ v = mem[b] \/ (<<r, b>> \in fresh /\ v = copy[r][b] /\ x = "take")
    BY DEF Synced
  <1>2. b \in Blocks /\ x \in {"MAP", "take"} /\ UNCHANGED mem /\ fresh' = fresh \cup {<<r, b>>}
    BY DEF Synced, Finished, InCall
  <1>3. PICK i \in 1 .. 13 : i = pc[r] /\ Place(r, i, x, b)
    BY DEF Synced, Finished, InCall
  <1>4. /\ copy' \in [Clients -> [Blocks -> Values]] /\ copy'[r][b] = v
        /\ \A c \in Clients : \A d \in Blocks : c # r \/ d # b => copy'[c][d] = copy[c][d]
    BY <1>1, <1>2 DEF ReadersInv, ReadersTypes
  <1>5. /\ held' \in [Clients -> SUBSET Blocks]
        /\ \A c \in Clients : c # r => held'[c] = held[c]
        /\ \A c \in Clients : \A d : (c # r \/ d # b) /\ d \in held'[c] => d \in held[c]
        /\ x = "MAP" => b \in held'[r]
        /\ x = "take" => held'[r] = held[r]
        /\ \A c \in Clients : held[c] \subseteq held'[c]
    BY <1>2 DEF Synced, ReadersInv, ReadersTypes
  <1>6. i \notin Writes(r)
    BY <1>2, <1>3, PlaceFacts
  <1>7. /\ \A c \in Clients : OpOK(c)' /\ StatusOK(c)'
        /\ DOMAIN op' = Clients /\ SameWrites /\ UNCHANGED <<round, pc, stored, out, status>>
    <2>1. Finished(r, x, b, "ok") /\ x \notin {"put", "clear"}
      BY DEF Synced
    <2>2. \A c \in Clients : c # r => held'[c] = held[c] /\ \A d \in Blocks : copy'[c][d] = copy[c][d]
      BY <1>4, <1>5
    <2>. QED BY <1>3, <1>5, <1>6, <2>1, <2>2, FinishedKeeps
  <1>8. ReadersTypes'
    BY <1>2, <1>4, <1>5, <1>7 DEF ReadersInv, ReadersTypes
  <1>9. ASSUME NEW d \in Mails PROVE MailOK(d)' /\ ValueOK(d)'
    <2>1. Filled(d)' = Filled(d) /\ Emptied(d)' = Emptied(d) /\ MailOK(d) /\ ValueOK(d)
      BY <1>7, SameMarks DEF ReadersInv
    <2>2. /\ d \in Blocks /\ From(d) \in Clients /\ To(d) \in Clients /\ From(d) # To(d)
          /\ PutAt(d) \in {6, 7} /\ TakeAt(d) \in {4, 8}
      BY <1>9, MailFacts
    <2>3. d = b => \/ i <= 3 /\ x = "MAP"
                   \/ i = TakeAt(d) /\ r = To(d) /\ x = "take"
      <3>1. ASSUME d = b PROVE \/ i <= 3 /\ x = "MAP"
                               \/ i = TakeAt(d) /\ r = To(d) /\ x = "take"
        <4>1. b # "text"
          BY <1>9, <3>1, MailFacts
        <4>. QED BY <1>2, <1>3, <3>1, <4>1, PlaceFacts DEF Place
      <3>. QED BY <3>1
    <2>4. FromOK(d)'
      <3>1. d \in held'[From(d)] /\ ~Emptied(d) => <<From(d), d>> \in fresh'
        <4>1. CASE r = From(d) /\ d = b
          BY <1>2, <4>1
        <4>2. CASE r # From(d) \/ d # b
          BY <1>2, <1>5, <2>1, <2>2, <4>2 DEF MailOK, FromOK
        <4>. QED BY <4>1, <4>2
      <3>2. pc[From(d)] = PutAt(d) => copy'[From(d)][d] = copy[From(d)][d]
        <4>1. CASE r = From(d) /\ d = b
          BY <1>3, <2>2, <2>3, <4>1
        <4>2. CASE r # From(d) \/ d # b
          BY <1>4, <2>2, <4>2
        <4>. QED BY <4>1, <4>2
      <3>. QED BY <1>7, <2>1, <3>1, <3>2 DEF MailOK, FromOK
    <2>5. ToOK(d)'
      <3>1. CASE r = To(d) /\ d = b
        <4>1. PICK k : k = TakeAt(d) /\ k \in {4, 8}
          BY <2>2
        <4>2. i <= k
          BY <2>2, <2>3, <3>1, <4>1
        <4>3. <<To(d), d>> \in fresh'
          BY <1>2, <3>1
        <4>4. v # 0 => Filled(d) /\ v = out[From(d)][d]
          <5>1. CASE v = mem[b]
            BY <2>1, <3>1, <5>1 DEF MailOK
          <5>2. CASE <<r, b>> \in fresh /\ v = copy[r][b]
            <6>1. pc[To(d)] <= TakeAt(d)
              BY <1>3, <3>1, <4>1, <4>2
            <6>. QED BY <2>1, <3>1, <5>2, <6>1 DEF MailOK, ToOK
          <5>. QED BY <1>1, <5>1, <5>2
        <4>5. copy'[To(d)][d] = v
          BY <1>4, <3>1
        <4>6. ~(i > k) /\ i # k + 1
          BY <4>1, <4>2
        <4>. QED BY <1>3, <1>7, <2>1, <3>1, <4>1, <4>3, <4>4, <4>5, <4>6 DEF ToOK
      <3>2. CASE r # To(d) \/ d # b
        <4>1. copy'[To(d)][d] = copy[To(d)][d] /\ fresh \subseteq fresh'
          BY <1>2, <1>4, <2>2, <3>2
        <4>. QED BY <1>7, <2>1, <4>1 DEF MailOK, ToOK
      <3>. QED BY <3>1, <3>2
    <2>6. ValueOK(d)' /\ mem' = mem /\ out' = out
      BY <1>2, <1>7, <2>1 DEF ValueOK
    <2>. QED BY <2>1, <2>4, <2>5, <2>6 DEF MailOK
  <1>10. TextOK'
    <2>1. Wrote(Reader1, 5)' = Wrote(Reader1, 5) /\ TextOK
      BY <1>7, SameMarks DEF ReadersInv
    <2>2. b = "text" => x = "MAP" /\ i = (IF r = Reader1 THEN 4 ELSE 6)
      BY <1>2, <1>3, Names3, PlaceFacts
    <2>3. "text" \in held'[Reader1] => <<Reader1, "text">> \in fresh'
      <3>1. CASE r = Reader1 /\ b = "text"
        BY <1>2, <3>1
      <3>2. CASE r # Reader1 \/ b # "text"
        BY <1>2, <1>5, <2>1, <3>2, Names3 DEF TextOK
      <3>. QED BY <3>1, <3>2
    <2>4. pc[Reader1] = 5 => copy'[Reader1]["text"] = copy[Reader1]["text"]
      BY <1>3, <1>4, <2>2, Names3
    <2>5. "text" \in held'[Reader2] => pc[Reader2] > 4 /\ copy'[Reader2]["text"] = round
      <3>1. CASE r = Reader2 /\ b = "text"
        <4>1. pc[Reader2] = 6 /\ v = mem["text"]
          BY <1>1, <1>3, <2>2, <3>1, Names3
        <4>2. Filled("size")
          <5>1. "size" \in Mails /\ To("size") = Reader2 /\ TakeAt("size") = 4
            BY DEF Mails, To, From, Other, TakeAt, Reader1, Reader2
          <5>2. ToOK("size")
            BY <5>1 DEF ReadersInv, MailOK
          <5>. QED BY <4>1, <5>1, <5>2 DEF ToOK
        <4>3. Wrote(Reader1, 6)
          BY <4>2 DEF Filled, From, PutAt
        <4>4. pc[Reader1] \in 1 .. 14
          BY Names3 DEF ReadersInv, ReadersTypes
        <4>5. Wrote(Reader1, 5)
          BY <4>3, <4>4 DEF Wrote
        <4>6. mem["text"] = round
          BY <2>1, <4>5 DEF TextOK
        <4>. QED BY <1>4, <3>1, <4>1, <4>6, Names3
      <3>2. CASE r # Reader2 \/ b # "text"
        BY <1>4, <1>5, <2>1, <3>2, Names3 DEF TextOK
      <3>. QED BY <3>1, <3>2
    <2>6. pc[Reader2] \in 7 .. 9 => "text" \in held'[Reader2]
      BY <1>5, <2>1, Names3 DEF TextOK
    <2>. QED BY <1>2, <1>7, <2>1, <2>3, <2>4, <2>5, <2>6 DEF TextOK
  <1>. QED BY <1>7, <1>8, <1>9, <1>10 DEF ReadersInv

LEMMA SyncKeeps ==
  ASSUME ReadersInv, NEW r \in Clients, NEW b \in Blocks, Map(r, b) \/ Update(r, b), UNCHANGED progVars
  PROVE  ReadersInv'
  <1>1. copy \in [Clients -> [Blocks -> Values]] /\ mem \in [Blocks -> Values] /\ DOMAIN held = Clients
    BY DEF ReadersInv, ReadersTypes
  <1>2. CASE Map(r, b)
    <2>1. op[r] = Called("MAP", b)
      BY <1>2 DEF Map, Finish
    <2>2. InCall(r, "MAP", b)
      BY <2>1, Finishing
    <2>3. Finished(r, "MAP", b, "ok")
      BY <1>2, <2>1, <2>2, CallNames DEF Map, Finish, Finished
    <2>4. Synced(r, "MAP", b)
      BY <1>1, <1>2, <2>3 DEF Map, Synced
    <2>. QED BY <2>4, SyncedKeeps
  <1>3. CASE Update(r, b)
    <2>1. op[r] = Called("UPDATE", b)
      BY <1>3 DEF Update, Finish
    <2>2. InCall(r, "take", b) /\ CallOf("take", stored[r]) = "UPDATE"
      BY <2>1, Finishing
    <2>3. Finished(r, "take", b, "ok")
      BY <1>3, <2>1, <2>2 DEF Update, Finish, Finished
    <2>4. \E v \in Values : /\ copy' = [copy EXCEPT ![r][b] = v]
                            /\ v = mem[b] \/ (<<r, b>> \in fresh /\ v = copy[r][b])
      <3>1. CASE <<r, b>> \in fresh
        <4>1. copy' = copy /\ copy[r][b] \in Values
          BY <1>1, <1>3, <3>1 DEF Update
        <4>2. copy = [copy EXCEPT ![r][b] = copy[r][b]]
          BY <1>1
        <4>. QED BY <3>1, <4>1, <4>2
      <3>2. CASE <<r, b>> \notin fresh
        BY <1>1, <1>3, <3>2 DEF Update
      <3>. QED BY <3>1, <3>2
    <2>5. Synced(r, "take", b)
      <3>1. held' = [held EXCEPT ![r] = held[r]]
        BY <1>3, ReadersInv DEF Update, ReadersInv, ReadersTypes
      <3>2. held' = [held EXCEPT ![r] = IF "take" = "MAP" THEN @ \cup {b} ELSE @]
        BY <3>1
      <3>. QED BY <1>3, <2>3, <2>4, <3>2 DEF Update, Synced
    <2>. QED BY <2>5, SyncedKeeps
  <1>. QED BY <1>2, <1>3

\* A wait changes nothing but the call; nor does an unmap that is refused.
LEMMA QuietKeeps ==
  ASSUME ReadersInv, NEW r \in Clients, NEW x, NEW b, NEW v, Finished(r, x, b, v),
         (x = "take" /\ v = "ok") \/ (x = "UNMAP" /\ v = "refused"),
         UNCHANGED <<mem, held, copy, fresh>>
  PROVE  ReadersInv'
  <1>1. pc[r] \notin Writes(r)
    BY PlaceFacts DEF Finished, InCall
  <1>2. /\ \A c \in Clients : OpOK(c)' /\ StatusOK(c)'
        /\ DOMAIN op' = Clients /\ SameWrites /\ UNCHANGED <<round, pc, stored, out, status>>
    BY <1>1, FinishedKeeps
  <1>3. ReadersTypes'
    BY <1>2 DEF ReadersInv, ReadersTypes
  <1>. QED BY <1>2, <1>3, OnlyCalls DEF ReadersInv

LEMMA WaitKeeps ==
  ASSUME ReadersInv, NEW r \in Clients, NEW b \in Blocks, Wait(r, b), UNCHANGED progVars
  PROVE  ReadersInv'
  <1>1. op[r] = Called("WAIT", b)
    BY DEF Wait, Finish
  <1>2. InCall(r, "take", b) /\ CallOf("take", stored[r]) = "WAIT"
    BY <1>1, Finishing
  <1>3. Finished(r, "take", b, "ok")
    BY <1>1, <1>2 DEF Wait, Finish, Finished
  <1>. QED BY <1>3, QuietKeeps DEF Wait

LEMMA UnmapKeeps ==
  ASSUME ReadersInv, NEW r \in Clients, NEW b \in Blocks, Unmap(r, b), UNCHANGED progVars
  PROVE  ReadersInv'
  <1>1. op[r] = Called("UNMAP", b)
    BY DEF Unmap, Finish
  <1>2. InCall(r, "UNMAP", b) /\ CallOf("UNMAP", stored[r]) = "UNMAP"
    BY <1>1, Finishing, CallNames
  <1>3. CASE Finish(r, "UNMAP", b, "refused") /\ UNCHANGED <<mem, held, copy, fresh, left>>
    <2>1. Finished(r, "UNMAP", b, "refused")
      BY <1>1, <1>2, <1>3 DEF Finish, Finished
    <2>. QED BY <1>3, <2>1, QuietKeeps
  <1>4. CASE /\ Finish(r, "UNMAP", b, "ok")
             /\ held' = [held EXCEPT ![r] = @ \ {b}]
             /\ copy' = [copy EXCEPT ![r][b] = Zero]
             /\ fresh' = fresh \ {<<r, b>>}
             /\ UNCHANGED <<mem, left>>
    <2>1. Finished(r, "UNMAP", b, "ok")
      BY <1>1, <1>2, <1>4 DEF Finish, Finished
    <2>2. PICK i \in 1 .. 13 : i = pc[r] /\ Place(r, i, "UNMAP", b)
      BY <1>2 DEF InCall
    <2>3. i >= 10 /\ i \notin Writes(r)
      BY <2>2, PlaceFacts DEF Place
    <2>4. /\ held' \in [Clients -> SUBSET Blocks] /\ b \notin held'[r]
          /\ \A c \in Clients : c # r => held'[c] = held[c]
          /\ \A c \in Clients : \A d : c # r \/ d # b => (d \in held'[c] <=> d \in held[c])
      BY <1>4 DEF ReadersInv, ReadersTypes
    <2>5. /\ copy' \in [Clients -> [Blocks -> Values]] /\ copy'[r][b] = 0
          /\ \A c \in Clients : \A d \in Blocks : c # r \/ d # b => copy'[c][d] = copy[c][d]
      BY <1>4, Names3 DEF ReadersInv, ReadersTypes, Values
    <2>6. /\ \A c \in Clients : OpOK(c)' /\ StatusOK(c)'
          /\ DOMAIN op' = Clients /\ SameWrites /\ UNCHANGED <<round, pc, stored, out, status>>
      BY <2>1, <2>2, <2>3, <2>4, <2>5, FinishedKeeps
    <2>7. ReadersTypes'
      BY <1>4, <2>4, <2>5, <2>6 DEF ReadersInv, ReadersTypes
    <2>8. ASSUME NEW d \in Mails PROVE MailOK(d)' /\ ValueOK(d)'
      <3>1. Filled(d)' = Filled(d) /\ Emptied(d)' = Emptied(d) /\ MailOK(d) /\ ValueOK(d)
        BY <2>6, SameMarks DEF ReadersInv
      <3>2. /\ d \in Blocks /\ From(d) \in Clients /\ To(d) \in Clients
            /\ PutAt(d) \in {6, 7} /\ TakeAt(d) \in {4, 8}
        BY <2>8, MailFacts
      <3>3. ASSUME NEW c \in Clients
            PROVE  \/ /\ copy'[c][d] = copy[c][d] /\ (d \in held'[c] <=> d \in held[c])
                      /\ <<c, d>> \in fresh' <=> <<c, d>> \in fresh
                   \/ pc[c] = i /\ d \notin held'[c]
        BY <1>4, <2>2, <2>4, <2>5, <3>2
      <3>4. FromOK(d)'
        <4>1. pc[From(d)] = i => pc[From(d)] # PutAt(d)
          BY <2>3, <3>2
        <4>2. d \in held'[From(d)] /\ ~Emptied(d) => <<From(d), d>> \in fresh'
          BY <3>1, <3>2, <3>3 DEF MailOK, FromOK
        <4>3. pc[From(d)] = PutAt(d) /\ stored[From(d)] => copy'[From(d)][d] = out[From(d)][d]
          BY <3>1, <3>2, <3>3, <4>1 DEF MailOK, FromOK
        <4>. QED BY <2>6, <3>1, <4>2, <4>3 DEF FromOK
      <3>5. ToOK(d)'
        <4>1. PICK k : k = TakeAt(d) /\ k \in {4, 8}
          BY <3>2
        <4>2. CASE pc[To(d)] = i
          <5>1. i > k /\ ~(i <= k) /\ i # k + 1
            BY <2>3, <4>1
          <5>. QED BY <2>6, <3>1, <4>1, <4>2, <5>1 DEF MailOK, ToOK
        <4>3. CASE pc[To(d)] # i
          BY <2>6, <3>1, <3>2, <3>3, <4>3 DEF MailOK, ToOK
        <4>. QED BY <4>2, <4>3
      <3>6. ValueOK(d)' /\ mem' = mem /\ out' = out
        BY <1>4, <2>6, <3>1 DEF ValueOK
      <3>. QED BY <3>1, <3>4, <3>5, <3>6 DEF MailOK
    <2>9. TextOK'
      <3>1. Wrote(Reader1, 5)' = Wrote(Reader1, 5) /\ TextOK
        BY <2>6, SameMarks DEF ReadersInv
      <3>2. "text" \in held'[Reader1] => <<Reader1, "text">> \in fresh'
        BY <1>4, <2>4, <3>1, Names3 DEF TextOK
      <3>3. pc[Reader1] = 5 => copy'[Reader1]["text"] = copy[Reader1]["text"]
        BY <2>2, <2>3, <2>5, Names3
      <3>4. "text" \in held'[Reader2] => pc[Reader2] > 4 /\ copy'[Reader2]["text"] = round
        BY <2>4, <2>5, <3>1, Names3 DEF TextOK
      <3>5. pc[Reader2] \in 7 .. 9 => "text" \in held'[Reader2]
        <4>1. pc[Reader2] \in 7 .. 9 => r # Reader2
          BY <2>2, <2>3
        <4>. QED BY <2>4, <3>1, <4>1, Names3 DEF TextOK
      <3>. QED BY <1>4, <2>6, <3>1, <3>2, <3>3, <3>4, <3>5 DEF TextOK
    <2>. QED BY <2>6, <2>7, <2>8, <2>9 DEF ReadersInv
  <1>. QED BY <1>3, <1>4 DEF Unmap

\* The write of r takes effect: one mark is set.
LEMMA WriteMarks ==
  ASSUME ReadersInv, NEW r \in Clients, UNCHANGED pc, op'[r].state = "ok",
         \A c \in Clients : c # r => op'[c] = op[c]
  PROVE  /\ Wrote(r, pc[r])'
         /\ \A c \in Clients : \A i \in Nat : c # r \/ i # pc[r] => Wrote(c, i)' = Wrote(c, i)
  BY DEF Wrote

\* No write is refused: the other program does not write meanwhile.
LEMMA WriterIsFresh ==
  ASSUME ReadersInv, NEW r \in Clients, NEW x, NEW b, InCall(r, x, b), x \in {"put", "clear"},
         op[r].state # "ok"
  PROVE  /\ <<r, b>> \in fresh
         /\ x = "put" /\ b # "text" => ~Filled(b) /\ ~Emptied(b)
  <1>1. PICK i \in 1 .. 13 : i = pc[r] /\ Place(r, i, x, b) /\ b \in Blocks /\ stored[r] /\ b \in held[r]
    BY DEF InCall
  <1>2. CASE x = "put" /\ b # "text"
    <2>1. b \in Mails /\ r = From(b) /\ i = PutAt(b)
      BY <1>1, <1>2, PlaceFacts
    <2>2. ~Filled(b)
      BY <1>1, <2>1 DEF Filled, Wrote
    <2>3. MailOK(b) /\ To(b) \in Clients /\ TakeAt(b) \in {4, 8}
      BY <2>1, MailFacts DEF ReadersInv
    <2>4. PICK k, n : k = TakeAt(b) /\ n = pc[To(b)] /\ k \in {4, 8} /\ n \in 1 .. 14
      BY <2>3 DEF ReadersInv, ReadersTypes
    <2>5. ~(n > k)
      BY <2>2, <2>3, <2>4 DEF MailOK, ToOK
    <2>6. ~(n > k + 1) /\ n # k + 1
      BY <2>4, <2>5
    <2>7. ~Emptied(b)
      BY <2>4, <2>6 DEF Emptied, Wrote
    <2>8. <<r, b>> \in fresh
      BY <1>1, <2>1, <2>3, <2>7 DEF MailOK, FromOK
    <2>. QED BY <2>2, <2>7, <2>8
  <1>3. CASE x = "put" /\ b = "text"
    <2>1. r = Reader1
      BY <1>1, <1>3, PlaceFacts
    <2>. QED BY <1>1, <1>3, <2>1 DEF ReadersInv, TextOK
  <1>4. CASE x = "clear"
    <2>1. b \in Mails /\ r = To(b) /\ i = TakeAt(b) + 1
      BY <1>1, <1>4, PlaceFacts
    <2>2. MailOK(b)
      BY <2>1 DEF ReadersInv
    <2>. QED BY <1>1, <1>4, <2>1, <2>2 DEF MailOK, ToOK
  <1>. QED BY <1>2, <1>3, <1>4

LEMMA WriteKeeps ==
  ASSUME ReadersInv, NEW r \in Clients, NEW b \in Blocks, Write(r, b), UNCHANGED progVars
  PROVE  ReadersInv'
  <1>1. op[r] = Called("WRITE", b) /\ op[r].state # "ok"
    BY DEF Write, Finish, Called
  <1>2. PICK x : InCall(r, x, b) /\ x \in {"put", "clear"} /\ CallOf(x, stored[r]) = "WRITE"
    BY <1>1, Finishing
  <1>3. <<r, b>> \in fresh /\ (x = "put" /\ b # "text" => ~Filled(b) /\ ~Emptied(b))
    BY <1>1, <1>2, WriterIsFresh
  <1>4. /\ Finish(r, "WRITE", b, "ok") /\ Overwrite(b, copy[r][b], {<<r, b>>})
    BY <1>3 DEF Write
  <1>5. /\ mem' = [mem EXCEPT ![b] = copy[r][b]] /\ UNCHANGED <<held, copy>>
        /\ fresh' = {f \in fresh : f[2] # b} \cup {<<r, b>>}
    BY <1>4 DEF Overwrite
  <1>6. /\ mem' \in [Blocks -> Values] /\ mem'[b] = copy[r][b]
        /\ \A d \in Blocks : d # b => mem'[d] = mem[d]
        /\ <<r, b>> \in fresh' /\ fresh' \subseteq Clients \X Blocks
        /\ \A c \in Clients : \A d \in Blocks : d # b => (<<c, d>> \in fresh' <=> <<c, d>> \in fresh)
    BY <1>5 DEF ReadersInv, ReadersTypes
  <1>7. PICK i \in 1 .. 13 : i = pc[r] /\ Place(r, i, x, b) /\ stored[r] /\ b \in held[r]
    BY <1>2 DEF InCall
  <1>8. /\ \A c \in Clients : OpOK(c)' /\ StatusOK(c)'
        /\ DOMAIN op' = Clients /\ \A c \in Clients : c # r => op'[c] = op[c]
        /\ op'[r].state = "ok"
        /\ UNCHANGED <<round, pc, stored, out, status>>
    <2>1. Finished(r, x, b, "ok")
      BY <1>1, <1>2, <1>4 DEF Finish, Finished
    <2>. QED BY <1>2, <1>5, <1>7, <2>1, FinishedKeeps
  <1>9. ReadersTypes'
    BY <1>5, <1>6, <1>8 DEF ReadersInv, ReadersTypes
  <1>10. /\ Wrote(r, i)'
         /\ \A c \in Clients : \A j \in Nat : c # r \/ j # i => Wrote(c, j)' = Wrote(c, j)
    BY <1>7, <1>8, WriteMarks
  <1>11. ASSUME NEW d \in Mails, d # b PROVE MailOK(d)' /\ ValueOK(d)'
    <2>1. /\ ~(r = From(d) /\ i = PutAt(d))
          /\ ~(r = To(d) /\ i = TakeAt(d) + 1)
      BY <1>7, <1>11, PlaceTouches
    <2>2. /\ d \in Blocks /\ From(d) \in Clients /\ To(d) \in Clients
          /\ PutAt(d) \in Nat /\ TakeAt(d) + 1 \in Nat /\ MailOK(d) /\ ValueOK(d)
      BY <1>11, MailFacts DEF ReadersInv
    <2>3. Filled(d)' = Filled(d) /\ Emptied(d)' = Emptied(d)
      BY <1>10, <2>1, <2>2 DEF Filled, Emptied
    <2>4. FromOK(d)'
      BY <1>5, <1>6, <1>8, <1>11, <2>2, <2>3 DEF MailOK, FromOK
    <2>5. ToOK(d)'
      BY <1>5, <1>6, <1>8, <1>11, <2>2, <2>3 DEF MailOK, ToOK
    <2>6. mem'[d] = mem[d] /\ ValueOK(d)'
      BY <1>6, <1>8, <1>11, <2>2 DEF ValueOK
    <2>. QED BY <1>8, <2>2, <2>3, <2>4, <2>5, <2>6 DEF MailOK
  <1>12. ASSUME b \in Mails PROVE MailOK(b)' /\ ValueOK(b)'
    <2>1. /\ From(b) \in Clients /\ To(b) \in Clients /\ From(b) # To(b)
          /\ PutAt(b) \in Nat /\ TakeAt(b) \in {4, 8} /\ MailOK(b) /\ ValueOK(b)
      BY <1>12, MailFacts DEF ReadersInv
    <2>2. ValueOK(b)'
      BY <1>8, <2>1 DEF ValueOK
    <2>3. CASE x = "put"
      <3>1. r = From(b) /\ i = PutAt(b) /\ ~Filled(b) /\ ~Emptied(b)
        BY <1>3, <1>7, <1>12, <2>3, PlaceFacts, MailFacts
      <3>2. Filled(b)'
        BY <1>7, <1>8, <1>10, <3>1 DEF Filled
      <3>3. ~Emptied(b)'
        BY <1>10, <2>1, <3>1 DEF Emptied
      <3>4. copy[r][b] = out[r][b]
        BY <1>7, <2>1, <3>1 DEF MailOK, FromOK
      <3>5. FromOK(b)'
        BY <1>5, <1>6, <1>8, <3>1, <3>4 DEF FromOK
      <3>6. PICK k, n : k = TakeAt(b) /\ n = pc[To(b)] /\ k \in {4, 8} /\ n \in 1 .. 14
        BY <2>1 DEF ReadersInv, ReadersTypes
      <3>7. ~(n > k) /\ copy[To(b)][b] = 0
        BY <2>1, <3>1, <3>6 DEF MailOK, ToOK
      <3>8. n # k + 1
        BY <3>6, <3>7
      <3>9. ToOK(b)'
        BY <1>5, <1>8, <3>6, <3>7, <3>8 DEF ToOK
      <3>10. mem'[b] = out'[From(b)][b]
        BY <1>6, <1>8, <3>1, <3>4
      <3>. QED BY <2>2, <3>2, <3>3, <3>5, <3>9, <3>10 DEF MailOK
    <2>4. CASE x = "clear"
      <3>1. r = To(b) /\ i = TakeAt(b) + 1
        BY <1>7, <2>4, PlaceFacts
      <3>2. Emptied(b)'
        BY <1>7, <1>8, <1>10, <3>1 DEF Emptied
      <3>3. Filled(b)' = Filled(b)
        BY <1>10, <2>1, <3>1 DEF Filled
      <3>4. copy[r][b] = 0
        BY <1>7, <2>1, <3>1 DEF MailOK, ToOK
      <3>5. FromOK(b)'
        BY <1>5, <1>8, <2>1, <3>2 DEF MailOK, FromOK
      <3>6. PICK k : k = TakeAt(b) /\ k \in {4, 8}
        BY <2>1
      <3>7. ~(i <= k)
        BY <3>1, <3>6
      <3>8. ToOK(b)'
        BY <1>5, <1>6, <1>7, <1>8, <2>1, <3>1, <3>3, <3>4, <3>6, <3>7 DEF MailOK, ToOK
      <3>. QED BY <1>6, <2>2, <3>2, <3>4, <3>5, <3>8 DEF MailOK
    <2>. QED BY <1>2, <2>3, <2>4
  <1>13. TextOK'
    <2>1. TextOK /\ Reader1 \in Clients /\ Reader2 \in Clients /\ "text" \in Blocks /\ 5 \in Nat
      BY Names3 DEF ReadersInv
    <2>2. (r = Reader1 /\ i = 5) <=> (x = "put" /\ b = "text")
      BY <1>7, PlaceFacts
    <2>3. b = "text" => x = "put"
      BY <1>2, <1>7, PlaceFacts, MailFacts
    <2>4. CASE b = "text"
      <3>1. r = Reader1 /\ i = 5
        BY <2>2, <2>3, <2>4
      <3>2. mem'["text"] = round
        BY <1>6, <1>7, <2>1, <2>4, <3>1 DEF TextOK
      <3>. QED BY <1>5, <1>6, <1>8, <2>1, <2>4, <3>1, <3>2 DEF TextOK
    <2>5. CASE b # "text"
      <3>1. Wrote(Reader1, 5)' = Wrote(Reader1, 5)
        BY <1>10, <2>1, <2>2, <2>5
      <3>2. mem'["text"] = mem["text"]
        BY <1>6, <2>1, <2>5
      <3>3. <<Reader1, "text">> \in fresh => <<Reader1, "text">> \in fresh'
        BY <1>6, <2>1, <2>5
      <3>. QED BY <1>5, <1>8, <2>1, <3>1, <3>2, <3>3 DEF TextOK
    <2>. QED BY <2>4, <2>5
  <1>. QED BY <1>8, <1>9, <1>11, <1>12, <1>13 DEF ReadersInv
-----------------------------------------------------------------------------
(* A round ends, and the next begins. *)

LEMMA EndKeeps ==
  ASSUME ReadersInv, NEW r \in Clients, End(r)
  PROVE  ReadersInv'
  <1>1. /\ op[r] = NoOp /\ status' = [status EXCEPT ![r] = IF @ = "failing" THEN "1" ELSE "0"]
        /\ UNCHANGED <<round, pc, stored, out, mem>> /\ Quit(r)
    BY DEF End, Quit
  <1>2. pc[r] = 14 /\ status[r] = "running"
    <2>1. status[r] \in {"running", "0"} /\ pc[r] \in 1 .. 14 /\ Len(Program(r)) = 13
      BY Names3, Program1, Program2 DEF ReadersInv, ReadersTypes, StatusOK
    <2>2. status[r] = "running" /\ pc[r] > 13
      BY <2>1 DEF End
    <2>. QED BY <2>1, <2>2
  <1>3. /\ held' \in [Clients -> SUBSET Blocks] /\ held'[r] = {}
        /\ \A c \in Clients : c # r => held'[c] = held[c]
    BY <1>1 DEF Quit, ReadersInv, ReadersTypes
  <1>4. /\ copy' \in [Clients -> [Blocks -> Values]] /\ \A b \in Blocks : copy'[r][b] = 0
        /\ \A c \in Clients : c # r => copy'[c] = copy[c]
    BY <1>1, Names3 DEF Quit, ReadersInv, ReadersTypes, Values
  <1>5. /\ DOMAIN op' = Clients /\ op'[r] = NoOp
        /\ \A c \in Clients : c # r => op'[c] = op[c]
    BY <1>1 DEF Quit, ReadersInv, ReadersTypes
  <1>6. /\ fresh' \subseteq Clients \X Blocks
        /\ \A c \in Clients : \A b \in Blocks : c # r => (<<c, b>> \in fresh' <=> <<c, b>> \in fresh)
    BY <1>1 DEF Quit, ReadersInv, ReadersTypes
  <1>7. /\ DOMAIN status' = Clients /\ status'[r] = "0"
        /\ \A c \in Clients : c # r => status'[c] = status[c]
    BY <1>1, <1>2 DEF ReadersInv, ReadersTypes
  <1>8. ReadersTypes'
    BY <1>1, <1>3, <1>4, <1>5, <1>6, <1>7 DEF ReadersInv, ReadersTypes
  <1>9. \A c \in Clients : OpOK(c)' /\ StatusOK(c)'
    <2>1. OpOK(r)' /\ StatusOK(r)'
      BY <1>1, <1>2, <1>3, <1>4, <1>5, <1>7 DEF OpOK, StatusOK
    <2>2. \A c \in Clients : c # r => OpOK(c)' /\ StatusOK(c)'
      BY <1>1, <1>3, <1>4, <1>5, <1>7, OthersStand
    <2>. QED BY <2>1, <2>2
  <1>10. SameWrites
    BY <1>1, <1>5, OpWrites
  <1>11. ASSUME NEW d \in Mails PROVE MailOK(d)' /\ ValueOK(d)'
    <2>1. /\ d \in Blocks /\ From(d) \in Clients /\ To(d) \in Clients
          /\ PutAt(d) \in {6, 7} /\ TakeAt(d) \in {4, 8}
      BY <1>11, MailFacts
    <2>2. Filled(d)' = Filled(d) /\ Emptied(d)' = Emptied(d) /\ MailOK(d) /\ ValueOK(d)
      BY <1>10, <1>11, SameMarks DEF ReadersInv
    <2>3. FromOK(d)'
      <3>1. CASE r = From(d)
        BY <1>1, <1>2, <1>3, <2>1, <3>1 DEF FromOK
      <3>2. CASE r # From(d)
        BY <1>1, <1>3, <1>4, <1>6, <2>1, <2>2, <3>2 DEF MailOK, FromOK
      <3>. QED BY <3>1, <3>2
    <2>4. ToOK(d)'
      <3>1. CASE r = To(d)
        <4>1. PICK k : k = TakeAt(d) /\ k \in {4, 8}
          BY <2>1
        <4>2. 14 > k /\ ~(14 <= k) /\ 14 # k + 1
          BY <4>1
        <4>. QED BY <1>1, <1>2, <2>2, <3>1, <4>1, <4>2 DEF MailOK, ToOK
      <3>2. CASE r # To(d)
        BY <1>1, <1>4, <1>6, <2>1, <2>2, <3>2 DEF MailOK, ToOK
      <3>. QED BY <3>1, <3>2
    <2>5. ValueOK(d)'
      BY <1>1, <2>2 DEF ValueOK
    <2>. QED BY <1>1, <2>2, <2>3, <2>4, <2>5 DEF MailOK
  <1>12. TextOK'
    <2>1. Wrote(Reader1, 5)' = Wrote(Reader1, 5) /\ TextOK
      BY <1>10, SameMarks DEF ReadersInv
    <2>2. CASE r = Reader1
      <3>1. held'[Reader1] = {} /\ pc[Reader1] = 14
        BY <1>2, <1>3, <2>2
      <3>2. held'[Reader2] = held[Reader2] /\ copy'[Reader2] = copy[Reader2]
        BY <1>3, <1>4, <2>2, Names3
      <3>. QED BY <1>1, <2>1, <3>1, <3>2 DEF TextOK
    <2>3. CASE r = Reader2
      <3>1. held'[Reader2] = {} /\ pc[Reader2] = 14
        BY <1>2, <1>3, <2>3
      <3>2. /\ held'[Reader1] = held[Reader1] /\ copy'[Reader1] = copy[Reader1]
            /\ <<Reader1, "text">> \in fresh' <=> <<Reader1, "text">> \in fresh
        BY <1>3, <1>4, <1>6, <2>3, Names3
      <3>. QED BY <1>1, <2>1, <3>1, <3>2 DEF TextOK
    <2>. QED BY <2>2, <2>3, Names3
  <1>. QED BY <1>8, <1>9, <1>11, <1>12 DEF ReadersInv

\* What both programs have left when they have ended.
LEMMA AtTheEnd ==
  ASSUME ReadersInv, Ended
  PROVE  /\ \A r \in Clients : pc[r] = 14 /\ held[r] = {} /\ op[r] = NoOp
         /\ \A r \in Clients : \A b \in Blocks : copy[r][b] = 0
         /\ \A b \in Mails : mem[b] = 0 /\ out[To(b)][b] = out[From(b)][b]
         /\ \A b \in Mails : b # "spaces" => out[From(b)][b] = round
  <1>1. \A r \in Clients : /\ pc[r] = 14 /\ held[r] = {} /\ op[r] = NoOp
                           /\ \A b \in Blocks : copy[r][b] = 0
    BY DEF Ended, ReadersInv, OpOK, StatusOK
  <1>2. ASSUME NEW b \in Mails
        PROVE  /\ mem[b] = 0 /\ out[To(b)][b] = out[From(b)][b]
               /\ b # "spaces" => out[From(b)][b] = round
    <2>1. PICK p, k : p = PutAt(b) /\ k = TakeAt(b) /\ p \in {6, 7} /\ k \in {4, 8}
      BY <1>2, MailFacts
    <2>2. pc[From(b)] = 14 /\ pc[To(b)] = 14 /\ MailOK(b) /\ ValueOK(b)
      BY <1>1, <1>2, MailFacts DEF ReadersInv
    <2>3. 14 > p /\ 14 > k /\ 14 > k + 1
      BY <2>1
    <2>4. Filled(b) /\ Emptied(b)
      BY <2>1, <2>2, <2>3 DEF Filled, Emptied, Wrote
    <2>. QED BY <2>1, <2>2, <2>3, <2>4 DEF MailOK, ToOK, ValueOK
  <1>. QED BY <1>1, <1>2

LEMMA AgainKeeps ==
  ASSUME ReadersInv, Again
  PROVE  ReadersInv'
  <1>1. /\ Ended /\ round' = round + 1
        /\ pc' = [r \in Clients |-> 1] /\ out' = [r \in Clients |-> Nothing]
        /\ status' = [r \in Clients |-> "running"]
        /\ UNCHANGED <<stored, mem, held, copy, fresh, op>>
    BY DEF Again, Ended, vars
  <1>2. Nothing \in [Mails -> Values]
    BY DEF Nothing, Mails, Values
  <1>3. ReadersTypes'
    <2>1. round' \in Nat /\ pc' \in [Clients -> 1 .. 14] /\ out' \in [Clients -> [Mails -> Values]]
      BY <1>1, <1>2 DEF ReadersInv, ReadersTypes
    <2>. QED BY <1>1, <2>1 DEF ReadersInv, ReadersTypes
  <1>4. /\ \A r \in Clients : pc'[r] = 1 /\ held'[r] = {} /\ op'[r] = NoOp /\ status'[r] = "running"
        /\ \A r \in Clients : \A b \in Blocks : copy'[r][b] = 0
        /\ \A b \in Mails : mem'[b] = 0
    BY <1>1, AtTheEnd
  <1>5. \A r \in Clients : OpOK(r)' /\ StatusOK(r)'
    BY <1>4 DEF OpOK, StatusOK
  <1>6. ASSUME NEW b \in Mails PROVE MailOK(b)' /\ ValueOK(b)'
    <2>1. PICK p, k : p = PutAt(b) /\ k = TakeAt(b) /\ p \in {6, 7} /\ k \in {4, 8}
      BY <1>6, MailFacts
    <2>2. /\ b \in Blocks /\ pc'[From(b)] = 1 /\ pc'[To(b)] = 1 /\ held'[From(b)] = {}
          /\ copy'[To(b)][b] = 0 /\ mem'[b] = 0 /\ op'[From(b)] = NoOp
      BY <1>4, <1>6, MailFacts
    <2>3. ~(1 > p) /\ 1 # p /\ ~(1 > k) /\ 1 # k + 1
      BY <2>1
    <2>4. ~Filled(b)'
      BY <2>1, <2>2, <2>3 DEF Filled, Wrote
    <2>. QED BY <2>1, <2>2, <2>3, <2>4 DEF MailOK, FromOK, ToOK, ValueOK
  <1>7. TextOK'
    <2>1. pc'[Reader1] = 1 /\ pc'[Reader2] = 1 /\ held'[Reader1] = {} /\ held'[Reader2] = {}
      BY <1>4, Names3
    <2>2. ~Wrote(Reader1, 5)'
      BY <2>1 DEF Wrote
    <2>. QED BY <2>1, <2>2 DEF TextOK
  <1>. QED BY <1>3, <1>5, <1>6, <1>7 DEF ReadersInv

LEMMA ReadersStart == RInit => ReadersInv
  <1>. SUFFICES ASSUME RInit PROVE ReadersInv
    OBVIOUS
  <1>1. Nothing \in [Mails -> Values] /\ 0 \in Values /\ Zero = 0
    BY Names3 DEF Nothing, Mails, Values
  <1>2. ReadersTypes
    BY <1>1 DEF RInit, Init, ReadersTypes
  <1>3. /\ \A r \in Clients : pc[r] = 1 /\ held[r] = {} /\ op[r] = NoOp /\ status[r] = "running"
        /\ \A r \in Clients : \A b \in Blocks : copy[r][b] = 0
        /\ \A b \in Mails : mem[b] = 0
    BY <1>1, Names3 DEF RInit, Init
  <1>4. \A r \in Clients : OpOK(r) /\ StatusOK(r)
    BY <1>3 DEF OpOK, StatusOK
  <1>5. ASSUME NEW b \in Mails PROVE MailOK(b) /\ ValueOK(b)
    <2>1. PICK p, k : p = PutAt(b) /\ k = TakeAt(b) /\ p \in {6, 7} /\ k \in {4, 8}
      BY <1>5, MailFacts
    <2>2. /\ b \in Blocks /\ pc[From(b)] = 1 /\ pc[To(b)] = 1 /\ held[From(b)] = {}
          /\ copy[To(b)][b] = 0 /\ mem[b] = 0 /\ op[From(b)] = NoOp
      BY <1>3, <1>5, MailFacts
    <2>3. ~(1 > p) /\ 1 # p /\ ~(1 > k) /\ 1 # k + 1
      BY <2>1
    <2>4. ~Filled(b)
      BY <2>1, <2>2, <2>3 DEF Filled, Wrote
    <2>. QED BY <2>1, <2>2, <2>3, <2>4 DEF MailOK, FromOK, ToOK, ValueOK
  <1>6. TextOK
    <2>1. pc[Reader1] = 1 /\ pc[Reader2] = 1 /\ held[Reader1] = {} /\ held[Reader2] = {}
      BY <1>3, Names3
    <2>2. ~Wrote(Reader1, 5)
      BY <2>1 DEF Wrote
    <2>. QED BY <2>1, <2>2 DEF TextOK
  <1>. QED BY <1>2, <1>4, <1>5, <1>6 DEF ReadersInv

LEMMA ReadersStutter ==
  ASSUME ReadersInv, UNCHANGED allVars
  PROVE  ReadersInv'
  <1>1. UNCHANGED <<mem, held, copy, fresh, op, left, round, pc, stored, out, status>>
    BY DEF allVars, vars, progVars
  <1>2. SameWrites
    BY <1>1 DEF SameWrites, Wrote
  <1>3. ReadersTypes' /\ \A r \in Clients : OpOK(r)' /\ StatusOK(r)'
    BY <1>1 DEF ReadersInv, ReadersTypes, OpOK, StatusOK
  <1>. QED BY <1>1, <1>2, <1>3, OnlyCalls DEF ReadersInv

-----------------------------------------------------------------------------
(* While no call has timed out. *)
LEMMA ReadersStep ==
  ASSUME ReadersInv, left = {},
         \/ Again \/ \E r \in Clients : ProgramStep(r)
         \/ UNCHANGED allVars
  PROVE  ReadersInv' /\ left' = {} /\ gaveUp' = gaveUp
  <1>1. CASE Again
    BY <1>1, AgainKeeps DEF Again, vars
  <1>2. ASSUME NEW r \in Clients, ProgramStep(r) PROVE ReadersInv' /\ left' = {} /\ gaveUp' = gaveUp
    <2>1. CASE Back(r)
      BY <1>2, <2>1, BackKeeps DEF Back, Return
    <2>2. CASE End(r)
      <3>1. left' = {} /\ gaveUp' = gaveUp
        <4>1. \A b \in Blocks : op[r] # Called("WRITE", b)
          BY <2>2 DEF End, NoOp, Called
        <4>2. left' = left /\ gaveUp' = gaveUp
          BY <2>2, <4>1 DEF End, Quit
        <4>. QED BY <4>2
      <3>. QED BY <1>2, <2>2, <3>1, EndKeeps
    <2>3. ASSUME NEW b \in Blocks, Instruction(r, b) PROVE ReadersInv' /\ left' = {} /\ gaveUp' = gaveUp
      <3>1. CASE \/ CallMap(r, b) \/ CallUnmap(r, b) \/ CallWrite(r, b)
                 \/ TakeWait(r, b) \/ TakeUpdate(r, b)
        <4>1. left' = {} /\ gaveUp' = gaveUp
          BY <3>1 DEF CallMap, CallUnmap, CallWrite, TakeWait, TakeUpdate, Begin, progVars
        <4>. QED BY <1>2, <2>3, <3>1, <4>1, BeginKeeps
      <3>2. CASE Put(r, b)
        BY <1>2, <2>3, <3>2, PutKeeps DEF Put, Store
      <3>3. CASE Taken(r, b)
        BY <1>2, <2>3, <3>3, TakenKeeps DEF Taken, vars
      <3>4. CASE Clear(r, b)
        BY <1>2, <2>3, <3>4, ClearKeeps DEF Clear, Store
      <3>5. CASE Effect(r, b)
        <4>. gaveUp' = gaveUp
          BY <3>5 DEF Effect, progVars
        <4>1. CASE Map(r, b) \/ Update(r, b)
          BY <1>2, <2>3, <3>5, <4>1, SyncKeeps DEF Effect, Map, Update
        <4>2. CASE Unmap(r, b)
          BY <1>2, <2>3, <3>5, <4>2, UnmapKeeps DEF Effect, Unmap
        <4>3. CASE Write(r, b)
          BY <1>2, <2>3, <3>5, <4>3, WriteKeeps DEF Effect, Write, Overwrite
        <4>4. CASE Wait(r, b)
          BY <1>2, <2>3, <3>5, <4>4, WaitKeeps DEF Effect, Wait
        <4>. QED BY <3>5, <4>1, <4>2, <4>3, <4>4 DEF Effect
      <3>. QED BY <2>3, <3>1, <3>2, <3>3, <3>4, <3>5 DEF Instruction
    <2>. QED BY <1>2, <2>1, <2>2, <2>3 DEF ProgramStep
  <1>3. CASE UNCHANGED allVars
    BY <1>3, ReadersStutter DEF allVars, vars, progVars
  <1>. QED BY <1>1, <1>2, <1>3

-----------------------------------------------------------------------------
(* Once a program has given up, or is about to.  The other may find writes *)
(* of it refused, but only those whose result it does not look at.         *)

\* Block b is filled by r, at instruction FillAt(b).
Fills(r, b) == r = IF b = "text" THEN Reader1 ELSE From(b)
FillAt(b) == IF b = "text" THEN 5 ELSE PutAt(b)

CallStands(r) ==
  op[r] # NoOp =>
    /\ status[r] = "running" /\ pc[r] <= 13
    /\ LET i == Program(r)[pc[r]][1]
           b == Program(r)[pc[r]][2] IN
       /\ \/ op[r] = Called(CallOf(i, stored[r]), b) \/ op[r] = Over(CallOf(i, stored[r]), b, "ok")
          \/ i \in {"clear", "UNMAP"} /\ op[r] = Over(CallOf(i, stored[r]), b, "refused")
       /\ i = "put" => b \in held[r]

\* Nobody has written behind its back what r has still to fill.
Survives(r) ==
  /\ status[r] \in {"running", "0"} /\ CallStands(r)
  /\ \A b \in Blocks : Fills(r, b) /\ b \in held[r] /\ ~Wrote(r, FillAt(b)) => <<r, b>> \in fresh

SurvivorInv ==
  /\ gaveUp \subseteq Clients /\ pc \in [Clients -> 1 .. 14] /\ held \in [Clients -> SUBSET Blocks]
  /\ DOMAIN op = Clients /\ DOMAIN status = Clients /\ stored \in [Clients -> BOOLEAN]
  /\ \A r \in gaveUp : status[r] = "1" /\ op[r] = NoOp
  /\ \A r \in Clients \ gaveUp : Survives(r)
  /\ \A w \in left : \E r \in gaveUp : Fills(r, w.id)

LEMMA FillFacts ==
  ASSUME NEW b \in Blocks
  PROVE  /\ \E f \in Clients : Fills(f, b) /\ \A r \in Clients : r # f => ~Fills(r, b)
         /\ FillAt(b) \in {5, 6, 7}
  <1>1. b = "text" \/ b \in Mails
    BY Names3
  <1>. QED BY <1>1, Names3, MailFacts DEF Fills, FillAt

\* As long as both run neither has written what the other has still to fill.
LEMMA BothSurvive ==
  ASSUME ReadersInv, gaveUp = {}, left = {}
  PROVE  SurvivorInv
  <1>1. ASSUME NEW r \in Clients PROVE Survives(r)
    <2>1. status[r] \in {"running", "0"} /\ CallStands(r)
      <3>1. status[r] \in {"running", "0"} /\ OpOK(r) /\ CallOf("UNMAP", stored[r]) = "UNMAP"
        BY CallNames DEF ReadersInv, StatusOK
      <3>. QED BY <3>1 DEF OpOK, CallStands
    <2>2. ASSUME NEW b \in Blocks, Fills(r, b), b \in held[r], ~Wrote(r, FillAt(b))
          PROVE  <<r, b>> \in fresh
      <3>1. CASE b = "text"
        BY <2>2, <3>1 DEF ReadersInv, TextOK, Fills
      <3>2. CASE b \in Mails
        <4>1. r = From(b) /\ ~Filled(b) /\ FromOK(b) /\ ToOK(b)
          BY <2>2, <3>2, Names3 DEF Fills, FillAt, Filled, ReadersInv, MailOK
        <4>2. ~(pc[To(b)] > TakeAt(b))
          BY <4>1 DEF ToOK
        <4>3. PICK k, q : k = TakeAt(b) /\ k \in {4, 8} /\ q = pc[To(b)] /\ q \in 1 .. 14
          BY <3>2, MailFacts DEF ReadersInv, ReadersTypes
        <4>4. ~(q > k + 1) /\ q # k + 1
          BY <4>2, <4>3
        <4>5. ~Emptied(b)
          BY <4>3, <4>4 DEF Emptied, Wrote
        <4>. QED BY <2>2, <4>1, <4>5 DEF FromOK
      <3>. QED BY <3>1, <3>2, Names3
    <2>. QED BY <2>1, <2>2 DEF Survives
  <1>. QED BY <1>1 DEF SurvivorInv, ReadersInv, ReadersTypes

LEMMA GiveUpKeeps ==
  ASSUME SurvivorInv, NEW r \in Clients, GiveUp(r)
  PROVE  SurvivorInv' /\ gaveUp' # {}
  <1>1. /\ status[r] = "running" /\ op[r] # NoOp /\ r \notin gaveUp
        /\ Program(r)[pc[r]][1] \in {"MAP", "put", "take"}
    BY DEF GiveUp, SurvivorInv
  <1>2. /\ gaveUp' = gaveUp \cup {r} /\ status' = [status EXCEPT ![r] = "1"]
        /\ op' = [op EXCEPT ![r] = NoOp] /\ held' = [held EXCEPT ![r] = {}]
        /\ fresh' = {f \in fresh : f[1] # r}
        /\ UNCHANGED <<pc, stored>>
    BY DEF GiveUp, Quit
  <1>3. ASSUME NEW c \in Clients \ gaveUp' PROVE Survives(c)'
    <2>1. /\ c \in Clients \ gaveUp /\ c # r /\ Survives(c)
          /\ op'[c] = op[c] /\ held'[c] = held[c] /\ status'[c] = status[c]
          /\ \A b \in Blocks : <<c, b>> \in fresh => <<c, b>> \in fresh'
      BY <1>2 DEF SurvivorInv
    <2>. QED BY <1>2, <2>1 DEF Survives, CallStands, Wrote
  <1>4. ASSUME NEW w \in left' PROVE \E g \in gaveUp' : Fills(g, w.id)
    <2>1. CASE w \in left
      BY <1>2, <2>1 DEF SurvivorInv
    <2>2. CASE w \notin left
      <3>1. PICK b \in Blocks : op[r] = Called("WRITE", b) /\ w.id = b
        <4>1. left' = left \cup {[id |-> b, data |-> copy[r][b]] :
                          b \in {z \in Blocks : op[r] = Called("WRITE", z) /\ <<r, z>> \in fresh}}
          BY DEF GiveUp, Quit
        <4>2. PICK b \in {z \in Blocks : op[r] = Called("WRITE", z) /\ <<r, z>> \in fresh} :
                w = [id |-> b, data |-> copy[r][b]]
          BY <2>2, <4>1
        <4>. QED BY <4>2
      <3>2. PICK i : i = pc[r] /\ i \in 1 .. 13
        BY <1>1 DEF SurvivorInv, Survives, CallStands
      <3>3. PICK x, y : Program(r)[i] = <<x, y>> /\ y \in Blocks /\ Place(r, i, x, y)
        BY <3>2, Instructions
      <3>4. x = "put" /\ y = b
        BY <1>1, <3>1, <3>2, <3>3 DEF SurvivorInv, Survives, CallStands, CallOf, Called, Over
      <3>5. Fills(r, b)
        BY <3>3, <3>4 DEF Place, Fills
      <3>. QED BY <1>2, <3>1, <3>5
    <2>. QED BY <2>1, <2>2
  <1>5. /\ gaveUp' \subseteq Clients /\ pc' \in [Clients -> 1 .. 14] /\ held' \in [Clients -> SUBSET Blocks]
        /\ DOMAIN op' = Clients /\ DOMAIN status' = Clients /\ stored' \in [Clients -> BOOLEAN]
        /\ \A g \in gaveUp' : status'[g] = "1" /\ op'[g] = NoOp
    BY <1>2 DEF SurvivorInv
  <1>. QED BY <1>2, <1>3, <1>4, <1>5 DEF SurvivorInv

\* A write of the program that is gone disturbs nothing the other has to fill.
LEMMA LateKeeps ==
  ASSUME SurvivorInv, Late
  PROVE  SurvivorInv' /\ gaveUp' = gaveUp
  <1>1. PICK w \in left : LateWrite(w) /\ UNCHANGED progVars
    BY DEF Late
  <1>2. /\ UNCHANGED <<pc, stored, status, gaveUp, op, held>> /\ left' \subseteq left
        /\ \A f \in fresh : f[2] # w.id => f \in fresh'
    BY <1>1 DEF LateWrite, Overwrite, progVars
  <1>3. PICK g \in gaveUp : Fills(g, w.id)
    BY DEF SurvivorInv
  <1>4. ASSUME NEW c \in Clients \ gaveUp PROVE Survives(c)'
    <2>1. ASSUME NEW b \in Blocks, Fills(c, b) PROVE b # w.id
      <3>1. c # g /\ g \in Clients
        BY <1>3, <1>4 DEF SurvivorInv
      <3>. QED BY <1>3, <2>1, <3>1 DEF Fills
    <2>2. \A b \in Blocks : Fills(c, b) /\ <<c, b>> \in fresh => <<c, b>> \in fresh'
      BY <1>2, <2>1
    <2>. QED BY <1>2, <2>2 DEF SurvivorInv, Survives, CallStands, Wrote
  <1>. QED BY <1>2, <1>4 DEF SurvivorInv

\* A program in a call.
Standing(r, x, b) ==
  /\ pc[r] \in 1 .. 13 /\ b \in Blocks
  /\ Program(r)[pc[r]] = <<x, b>> /\ Place(r, pc[r], x, b)
  /\ x \in {"MAP", "put", "take", "clear", "UNMAP"}
  /\ \/ op[r] = Called(CallOf(x, stored[r]), b) \/ op[r] = Over(CallOf(x, stored[r]), b, "ok")
     \/ x \in {"clear", "UNMAP"} /\ op[r] = Over(CallOf(x, stored[r]), b, "refused")
  /\ x = "put" => b \in held[r]

LEMMA StandsAt ==
  ASSUME SurvivorInv, NEW r \in Clients \ gaveUp, op[r] # NoOp
  PROVE  status[r] = "running" /\ \E x, b : Standing(r, x, b)
  <1>1. pc[r] \in 1 .. 14 /\ CallStands(r)
    BY DEF SurvivorInv, Survives
  <1>2. PICK i \in 1 .. 13 : i = pc[r]
    BY <1>1 DEF CallStands
  <1>3. PICK x, b : Program(r)[i] = <<x, b>> /\ b \in Blocks /\ Place(r, i, x, b)
    BY Instructions
  <1>4. Program(r)[pc[r]][1] = x /\ Program(r)[pc[r]][2] = b
    BY <1>2, <1>3
  <1>5. x \in {"MAP", "put", "take", "clear", "UNMAP"}
    BY <1>3 DEF Place
  <1>. QED BY <1>1, <1>2, <1>3, <1>4, <1>5 DEF CallStands, Standing

\* An instruction that fills a block is at the place where it is filled.
LEMMA PutIsFill ==
  ASSUME NEW r \in Clients, NEW i, NEW b \in Blocks, Place(r, i, "put", b)
  PROVE  Fills(r, b) /\ i = FillAt(b)
  BY DEF Place, Fills, FillAt

\* No other instruction is there.
LEMMA FillIsPut ==
  ASSUME NEW r \in Clients, NEW i, NEW x, NEW d, Place(r, i, x, d), x # "put", NEW b \in Blocks, Fills(r, b)
  PROVE  i # FillAt(b)
  <1>1. b = "text" \/ b = "size" \/ b = "spaces" \/ b = "words"
    BY Names3
  <1>2. r = IF b = "words" THEN Reader2 ELSE Reader1
    BY <1>1 DEF Fills, From
  <1>3. FillAt(b) = IF b = "text" THEN 5 ELSE IF b = "size" THEN 6 ELSE 7
    BY DEF FillAt, PutAt
  <1>4. To("size") = Reader2 /\ To("spaces") = Reader2 /\ To("words") = Reader1
    BY Names3 DEF To, From, Other
  <1>5. d \notin {"size", "spaces", "words"} => To(d) = Reader2 /\ TakeAt(d) = 8
    BY Names3 DEF To, From, Other, TakeAt
  <1>6. /\ d = "size" => TakeAt(d) = 4
        /\ d # "size" => TakeAt(d) = 8
    BY DEF TakeAt
  <1>. QED BY <1>1, <1>2, <1>3, <1>4, <1>5, <1>6, Names3 DEF Place

OthersSame(r) ==
  /\ DOMAIN op' = Clients /\ DOMAIN status' = Clients
  /\ \A c \in Clients : c # r => op'[c] = op[c] /\ status'[c] = status[c]

\* What a step of the program that is left has to keep: the other is gone.
LEMMA LeftAlone ==
  ASSUME SurvivorInv, gaveUp # {}, NEW r \in Clients \ gaveUp,
         gaveUp' = gaveUp, Survives(r)', left' \subseteq left,
         \E n \in 1 .. 14 : pc' = [pc EXCEPT ![r] = n],
         \E v \in BOOLEAN : stored' = [stored EXCEPT ![r] = v],
         OthersSame(r),
         \E h \in SUBSET Blocks : held' = [held EXCEPT ![r] = h]
  PROVE  SurvivorInv'
  <1>1. PICK n \in 1 .. 14, v \in BOOLEAN, h \in SUBSET Blocks :
          pc' = [pc EXCEPT ![r] = n] /\ stored' = [stored EXCEPT ![r] = v] /\ held' = [held EXCEPT ![r] = h]
    OBVIOUS
  <1>2. /\ DOMAIN op' = Clients /\ DOMAIN status' = Clients
        /\ \A c \in Clients : c # r => op'[c] = op[c] /\ status'[c] = status[c]
    BY DEF OthersSame
  <1>3. /\ pc' \in [Clients -> 1 .. 14] /\ held' \in [Clients -> SUBSET Blocks]
        /\ DOMAIN op' = Clients /\ DOMAIN status' = Clients /\ stored' \in [Clients -> BOOLEAN]
    BY <1>1, <1>2 DEF SurvivorInv
  <1>4. \A g \in gaveUp : g # r /\ status'[g] = "1" /\ op'[g] = NoOp
    BY <1>2 DEF SurvivorInv
  <1>5. \A c \in Clients \ gaveUp : c = r
    <2>1. PICK g \in gaveUp : TRUE
      OBVIOUS
    <2>2. g \in Clients /\ g # r
      BY <2>1 DEF SurvivorInv
    <2>. QED BY <2>1, <2>2, Names3
  <1>. QED BY <1>3, <1>4, <1>5 DEF SurvivorInv

\* The program is not in a call, before or after: it stores or takes a value.
LEMMA ApplicationSurvives ==
  ASSUME SurvivorInv, gaveUp # {}, NEW r \in Clients \ gaveUp, NEW b \in Blocks,
         Put(r, b) \/ Taken(r, b) \/ Clear(r, b)
  PROVE  SurvivorInv' /\ gaveUp' = gaveUp
  <1>1. PICK n : n = pc[r] /\ n \in 1 .. 14
    BY DEF SurvivorInv
  <1>2. /\ op[r] = NoOp /\ status[r] = "running" /\ n <= 13
        /\ UNCHANGED <<op, status, gaveUp, held, fresh, left>>
        /\ \/ UNCHANGED pc /\ stored' = [stored EXCEPT ![r] = TRUE]
           \/ pc' = [pc EXCEPT ![r] = n + 1] /\ stored' = [stored EXCEPT ![r] = FALSE]
    <2>1. Len(Program(r)) = 13
      BY Names3, Program1, Program2
    <2>. QED BY <1>1, <2>1 DEF Put, Taken, Clear, At, Store, Done, Advance, vars
  <1>3. PICK m \in {n, n + 1} : pc' = [pc EXCEPT ![r] = m] /\ pc'[r] = m /\ m \in 1 .. 14
    BY <1>1, <1>2 DEF SurvivorInv
  <1>4. Survives(r)'
    <2>1. Survives(r) /\ op'[r] = NoOp /\ op[r] = NoOp
      BY <1>2 DEF SurvivorInv
    <2>2. ASSUME NEW d \in Blocks, Fills(r, d), ~Wrote(r, FillAt(d))' PROVE ~Wrote(r, FillAt(d))
      <3>1. FillAt(d) \in {5, 6, 7}
        BY FillFacts
      <3>2. PICK k : k = FillAt(d) /\ k \in {5, 6, 7}
        BY <3>1
      <3>3. ~(m > k) => ~(n > k)
        BY <1>1, <1>3, <3>2
      <3>4. NoOp.state # "ok"
        BY DEF NoOp
      <3>. QED BY <1>1, <1>3, <2>1, <2>2, <3>2, <3>3, <3>4 DEF Wrote
    <2>. QED BY <1>2, <2>1, <2>2 DEF Survives, CallStands
  <1>5. /\ \E v \in BOOLEAN : stored' = [stored EXCEPT ![r] = v]
        /\ OthersSame(r)
        /\ held[r] \in SUBSET Blocks /\ held' = [held EXCEPT ![r] = held[r]]
    <2>1. OthersSame(r)
      BY <1>2 DEF SurvivorInv, OthersSame
    <2>2. held[r] \in SUBSET Blocks /\ held' = [held EXCEPT ![r] = held[r]]
      BY <1>2 DEF SurvivorInv
    <2>3. TRUE \in BOOLEAN /\ FALSE \in BOOLEAN
      OBVIOUS
    <2>. QED BY <1>2, <2>1, <2>2, <2>3
  <1>. QED BY <1>2, <1>3, <1>4, <1>5, LeftAlone

\* It begins a call.
LEMMA BeginSurvives ==
  ASSUME SurvivorInv, gaveUp # {}, NEW r \in Clients \ gaveUp, NEW b \in Blocks,
         \/ CallMap(r, b) \/ CallUnmap(r, b) \/ CallWrite(r, b)
         \/ TakeWait(r, b) \/ TakeUpdate(r, b)
  PROVE  SurvivorInv' /\ gaveUp' = gaveUp
  <1>1. PICK n : n = pc[r] /\ n \in 1 .. 14
    BY DEF SurvivorInv
  <1>2. stored[r] = TRUE \/ stored[r] = FALSE
    BY DEF SurvivorInv
  <1>3. PICK x : At(r, x, b) /\ Begin(r, CallOf(x, stored[r]), b) /\ UNCHANGED progVars
    BY <1>2, CallNames DEF CallMap, CallUnmap, CallWrite, TakeWait, TakeUpdate
  <1>4. /\ op[r] = NoOp /\ status[r] = "running" /\ n <= 13 /\ Program(r)[n] = <<x, b>>
        /\ CallOf(x, stored[r]) = "MAP" <=> b \notin held[r]
        /\ op' = [op EXCEPT ![r] = Called(CallOf(x, stored[r]), b)]
        /\ UNCHANGED <<status, gaveUp, held, fresh, left, pc, stored>>
    <2>1. Len(Program(r)) = 13
      BY Names3, Program1, Program2
    <2>. QED BY <1>1, <1>3, <2>1 DEF At, Begin, progVars
  <1>5. Survives(r)'
    <2>1. Survives(r) /\ op'[r] = Called(CallOf(x, stored[r]), b)
      BY <1>4 DEF SurvivorInv
    <2>2. Called(CallOf(x, stored[r]), b).state # "ok" /\ NoOp.state # "ok"
      BY DEF Called, NoOp
    <2>3. \A d \in Blocks : ~Wrote(r, FillAt(d))' => ~Wrote(r, FillAt(d))
      BY <1>4, <2>1, <2>2 DEF Wrote
    <2>4. x = "put" => b \in held[r]
      BY <1>4, CallNames
    <2>5. CallStands(r)'
      BY <1>1, <1>4, <2>1, <2>4 DEF CallStands
    <2>. QED BY <1>4, <2>1, <2>3, <2>5 DEF Survives
  <1>6. /\ pc' = [pc EXCEPT ![r] = n] /\ stored' = [stored EXCEPT ![r] = stored[r]] /\ stored[r] \in BOOLEAN
        /\ OthersSame(r)
        /\ held[r] \in SUBSET Blocks /\ held' = [held EXCEPT ![r] = held[r]]
    BY <1>1, <1>4 DEF SurvivorInv, OthersSame
  <1>. QED BY <1>1, <1>4, <1>5, <1>6, LeftAlone

\* A call returns: of a write that fills a block, or a MAP, not refused.
LEMMA BackSurvives ==
  ASSUME SurvivorInv, gaveUp # {}, NEW r \in Clients \ gaveUp, Back(r)
  PROVE  SurvivorInv' /\ gaveUp' = gaveUp
  <1>1. /\ op[r].state \in {"ok", "refused"} /\ op' = [op EXCEPT ![r] = NoOp]
        /\ UNCHANGED <<held, fresh, left, gaveUp>>
    BY DEF Back, Return
  <1>2. op[r] # NoOp
    BY <1>1 DEF NoOp
  <1>3. PICK x, b : status[r] = "running" /\ Standing(r, x, b)
    BY <1>2, StandsAt
  <1>4. PICK n : n = pc[r] /\ n \in 1 .. 13 /\ Place(r, n, x, b) /\ Program(r)[n] = <<x, b>>
    BY <1>3 DEF Standing
  <1>5. /\ op[r].name = CallOf(x, stored[r])
        /\ x \notin {"clear", "UNMAP"} => op[r].state = "ok"
    BY <1>1, <1>3 DEF Standing, Called, Over
  <1>6. status' = [status EXCEPT ![r] = "running"]
    <2>1. ~(op[r].state = "refused" /\ op[r].name \in {"MAP", "WRITE"} /\ Program(r)[pc[r]][1] # "clear")
      <3>1. Program(r)[pc[r]][1] = x
        BY <1>4
      <3>. QED BY <1>5, <3>1, CallNames
    <2>. QED BY <1>3, <2>1 DEF Back
  <1>7. \/ x = "take" /\ UNCHANGED pc /\ \E v \in BOOLEAN : stored' = [stored EXCEPT ![r] = v]
        \/ x # "take" /\ pc' = [pc EXCEPT ![r] = n + 1] /\ stored' = [stored EXCEPT ![r] = FALSE]
    <2>1. stored[r] = TRUE \/ stored[r] = FALSE
      BY DEF SurvivorInv
    <2>2. CASE x = "take"
      <3>1. op[r].name = "WAIT" \/ op[r].name = "UPDATE"
        BY <1>5, <2>1, <2>2, CallNames
      <3>2. CASE op[r].name = "WAIT"
        BY <2>2, <3>2 DEF Back, Done
      <3>3. CASE op[r].name = "UPDATE"
        BY <2>2, <3>3 DEF Back
      <3>. QED BY <3>1, <3>2, <3>3
    <2>3. CASE x # "take"
      <3>1. op[r].name \notin {"WAIT", "UPDATE"}
        BY <1>3, <1>5, <2>3, CallNames DEF Standing
      <3>2. Advance(r)
        BY <3>1 DEF Back
      <3>. QED BY <1>4, <2>3, <3>2 DEF Advance
    <2>. QED BY <2>2, <2>3
  <1>8. PICK m : /\ pc' = [pc EXCEPT ![r] = m] /\ pc'[r] = m /\ m \in 1 .. 14
                 /\ (x = "take" /\ m = n) \/ m = n + 1
    <2>1. pc \in [Clients -> 1 .. 14]
      BY DEF SurvivorInv
    <2>2. CASE x = "take" /\ UNCHANGED pc
      BY <1>4, <2>1, <2>2
    <2>3. CASE pc' = [pc EXCEPT ![r] = n + 1]
      <3>1. n + 1 \in 1 .. 14
        BY <1>4
      <3>2. PICK k \in 1 .. 14 : k = n + 1
        BY <3>1
      <3>. QED BY <2>1, <2>3, <3>2
    <2>. QED BY <1>7, <2>2, <2>3
  <1>9. Survives(r)'
    <2>1. Survives(r) /\ op'[r] = NoOp /\ status'[r] = "running" /\ NoOp.state # "ok"
      BY <1>1, <1>6 DEF SurvivorInv, NoOp
    <2>2. ASSUME NEW d \in Blocks, Fills(r, d), ~Wrote(r, FillAt(d))' PROVE ~Wrote(r, FillAt(d))
      <3>1. PICK k : k = FillAt(d) /\ k \in {5, 6, 7}
        BY FillFacts
      <3>2. ~(m > k)
        BY <1>8, <2>2, <3>1 DEF Wrote
      <3>3. CASE x = "take"
        <4>1. n # k
          BY <1>4, <2>2, <3>1, <3>3, FillIsPut
        <4>2. ~(n > k)
          BY <1>4, <1>8, <3>1, <3>2
        <4>. QED BY <1>4, <3>1, <4>1, <4>2 DEF Wrote
      <3>4. CASE m = n + 1
        <4>1. ~(n > k) /\ n # k
          BY <1>4, <3>1, <3>2, <3>4
        <4>. QED BY <1>4, <3>1, <4>1 DEF Wrote
      <3>. QED BY <1>8, <3>3, <3>4
    <2>. QED BY <1>1, <2>1, <2>2 DEF Survives, CallStands
  <1>10. /\ \E v \in BOOLEAN : stored' = [stored EXCEPT ![r] = v]
         /\ held[r] \in SUBSET Blocks /\ held' = [held EXCEPT ![r] = held[r]]
         /\ OthersSame(r)
    BY <1>1, <1>6, <1>7 DEF SurvivorInv, OthersSame
  <1>. QED BY <1>1, <1>6, <1>8, <1>9, <1>10, LeftAlone

\* It ends, having printed.
LEMMA EndSurvives ==
  ASSUME SurvivorInv, gaveUp # {}, NEW r \in Clients \ gaveUp, End(r)
  PROVE  SurvivorInv' /\ gaveUp' = gaveUp
  <1>1. /\ op[r] = NoOp /\ status[r] = "running"
        /\ status' = [status EXCEPT ![r] = IF @ = "failing" THEN "1" ELSE "0"]
        /\ op' = [op EXCEPT ![r] = NoOp] /\ held' = [held EXCEPT ![r] = {}]
        /\ UNCHANGED <<pc, stored, gaveUp>>
    BY DEF End, Quit, SurvivorInv, Survives
  <1>2. left' = left
    <2>1. \A b \in Blocks : op[r] # Called("WRITE", b)
      BY <1>1 DEF NoOp, Called
    <2>. QED BY <2>1 DEF End, Quit
  <1>3. Survives(r)'
    <2>1. op'[r] = NoOp /\ held'[r] = {} /\ status'[r] = "0"
      BY <1>1 DEF SurvivorInv
    <2>. QED BY <2>1 DEF Survives, CallStands
  <1>4. /\ pc' = [pc EXCEPT ![r] = pc[r]] /\ pc[r] \in 1 .. 14
        /\ stored' = [stored EXCEPT ![r] = stored[r]] /\ stored[r] \in BOOLEAN
        /\ OthersSame(r)
    BY <1>1 DEF SurvivorInv, OthersSame
  <1>. QED BY <1>1, <1>2, <1>3, <1>4, LeftAlone

\* A call takes effect.  A write that fills a block finds its copy fresh.
LEMMA EffectSurvives ==
  ASSUME SurvivorInv, gaveUp # {}, NEW r \in Clients \ gaveUp, NEW b \in Blocks, Effect(r, b)
  PROVE  SurvivorInv' /\ gaveUp' = gaveUp
  <1>1. PICK name, v : /\ op[r] = Called(name, b) /\ op' = [op EXCEPT ![r] = Over(name, b, v)]
                       /\ v = "ok" \/ (v = "refused" /\ name \in {"UNMAP", "WRITE"})
                       /\ v = "refused" /\ name = "WRITE" => <<r, b>> \notin fresh
    BY DEF Effect, Map, Unmap, Update, Write, Wait, Finish
  <1>2. UNCHANGED <<pc, stored, status, gaveUp>>
    BY DEF Effect, progVars
  <1>3. op[r] # NoOp
    BY <1>1 DEF Called, NoOp
  <1>4. PICK x, d : status[r] = "running" /\ Standing(r, x, d)
    BY <1>3, StandsAt
  <1>5. d = b /\ name = CallOf(x, stored[r]) /\ Survives(r)
    BY <1>1, <1>4 DEF Standing, Called, Over, SurvivorInv
  <1>6. x # "UNMAP" => name # "UNMAP"
    <2>1. stored[r] = TRUE \/ stored[r] = FALSE
      BY DEF SurvivorInv
    <2>. QED BY <1>4, <1>5, <2>1, CallNames DEF Standing
  <1>7. op[r].state # "ok"
    BY <1>1 DEF Called
  <1>8. x = "put" => v = "ok"
    <2>. SUFFICES ASSUME x = "put" PROVE <<r, b>> \in fresh /\ name # "UNMAP"
      BY <1>1
    <2>1. b \in held[r] /\ Place(r, pc[r], "put", b)
      BY <1>4, <1>5 DEF Standing
    <2>2. Fills(r, b) /\ pc[r] = FillAt(b)
      BY <2>1, PutIsFill
    <2>3. ~(pc[r] > FillAt(b))
      <3>1. PICK k : k = FillAt(b) /\ k \in {5, 6, 7}
        BY FillFacts
      <3>. QED BY <2>2, <3>1
    <2>4. ~Wrote(r, FillAt(b))
      BY <1>7, <2>3 DEF Wrote
    <2>. QED BY <1>5, <1>6, <2>1, <2>2, <2>4 DEF Survives
  <1>9. v = "refused" => x \in {"clear", "UNMAP"}
    <2>1. name = "WRITE" => x \in {"put", "clear"}
      <3>1. stored[r] = TRUE \/ stored[r] = FALSE
        BY DEF SurvivorInv
      <3>. QED BY <1>4, <1>5, <3>1, CallNames DEF Standing
    <2>. QED BY <1>1, <1>6, <1>8, <2>1
  <1>10. /\ left' \subseteq left
         /\ \E h \in SUBSET Blocks : held' = [held EXCEPT ![r] = h]
         /\ \A y \in Blocks : y \in held'[r] /\ (y \in held[r] => <<r, y>> \in fresh) => <<r, y>> \in fresh'
         /\ x # "UNMAP" => held[r] \subseteq held'[r]
    <2>0. held \in [Clients -> SUBSET Blocks] /\ held[r] \in SUBSET Blocks
      BY DEF SurvivorInv
    <2>1. CASE Map(r, b)
      BY <2>0, <2>1 DEF Map
    <2>2. CASE Unmap(r, b)
      <3>1. name = "UNMAP"
        BY <1>1, <2>2 DEF Unmap, Finish, Called
      <3>. QED BY <1>6, <2>0, <2>2, <3>1 DEF Unmap
    <2>3. CASE Update(r, b)
      BY <2>0, <2>3 DEF Update
    <2>4. CASE Write(r, b)
      BY <2>0, <2>4 DEF Write, Overwrite
    <2>5. CASE Wait(r, b)
      BY <2>0, <2>5 DEF Wait
    <2>. QED BY <2>1, <2>2, <2>3, <2>4, <2>5 DEF Effect
  <1>11. op'[r] = Over(name, b, v)
    BY <1>1 DEF SurvivorInv
  <1>12. Survives(r)'
    <2>1. CallStands(r)'
      <3>1. x = "put" => b \in held'[r]
        BY <1>4, <1>5, <1>10 DEF Standing
      <3>2. pc[r] <= 13 /\ Program(r)[pc[r]][1] = x /\ Program(r)[pc[r]][2] = b
        BY <1>4, <1>5 DEF Standing
      <3>3. op'[r] = Over(name, b, "ok") \/ (x \in {"clear", "UNMAP"} /\ op'[r] = Over(name, b, "refused"))
        BY <1>1, <1>9, <1>11
      <3>. QED BY <1>2, <1>4, <1>5, <3>1, <3>2, <3>3 DEF CallStands
    <2>2. ASSUME NEW y \in Blocks, Fills(r, y), y \in held'[r], ~Wrote(r, FillAt(y))'
          PROVE  <<r, y>> \in fresh'
      <3>1. ~Wrote(r, FillAt(y))
        BY <1>2, <1>7, <2>2 DEF Wrote
      <3>2. y \in held[r] => <<r, y>> \in fresh
        BY <1>5, <2>2, <3>1 DEF Survives
      <3>. QED BY <1>10, <2>2, <3>2
    <2>. QED BY <1>2, <1>5, <2>1, <2>2 DEF Survives
  <1>13. /\ pc' = [pc EXCEPT ![r] = pc[r]] /\ pc[r] \in 1 .. 14
         /\ stored' = [stored EXCEPT ![r] = stored[r]] /\ stored[r] \in BOOLEAN
         /\ OthersSame(r)
    BY <1>1, <1>2 DEF SurvivorInv, OthersSame
  <1>. QED BY <1>1, <1>2, <1>10, <1>12, <1>13, LeftAlone

LEMMA SurvivorStep ==
  ASSUME SurvivorInv, gaveUp # {}, [RNext]_allVars
  PROVE  SurvivorInv' /\ gaveUp' # {}
  <1>1. ~Again
    <2>1. PICK g \in gaveUp : g \in Clients /\ status[g] = "1"
      BY DEF SurvivorInv
    <2>. QED BY <2>1 DEF Again
  <1>2. CASE Late
    BY <1>2, LateKeeps
  <1>3. ASSUME NEW r \in Clients, GiveUp(r) PROVE SurvivorInv' /\ gaveUp' # {}
    BY <1>3, GiveUpKeeps
  <1>4. ASSUME NEW r \in Clients, ProgramStep(r) PROVE SurvivorInv' /\ gaveUp' # {}
    <2>1. ASSUME r \in gaveUp PROVE FALSE
      <3>1. status[r] = "1" /\ op[r] = NoOp
        BY <2>1 DEF SurvivorInv
      <3>2. ~Back(r)
        BY <3>1 DEF Back, Return, NoOp
      <3>3. ~End(r)
        BY <3>1 DEF End
      <3>4. ASSUME NEW b \in Blocks, Instruction(r, b) PROVE FALSE
        <4>1. ~Effect(r, b)
          BY <3>1 DEF Effect, Map, Unmap, Update, Write, Wait, Finish, NoOp, Called
        <4>. QED BY <3>1, <3>4, <4>1 DEF Instruction, CallMap, CallUnmap, CallWrite, Put, TakeWait,
                   TakeUpdate, Taken, Clear, At
      <3>. QED BY <1>4, <3>2, <3>3, <3>4 DEF ProgramStep
    <2>2. r \in Clients \ gaveUp
      BY <2>1
    <2>3. CASE Back(r)
      BY <2>2, <2>3, BackSurvives
    <2>4. CASE End(r)
      BY <2>2, <2>4, EndSurvives
    <2>5. ASSUME NEW b \in Blocks, Instruction(r, b) PROVE SurvivorInv' /\ gaveUp' # {}
      <3>1. CASE \/ CallMap(r, b) \/ CallUnmap(r, b) \/ CallWrite(r, b)
                 \/ TakeWait(r, b) \/ TakeUpdate(r, b)
        BY <2>2, <3>1, BeginSurvives
      <3>2. CASE Put(r, b) \/ Taken(r, b) \/ Clear(r, b)
        BY <2>2, <3>2, ApplicationSurvives
      <3>3. CASE Effect(r, b)
        BY <2>2, <3>3, EffectSurvives
      <3>. QED BY <2>5, <3>1, <3>2, <3>3 DEF Instruction
    <2>. QED BY <1>4, <2>3, <2>4, <2>5 DEF ProgramStep
  <1>5. CASE UNCHANGED allVars
    <2>1. UNCHANGED <<held, fresh, op, left, pc, stored, status, gaveUp>>
      BY <1>5 DEF allVars, vars, progVars
    <2>. QED BY <2>1 DEF SurvivorInv, Survives, CallStands, Wrote
  <1>. QED BY <1>1, <1>2, <1>3, <1>4, <1>5 DEF RNext

-----------------------------------------------------------------------------
\* Until a call times out, and from then on.
TestInv ==
  \/ gaveUp = {} /\ left = {} /\ ReadersInv
  \/ gaveUp # {} /\ SurvivorInv

LEMMA TestInvariant == RSpec => []TestInv
  <1>1. RInit => TestInv
    BY ReadersStart DEF RInit, Init, TestInv
  <1>2. TestInv /\ [RNext]_allVars => TestInv'
    <2>. SUFFICES ASSUME TestInv, [RNext]_allVars PROVE TestInv'
      OBVIOUS
    <2>1. CASE gaveUp # {} /\ SurvivorInv
      BY <2>1, SurvivorStep DEF TestInv
    <2>2. CASE gaveUp = {} /\ left = {} /\ ReadersInv
      <3>1. CASE \E r \in Clients : GiveUp(r)
        BY <2>2, <3>1, BothSurvive, GiveUpKeeps DEF TestInv
      <3>2. ~Late
        BY <2>2 DEF Late
      <3>3. CASE \/ Again \/ \E r \in Clients : ProgramStep(r)
                 \/ UNCHANGED allVars
        BY <2>2, <3>3, ReadersStep DEF TestInv
      <3>. QED BY <3>1, <3>2, <3>3 DEF RNext
    <2>. QED BY <2>1, <2>2 DEF TestInv
  <1>. QED BY <1>1, <1>2, PTL DEF RSpec

\* Who may write which block, what it holds, and whose copy of it is fresh, at
\* each instruction of the two programs, as long as no call of theirs has taken
\* 20 seconds (reader1.cpp, reader2.cpp).
THEOREM ReadersInvariant == RSpec => [](gaveUp = {} => ReadersInv)
  <1>1. TestInv => (gaveUp = {} => ReadersInv)
    BY DEF TestInv
  <1>. QED BY <1>1, TestInvariant, PTL

LEMMA EndedWell == TestInv /\ Ended => ReadersInv
  <1>1. SurvivorInv /\ gaveUp # {} => ~Ended
    BY DEF SurvivorInv, Ended
  <1>. QED BY <1>1 DEF TestInv

\* Both programs print the same, and about the text of this round, however
\* many rounds the test runs: nothing a round left in the blocks reaches the
\* next one (readertest).  Both have ended well only if neither has given up.
THEOREM OutputsAlwaysAgree == RSpec => []OutputsAgree
  <1>1. TestInv => OutputsAgree
    <2>1. SUFFICES ASSUME ReadersInv, Ended
                   PROVE  /\ out[Reader1] = out[Reader2]
                          /\ out[Reader1].size = round /\ out[Reader1].words = round
      BY EndedWell DEF OutputsAgree
    <2>2. /\ \A b \in Mails : out[To(b)][b] = out[From(b)][b]
          /\ \A b \in Mails : b # "spaces" => out[From(b)][b] = round
      BY <2>1, AtTheEnd
    <2>3. \A b \in Mails : out[Reader1][b] = out[Reader2][b]
      <3>1. \A b \in Mails : {From(b), To(b)} = {Reader1, Reader2}
        BY DEF From, To, Other
      <3>. QED BY <2>2, <3>1
    <2>4. out[Reader1] \in [Mails -> Values] /\ out[Reader2] \in [Mails -> Values]
      BY <2>1, Names3 DEF ReadersInv, ReadersTypes
    <2>5. out[Reader1] = out[Reader2]
      BY <2>3, <2>4
    <2>6. "size" \in Mails /\ "words" \in Mails /\ From("size") = Reader1 /\ From("words") = Reader2
      BY DEF Mails, From
    <2>7. out[Reader1]["size"] = round /\ out[Reader2]["words"] = round
      BY <2>2, <2>6
    <2>. QED BY <2>5, <2>7
  <1>. QED BY <1>1, TestInvariant, PTL

\* When both programs have ended every mailbox is empty for the next round:
\* the writes whose result they ignore have taken effect too.
THEOREM SlateAlwaysClean == RSpec => []CleanSlate
  <1>1. TestInv => CleanSlate
    BY EndedWell, AtTheEnd, Names3 DEF CleanSlate
  <1>. QED BY <1>1, TestInvariant, PTL

\* No dm_block_map or dm_block_write whose result they look at is refused, not
\* even once the other has given up with a write under way: a program ends with
\* status 1 only if a call of its own has taken 20 seconds.
THEOREM NoneEverFails == RSpec => []NoneFails
  <1>1. TestInv => NoneFails
    <2>1. ReadersInv => NoneFails
      BY DEF ReadersInv, StatusOK, NoneFails
    <2>2. SurvivorInv => NoneFails
      BY DEF SurvivorInv, Survives, NoneFails
    <2>. QED BY <2>1, <2>2 DEF TestInv
  <1>. QED BY <1>1, TestInvariant, PTL
=============================================================================
