--------------------------- MODULE FramingProofs ---------------------------
(***************************************************************************)
(* Safety of the framing, for any number of clients, calls and pieces.     *)
(* What is in a stream are consecutive pieces of consecutive messages, and *)
(* a thread, which ends at its first error, never loses its place among    *)
(* them.  A client can lose its place, but not go back: what it has still  *)
(* to read is newer than every reply it has taken.                         *)
(***************************************************************************)
EXTENDS Framing, SequenceTheorems, TLAPS

\* Pieces in the order they were sent, from anywhere to anywhere.
Orderly(s) ==
  /\ \A i \in DOMAIN s : \A k \in 0 .. Parts - s[i][2] :
       i + k <= Len(s) => s[i + k] = <<s[i][1], s[i][2] + k>>
  /\ \A i \in DOMAIN s : s[i][2] = Parts /\ i < Len(s) => s[i + 1] = <<s[i][1] + 1, 0>>
  /\ \A i, j \in DOMAIN s : i <= j => s[i][1] <= s[j][1]

\* The last piece is the end of message m.
EndsWith(s, m) == s # <<>> => s[Len(s)] = <<m, Parts>>

\* Requests: the thread has handled h, the client sent m, and the next piece is
\* the one the thread takes it for.
Requests(s, e, h, m, runs) ==
  /\ Orderly(s) /\ \A i \in DOMAIN s : s[i][1] <= m
  /\ e \in {"length", "text"}
  /\ s # <<>> => s[1] = IF e = "length" THEN <<h + 1, 0>> ELSE <<h + 1, 1>>
  /\ runs => EndsWith(s, m) /\ (s = <<>> => e = "length" /\ m = h)

\* Replies: what is not read is newer than what was taken.
Replies(s, e, h, q) ==
  /\ Orderly(s) /\ EndsWith(s, h)
  /\ \A i \in DOMAIN s : s[i][1] <= h /\ \A j \in DOMAIN q : q[j] < s[i][1]
  /\ e = "text" => s # <<>> /\ s[1][2] = 1

RequestsOK(c) ==
  Serves(c) => Requests(stream[c]["request"], expect[c]["request"],
                        Len(handled[c]), made[c], Runs(c))
RepliesOK(c) ==
  Runs(c) => Replies(stream[c]["reply"], expect[c]["reply"], Len(handled[c]), taken[c])

CountsOK(c) ==
  /\ \A i \in DOMAIN handled[c] : handled[c][i] = i
  /\ Len(handled[c]) <= made[c]
  /\ \A j \in DOMAIN taken[c] : taken[c][j] <= Len(handled[c])
  /\ Increasing(taken[c])

ClientOK(c) == RequestsOK(c) /\ RepliesOK(c) /\ CountsOK(c)
FramingInv == TypeOK /\ \A c \in Clients : ClientOK(c)

-----------------------------------------------------------------------------
(* Streams. *)

LEMMA StreamFacts ==
  ASSUME NEW s \in Seq(Piece)
  PROVE  /\ Len(s) \in Nat /\ DOMAIN s = 1 .. Len(s) /\ Parts \in Nat /\ Parts > 0
         /\ s = <<>> <=> Len(s) = 0
         /\ s # <<>> => Head(s) = s[1]
         /\ \A i \in 1 .. Len(s) :
              /\ s[i] \in Piece /\ s[i][1] \in 1 .. MaxCalls /\ s[i][1] \in Nat
              /\ s[i][2] \in Nat /\ s[i][2] <= Parts /\ s[i] = <<s[i][1], s[i][2]>>
  <1>1. Parts \in Nat /\ Parts > 0 /\ MaxCalls \in Nat
    BY FramingAssumption
  <1>2. ASSUME NEW p \in Piece
        PROVE  /\ p[1] \in 1 .. MaxCalls /\ p[1] \in Nat
               /\ p[2] \in Nat /\ p[2] <= Parts /\ p = <<p[1], p[2]>>
    BY <1>1 DEF Piece
  <1>3. \A i \in 1 .. Len(s) : s[i] \in Piece
    OBVIOUS
  <1>. QED BY <1>1, <1>2, <1>3

LEMMA UpToEnd ==
  ASSUME NEW i \in Nat, NEW l \in Nat, i <= l, NEW a \in Nat, NEW p \in Nat, l - i <= p - a
  PROVE  l - i \in 0 .. p - a /\ i + (l - i) = l
  OBVIOUS

LEMMA NotPastEnd ==
  ASSUME NEW i \in Nat, NEW l \in Nat, NEW j \in Nat, i + j = l, NEW a \in Nat, NEW p \in Nat,
         a + j = p, NEW k \in 0 .. p - a
  PROVE  i + k <= l
  OBVIOUS

LEMMA Shift ==
  ASSUME NEW i \in Nat, NEW n \in Nat, NEW a \in Nat, NEW b \in Nat, a = b - n, i < a
  PROVE  i + n < b /\ (i + n) + 1 = (i + 1) + n
  OBVIOUS

LEMMA OrderlyEmpty == Orderly(<<>>) /\ \A m : EndsWith(<<>>, m)
  <1>1. PICK s : s = <<>>
    OBVIOUS
  <1>2. DOMAIN s = {}
    BY <1>1
  <1>. QED BY <1>1, <1>2 DEF Orderly, EndsWith

\* t is what is left of s after n pieces.
LEMMA OrderlySuffix ==
  ASSUME NEW s \in Seq(Piece), Orderly(s), NEW n \in 0 .. Len(s), NEW t \in Seq(Piece),
         Len(t) = Len(s) - n, \A i \in 1 .. Len(t) : t[i] = s[i + n]
  PROVE  Orderly(t) /\ \A m : EndsWith(s, m) => EndsWith(t, m)
  <1>1. /\ Len(s) \in Nat /\ DOMAIN s = 1 .. Len(s) /\ Len(t) \in Nat /\ DOMAIN t = 1 .. Len(t)
        /\ Parts \in Nat /\ n \in Nat
        /\ t # <<>> => Len(t) > 0 /\ s # <<>>
    BY StreamFacts
  <1>2. \A i \in DOMAIN t : i + n \in DOMAIN s /\ t[i] = s[i + n] /\ s[i + n][2] \in Nat
    BY <1>1, StreamFacts
  <1>3. ASSUME NEW i \in DOMAIN t, NEW k \in 0 .. Parts - t[i][2], i + k <= Len(t)
        PROVE  t[i + k] = <<t[i][1], t[i][2] + k>>
    <2>1. k \in 0 .. Parts - s[i + n][2] /\ (i + n) + k <= Len(s) /\ (i + n) + k = (i + k) + n
      BY <1>1, <1>2, <1>3
    <2>2. i + k \in DOMAIN t
      BY <1>1, <1>2, <1>3
    <2>3. s[(i + n) + k] = <<s[i + n][1], s[i + n][2] + k>>
      BY <1>2, <2>1 DEF Orderly
    <2>. QED BY <1>2, <2>1, <2>2, <2>3
  <1>4. ASSUME NEW i \in DOMAIN t, t[i][2] = Parts, i < Len(t)
        PROVE  t[i + 1] = <<t[i][1] + 1, 0>>
    <2>1. i \in Nat /\ i + 1 \in DOMAIN t
      BY <1>1, <1>4
    <2>2. i + n < Len(s) /\ (i + n) + 1 = (i + 1) + n
      BY <1>1, <1>4, <2>1, Shift
    <2>. QED BY <1>2, <1>4, <2>1, <2>2 DEF Orderly
  <1>5. ASSUME NEW i \in DOMAIN t, NEW j \in DOMAIN t, i <= j
        PROVE  t[i][1] <= t[j][1]
    <2>1. i + n <= j + n
      BY <1>1, <1>5
    <2>. QED BY <1>2, <2>1 DEF Orderly
  <1>6. ASSUME NEW m, EndsWith(s, m), t # <<>> PROVE t[Len(t)] = <<m, Parts>>
    <2>1. Len(t) \in DOMAIN t /\ Len(t) + n = Len(s)
      BY <1>1, <1>6
    <2>. QED BY <1>1, <1>2, <1>6, <2>1 DEF EndsWith
  <1>. QED BY <1>3, <1>4, <1>5, <1>6 DEF Orderly, EndsWith

LEMMA OrderlyPrefix ==
  ASSUME NEW s \in Seq(Piece), Orderly(s), NEW t \in Seq(Piece),
         Len(t) <= Len(s), \A i \in 1 .. Len(t) : t[i] = s[i]
  PROVE  Orderly(t)
  <1>1. /\ Len(s) \in Nat /\ DOMAIN s = 1 .. Len(s) /\ Len(t) \in Nat /\ DOMAIN t = 1 .. Len(t)
        /\ Parts \in Nat /\ DOMAIN t \subseteq DOMAIN s
    BY StreamFacts
  <1>2. ASSUME NEW i \in DOMAIN t, NEW k \in 0 .. Parts - t[i][2], i + k <= Len(t)
        PROVE  t[i + k] = <<t[i][1], t[i][2] + k>>
    <2>1. i + k \in DOMAIN t /\ i + k <= Len(s) /\ i \in DOMAIN s /\ t[i] = s[i]
      BY <1>1, <1>2
    <2>2. s[i + k] = <<s[i][1], s[i][2] + k>>
      BY <1>2, <2>1 DEF Orderly
    <2>. QED BY <1>1, <2>1, <2>2
  <1>3. ASSUME NEW i \in DOMAIN t, t[i][2] = Parts, i < Len(t)
        PROVE  t[i + 1] = <<t[i][1] + 1, 0>>
    <2>1. i + 1 \in DOMAIN t /\ i < Len(s)
      BY <1>1, <1>3
    <2>. QED BY <1>1, <1>3, <2>1 DEF Orderly
  <1>4. \A i, j \in DOMAIN t : i <= j => t[i][1] <= t[j][1]
    BY <1>1 DEF Orderly
  <1>. QED BY <1>2, <1>3, <1>4 DEF Orderly

LEMMA PacketFacts ==
  ASSUME NEW m \in 1 .. MaxCalls
  PROVE  /\ Packet(m) \in Seq(Piece) /\ Len(Packet(m)) = Parts + 1
         /\ \A i \in 1 .. Parts + 1 : Packet(m)[i] = <<m, i - 1>>
  <1>1. Parts + 1 \in Nat /\ \A i \in 1 .. Parts + 1 : <<m, i - 1>> \in Piece
    BY FramingAssumption DEF Piece
  <1>2. PICK q : q = Packet(m)
    OBVIOUS
  <1>3. q \in [1 .. Parts + 1 -> Piece] /\ \A i \in 1 .. Parts + 1 : q[i] = <<m, i - 1>>
    BY <1>1, <1>2 DEF Packet
  <1>4. q \in Seq(Piece) /\ Len(q) = Parts + 1
    BY <1>1, <1>3
  <1>. QED BY <1>2, <1>3, <1>4

\* The next message is sent.
LEMMA OrderlyAppend ==
  ASSUME NEW s \in Seq(Piece), Orderly(s), NEW m \in 1 .. MaxCalls, EndsWith(s, m - 1),
         \A i \in DOMAIN s : s[i][1] <= m - 1
  PROVE  LET t == s \o Packet(m) IN
         /\ t \in Seq(Piece) /\ Orderly(t) /\ t[Len(t)] = <<m, Parts>> /\ t # <<>>
         /\ Len(t) = Len(s) + Parts + 1
         /\ \A i \in 1 .. Len(s) : t[i] = s[i]
         /\ \A i \in 1 .. Parts + 1 : t[Len(s) + i] = <<m, i - 1>>
         /\ \A i \in DOMAIN t : i > Len(s) => t[i][1] = m
  <1>1. /\ Len(s) \in Nat /\ DOMAIN s = 1 .. Len(s) /\ Parts \in Nat /\ Parts > 0 /\ m \in Nat
        /\ s # <<>> => s[Len(s)] = <<m - 1, Parts>>
    BY StreamFacts, FramingAssumption DEF EndsWith
  <1>2. PICK p \in Seq(Piece) : p = Packet(m) /\ Len(p) = Parts + 1 /\ \A i \in 1 .. Parts + 1 : p[i] = <<m, i - 1>>
    BY PacketFacts
  <1>3. PICK l \in Nat : l = Len(s)
    BY <1>1
  <1>4. PICK t : t = s \o p
    OBVIOUS
  <1>5. /\ t \in Seq(Piece) /\ Len(t) = l + Parts + 1 /\ DOMAIN t = 1 .. Len(t)
        /\ \A i \in 1 .. l : t[i] = s[i]
        /\ \A i \in 1 .. Parts + 1 : t[l + i] = p[i]
    <2>1. /\ s \o p \in Seq(Piece) /\ Len(s \o p) = Len(s) + Len(p)
          /\ \A i \in 1 .. Len(s) + Len(p) : (s \o p)[i] = IF i <= Len(s) THEN s[i] ELSE p[i - Len(s)]
      BY ConcatProperties
    <2>2. /\ t \in Seq(Piece) /\ Len(t) = l + (Parts + 1)
          /\ \A i \in 1 .. l + (Parts + 1) : t[i] = IF i <= l THEN s[i] ELSE p[i - l]
      BY <1>2, <1>3, <1>4, <2>1
    <2>3. \A i \in 1 .. Parts + 1 : l + i \in 1 .. l + (Parts + 1) /\ ~(l + i <= l) /\ (l + i) - l = i
      BY <1>1, <1>3
    <2>4. \A i \in 1 .. l : i \in 1 .. l + (Parts + 1) /\ i <= l
      BY <1>1, <1>3
    <2>5. l + (Parts + 1) = l + Parts + 1
      BY <1>1
    <2>6. DOMAIN t = 1 .. Len(t)
      BY <2>2
    <2>7. ASSUME NEW i \in 1 .. l PROVE t[i] = s[i]
      BY <2>2, <2>4
    <2>8. ASSUME NEW i \in 1 .. Parts + 1 PROVE t[l + i] = p[i]
      <3>1. PICK j : j = l + i
        OBVIOUS
      <3>2. j \in 1 .. l + (Parts + 1) /\ ~(j <= l) /\ j - l = i
        BY <2>3, <3>1
      <3>3. t[j] = p[j - l]
        BY <2>2, <3>2
      <3>. QED BY <3>1, <3>2, <3>3
    <2>. QED BY <2>2, <2>5, <2>6, <2>7, <2>8
  <1>6. \A i \in 1 .. Parts + 1 : t[l + i] = <<m, i - 1>>
    BY <1>2, <1>5
  <1>7. \A i \in DOMAIN t : i > l => /\ i - l \in 1 .. Parts + 1 /\ i = l + (i - l)
                                     /\ t[i] = <<m, (i - l) - 1>>
    <2>1. \A i \in DOMAIN t : i > l => i - l \in 1 .. Parts + 1 /\ i = l + (i - l)
      BY <1>1, <1>3, <1>5
    <2>. QED BY <1>6, <2>1
  <1>8. \A i \in 1 .. l : /\ s[i][1] \in Nat /\ s[i][2] \in Nat /\ s[i][1] <= m - 1 /\ i \in DOMAIN s
                          /\ t[i] = s[i]
    BY <1>1, <1>3, <1>5, StreamFacts
  <1>9. ASSUME NEW i \in DOMAIN t, NEW k \in 0 .. Parts - t[i][2], i + k <= Len(t)
        PROVE  t[i + k] = <<t[i][1], t[i][2] + k>>
    <2>1. CASE i > l
      <3>1. i + k \in DOMAIN t /\ i + k > l /\ k \in Nat
        <4>1. t[i][2] = (i - l) - 1 /\ i \in Nat
          BY <1>5, <1>7, <2>1
        <4>2. k \in Nat
          BY <1>1, <1>3, <4>1
        <4>3. PICK L \in Nat : L = Len(t) /\ DOMAIN t = 1 .. L
          BY <1>1, <1>3, <1>5
        <4>4. i \in 1 .. L /\ i + k <= L
          BY <1>9, <4>3
        <4>. QED BY <1>3, <2>1, <4>1, <4>2, <4>3, <4>4
      <3>2. t[i] = <<m, (i - l) - 1>> /\ t[i + k] = <<m, ((i + k) - l) - 1>>
        BY <1>7, <2>1, <3>1
      <3>. QED BY <1>1, <1>3, <1>5, <3>1, <3>2
    <2>2. CASE i <= l
      <3>1. i \in 1 .. l
        BY <1>3, <1>5, <2>2
      <3>2. k \in 0 .. Parts - s[i][2]
        BY <1>8, <1>9, <3>1
      \* A piece before the end of its message is far from it.
      <3>3. i + k <= l
        <4>1. l \in DOMAIN s /\ s[l] = <<m - 1, Parts>>
          BY <1>1, <1>3, <3>1
        <4>2. CASE l - i <= Parts - s[i][2]
          <5>1. PICK a \in Nat : a = s[i][2]
            BY <1>8, <3>1
          <5>2. /\ Parts \in Nat /\ i \in Nat /\ l \in Nat /\ i <= l
                /\ k \in 0 .. Parts - a /\ l - i <= Parts - a
            BY <1>1, <1>3, <3>1, <3>2, <4>2, <5>1
          <5>3. PICK j : j = l - i
            OBVIOUS
          <5>4. j \in 0 .. Parts - a /\ j \in Nat /\ i + j = l
            BY <5>2, <5>3, UpToEnd
          <5>5. \A q \in 0 .. Parts - a : i + q <= Len(s) => s[i + q] = <<s[i][1], a + q>>
            BY <1>3, <3>1, <5>1 DEF Orderly
          <5>6. i + j <= Len(s)
            BY <1>3, <5>2, <5>4
          <5>7. s[i + j] = <<s[i][1], a + j>>
            BY <5>4, <5>5, <5>6, Zenon
          <5>8. a + j = Parts
            BY <4>1, <5>4, <5>7
          <5>. QED BY <5>2, <5>4, <5>8, NotPastEnd
        <4>3. CASE ~(l - i <= Parts - s[i][2])
          BY <1>1, <1>3, <1>8, <3>1, <3>2, <4>3
        <4>. QED BY <4>2, <4>3
      <3>4. s[i + k] = <<s[i][1], s[i][2] + k>>
        BY <1>3, <1>8, <3>1, <3>2, <3>3 DEF Orderly
      <3>5. i + k \in 1 .. l
        BY <1>1, <1>3, <1>8, <3>1, <3>2, <3>3
      <3>. QED BY <1>8, <3>1, <3>4, <3>5
    <2>. QED BY <1>3, <1>5, <2>1, <2>2
  <1>10. ASSUME NEW i \in DOMAIN t, t[i][2] = Parts, i < Len(t)
         PROVE  t[i + 1] = <<t[i][1] + 1, 0>>
    <2>1. CASE i < l
      <3>1. i \in 1 .. l /\ i + 1 \in 1 .. l
        BY <1>3, <1>5, <2>1
      <3>. QED BY <1>3, <1>8, <1>10, <2>1, <3>1 DEF Orderly
    <2>2. CASE i = l
      <3>1. s # <<>> /\ i \in 1 .. l
        BY <1>3, <1>5, <2>2
      <3>2. t[i] = <<m - 1, Parts>> /\ t[l + 1] = <<m, 0>>
        <4>1. t[i] = s[i] /\ s[Len(s)] = <<m - 1, Parts>>
          BY <1>1, <1>8, <3>1
        <4>2. 1 \in 1 .. Parts + 1 /\ 1 - 1 = 0
          BY <1>1
        <4>3. t[l + 1] = <<m, 1 - 1>>
          BY <1>6, <4>2
        <4>. QED BY <1>3, <2>2, <4>1, <4>2, <4>3
      <3>. QED BY <1>1, <2>2, <3>2
    <2>3. CASE i > l
      <3>1. t[i] = <<m, (i - l) - 1>>
        BY <1>7, <2>3
      <3>2. (i - l) - 1 = Parts
        BY <1>10, <3>1
      <3>. QED BY <1>1, <1>3, <1>5, <1>10, <3>2
    <2>. QED BY <1>3, <1>5, <2>1, <2>2, <2>3
  <1>11. ASSUME NEW i \in DOMAIN t, NEW j \in DOMAIN t, i <= j
         PROVE  t[i][1] <= t[j][1]
    <2>1. CASE j <= l
      <3>1. i \in 1 .. l /\ j \in 1 .. l
        BY <1>3, <1>5, <1>11, <2>1
      <3>. QED BY <1>8, <1>11, <3>1 DEF Orderly
    <2>2. CASE j > l /\ i <= l
      <3>1. i \in 1 .. l /\ t[j][1] = m
        BY <1>3, <1>5, <1>7, <2>2
      <3>. QED BY <1>1, <1>8, <3>1
    <2>3. CASE i > l
      <3>1. j > l
        BY <1>3, <1>5, <1>11, <2>3
      <3>2. t[i] = <<m, (i - l) - 1>> /\ t[j] = <<m, (j - l) - 1>>
        BY <1>7, <1>11, <2>3, <3>1, Zenon
      <3>3. t[i][1] = m /\ t[j][1] = m
        BY <3>2
      <3>. QED BY <1>1, <3>3
    <2>4. i \in Nat /\ j \in Nat /\ l \in Nat /\ i <= j
      BY <1>3, <1>5, <1>11
    <2>5. j <= l \/ (j > l /\ i <= l) \/ i > l
      BY <2>4
    <2>. QED BY <2>1, <2>2, <2>3, <2>5, Zenon
  <1>12. Orderly(t)
    BY <1>9, <1>10, <1>11 DEF Orderly
  <1>13. t[Len(t)] = <<m, Parts>> /\ t # <<>>
    <2>1. l + (Parts + 1) = Len(t) /\ Parts + 1 \in 1 .. Parts + 1 /\ (Parts + 1) - 1 = Parts
      BY <1>1, <1>3, <1>5
    <2>2. t[Len(t)] = <<m, Parts>>
      BY <1>6, <2>1
    <2>3. Len(t) > 0
      BY <1>1, <1>3, <1>5
    <2>. QED BY <1>5, <2>2, <2>3
  <1>14. t = s \o Packet(m)
    BY <1>2, <1>4
  <1>15. /\ Len(t) = Len(s) + Parts + 1
         /\ \A i \in 1 .. Len(s) : t[i] = s[i]
         /\ \A i \in 1 .. Parts + 1 : t[Len(s) + i] = <<m, i - 1>>
    BY <1>3, <1>5, <1>6
  <1>16. ASSUME NEW i \in DOMAIN t, i > Len(s) PROVE t[i][1] = m
    BY <1>3, <1>7, <1>16
  <1>. QED BY <1>5, <1>12, <1>13, <1>14, <1>15, <1>16

\* What is left of a stream after n pieces, and the first of it.
LEMMA SuffixFacts ==
  ASSUME NEW s \in Seq(Piece), NEW n \in 0 .. Len(s)
  PROVE  LET t == SubSeq(s, n + 1, Len(s)) IN
         /\ t \in Seq(Piece) /\ Len(t) = Len(s) - n
         /\ \A i \in 1 .. Len(t) : t[i] = s[i + n]
         /\ n = 1 => t = Tail(s)
  <1>1. PICK l \in Nat : l = Len(s)
    BY StreamFacts
  <1>2. n + 1 \in 1 .. Len(s) + 1 /\ n \in Nat
    BY <1>1
  <1>3. PICK t : t = SubSeq(s, n + 1, Len(s))
    OBVIOUS
  <1>4. /\ t \in Seq(Piece)
        /\ Len(t) = IF n + 1 <= Len(s) THEN Len(s) - (n + 1) + 1 ELSE 0
        /\ \A i \in 1 .. Len(s) - (n + 1) + 1 : t[i] = s[(n + 1) + i - 1]
    BY <1>2, <1>3, SubSeqProperties
  <1>5. Len(t) = l - n /\ Len(s) - (n + 1) + 1 = l - n
    BY <1>1, <1>2, <1>4
  <1>6. \A i \in 1 .. l - n : (n + 1) + i - 1 = i + n
    BY <1>1, <1>2
  <1>7. \A i \in 1 .. Len(t) : t[i] = s[i + n]
    BY <1>4, <1>5, <1>6
  <1>8. n = 1 => t = Tail(s)
    <2>1. n = 1 => s # <<>> /\ 1 + 1 = 2
      BY <1>1, StreamFacts
    <2>. QED BY <1>3, <2>1, TailIsSubSeq
  <1>. QED BY <1>1, <1>3, <1>4, <1>5, <1>7, <1>8

\* The pieces of a message that has arrived in full, its length read.
LEMMA WholeMessage ==
  ASSUME NEW s \in Seq(Piece), Orderly(s), s # <<>>, s[1][2] = 1, Parts <= Len(s)
  PROVE  /\ s[Parts] = <<s[1][1], Parts>>
         /\ Parts < Len(s) => s[Parts + 1] = <<s[1][1] + 1, 0>>
  <1>1. Len(s) \in Nat /\ Parts \in Nat /\ Parts > 0 /\ DOMAIN s = 1 .. Len(s)
    BY StreamFacts
  <1>2. Parts - 1 \in 0 .. Parts - 1 /\ 1 + (Parts - 1) = Parts /\ 1 \in DOMAIN s /\ Parts \in DOMAIN s
    BY <1>1
  <1>3. s[1 + (Parts - 1)] = <<s[1][1], s[1][2] + (Parts - 1)>>
    BY <1>2 DEF Orderly
  <1>4. s[Parts] = <<s[1][1], Parts>>
    BY <1>2, <1>3
  <1>. QED BY <1>2, <1>4 DEF Orderly

-----------------------------------------------------------------------------
(* Requests. *)

LEMMA RequestBegun ==
  ASSUME NEW s \in Seq(Piece), NEW h \in Nat, NEW m \in Nat, NEW r,
         Requests(s, "length", h, m, r), s # <<>>
  PROVE  Head(s)[2] = 0 /\ Requests(Tail(s), "text", h, m, r)
  <1>1. Len(s) \in Nat /\ Len(s) > 0 /\ DOMAIN s = 1 .. Len(s) /\ Parts \in Nat /\ Parts > 0
        /\ Head(s) = s[1] /\ s[1] = <<h + 1, 0>> /\ Orderly(s)
    BY StreamFacts DEF Requests
  <1>2. 1 \in 0 .. Len(s) /\ 1 \in DOMAIN s
    BY <1>1
  <1>3. PICK t \in Seq(Piece) : t = Tail(s) /\ Len(t) = Len(s) - 1 /\ \A i \in 1 .. Len(t) : t[i] = s[i + 1]
    BY <1>2, SuffixFacts
  <1>4. Orderly(t) /\ \A x : EndsWith(s, x) => EndsWith(t, x)
    BY <1>1, <1>2, <1>3, OrderlySuffix
  <1>5. DOMAIN t = 1 .. Len(t) /\ Len(t) \in Nat /\ (t = <<>> <=> Len(t) = 0)
    BY <1>3, StreamFacts
  <1>6. \A i \in DOMAIN t : t[i][1] <= m
    <2>1. \A i \in DOMAIN t : i + 1 \in DOMAIN s
      BY <1>1, <1>3, <1>5
    <2>. QED BY <1>3, <1>5, <2>1 DEF Requests
  <1>7. t # <<>> => t[1] = <<h + 1, 1>>
    <2>1. t # <<>> => 1 + 1 <= Len(s) /\ t[1] = s[1 + 1]
      BY <1>1, <1>3, <1>5
    <2>2. 1 \in 0 .. Parts - s[1][2] /\ 0 + 1 = 1
      BY <1>1
    <2>3. t # <<>> => s[1 + 1] = <<s[1][1], s[1][2] + 1>>
      BY <1>1, <1>2, <2>1, <2>2 DEF Orderly
    <2>. QED BY <1>1, <2>1, <2>2, <2>3
  <1>8. r => EndsWith(t, m) /\ t # <<>>
    <2>1. r => EndsWith(s, m)
      BY DEF Requests
    <2>2. r => s[Len(s)] = <<m, Parts>>
      BY <2>1 DEF EndsWith
    <2>3. r => Len(s) # 1
      BY <1>1, <2>2
    <2>. QED BY <1>1, <1>3, <1>4, <1>5, <2>1, <2>3
  <1>9. Head(s)[2] = 0
    BY <1>1
  <1>. QED BY <1>3, <1>4, <1>6, <1>7, <1>8, <1>9 DEF Requests

LEMMA RequestHandled ==
  ASSUME NEW s \in Seq(Piece), NEW h \in Nat, NEW m \in Nat, NEW r,
         Requests(s, "text", h, m, r), Parts <= Len(s)
  PROVE  /\ s # <<>> /\ s[1][1] = h + 1 /\ h + 1 <= m
         /\ Requests(SubSeq(s, Parts + 1, Len(s)), "length", h + 1, m, r)
  <1>1. Len(s) \in Nat /\ DOMAIN s = 1 .. Len(s) /\ Parts \in Nat /\ Parts > 0
        /\ Orderly(s) /\ s # <<>> /\ s[1] = <<h + 1, 1>>
    BY StreamFacts DEF Requests
  <1>2. 1 \in DOMAIN s /\ s[1][1] = h + 1 /\ s[1][2] = 1
    BY <1>1
  <1>3. h + 1 <= m
    BY <1>2 DEF Requests
  <1>4. Parts \in 0 .. Len(s)
    BY <1>1
  <1>5. PICK t \in Seq(Piece) : /\ t = SubSeq(s, Parts + 1, Len(s))
                                /\ Len(t) = Len(s) - Parts /\ \A i \in 1 .. Len(t) : t[i] = s[i + Parts]
    BY <1>4, SuffixFacts
  <1>6. Orderly(t) /\ \A x : EndsWith(s, x) => EndsWith(t, x)
    <2>1. PICK n \in 0 .. Len(s) : n = Parts
      BY <1>4
    <2>2. Len(t) = Len(s) - n /\ \A i \in 1 .. Len(t) : t[i] = s[i + n]
      BY <1>5, <2>1
    <2>. QED BY <1>1, <2>2, OrderlySuffix
  <1>7. DOMAIN t = 1 .. Len(t) /\ Len(t) \in Nat /\ (t = <<>> <=> Len(t) = 0) /\ Len(t) = Len(s) - Parts
    BY <1>5, StreamFacts
  <1>12. /\ \A i \in 1 .. Len(t) : i + Parts \in 1 .. Len(s)
         /\ Len(t) > 0 => Parts < Len(s) /\ 1 \in 1 .. Len(t)
         /\ Len(t) = 0 => Len(s) = Parts
         /\ 1 + Parts = Parts + 1
    <2>1. PICK a \in Nat, b \in Nat : a = Len(s) /\ b = Len(t)
      BY <1>1, <1>7
    <2>2. Parts \in Nat /\ Parts <= a /\ b = a - Parts
      BY <1>1, <1>7, <2>1
    <2>3. (\A i \in 1 .. b : i + Parts \in 1 .. a) /\ (b > 0 => Parts < a /\ 1 \in 1 .. b)
          /\ (b = 0 => a = Parts) /\ 1 + Parts = Parts + 1
      BY <2>2
    <2>. QED BY <2>1, <2>3
  <1>8. \A i \in DOMAIN t : t[i][1] <= m
    <2>1. \A i \in DOMAIN t : i + Parts \in DOMAIN s
      BY <1>1, <1>7, <1>12
    <2>. QED BY <1>5, <1>7, <2>1 DEF Requests
  <1>9. /\ s[Parts] = <<h + 1, Parts>>
        /\ Parts < Len(s) => s[Parts + 1] = <<(h + 1) + 1, 0>>
    BY <1>1, <1>2, WholeMessage
  <1>10. t # <<>> => t[1] = <<(h + 1) + 1, 0>>
    <2>1. t # <<>> => Parts < Len(s) /\ 1 \in 1 .. Len(t) /\ 1 + Parts = Parts + 1
      BY <1>7, <1>12
    <2>. QED BY <1>5, <1>9, <2>1
  <1>11. r => EndsWith(t, m) /\ (t = <<>> => m = h + 1)
    <2>1. r => EndsWith(s, m) /\ s[Len(s)] = <<m, Parts>>
      BY <1>1 DEF Requests, EndsWith
    <2>2. t = <<>> => Len(s) = Parts
      BY <1>7, <1>12
    <2>. QED BY <1>6, <1>9, <2>1, <2>2
  <1>. QED BY <1>1, <1>2, <1>3, <1>5, <1>6, <1>8, <1>10, <1>11 DEF Requests

LEMMA RequestSent ==
  ASSUME NEW s \in Seq(Piece), NEW h \in Nat, NEW m \in Nat, NEW e, m + 1 \in 1 .. MaxCalls,
         Requests(s, e, h, m, TRUE)
  PROVE  /\ s \o Packet(m + 1) \in Seq(Piece)
         /\ Requests(s \o Packet(m + 1), e, h, m + 1, TRUE)
  <1>1. /\ Orderly(s) /\ EndsWith(s, m) /\ (m + 1) - 1 = m /\ \A i \in DOMAIN s : s[i][1] <= m
        /\ Len(s) \in Nat /\ DOMAIN s = 1 .. Len(s) /\ Parts \in Nat /\ (s = <<>> <=> Len(s) = 0)
    BY StreamFacts DEF Requests
  <1>2. PICK n \in 1 .. MaxCalls : n = m + 1 /\ n - 1 = m
    BY <1>1
  <1>3. PICK t \in Seq(Piece) :
          /\ t = s \o Packet(n) /\ Orderly(t) /\ t[Len(t)] = <<n, Parts>> /\ t # <<>>
          /\ Len(t) = Len(s) + Parts + 1
          /\ \A i \in 1 .. Len(s) : t[i] = s[i]
          /\ \A i \in 1 .. Parts + 1 : t[Len(s) + i] = <<n, i - 1>>
          /\ \A i \in DOMAIN t : i > Len(s) => t[i][1] = n
    <2>1. EndsWith(s, n - 1) /\ \A i \in DOMAIN s : s[i][1] <= n - 1
      BY <1>1, <1>2
    <2>2. PICK t : t = s \o Packet(n)
      OBVIOUS
    <2>3. /\ t \in Seq(Piece) /\ Orderly(t) /\ t[Len(t)] = <<n, Parts>> /\ t # <<>>
          /\ Len(t) = Len(s) + Parts + 1
          /\ \A i \in 1 .. Len(s) : t[i] = s[i]
          /\ \A i \in 1 .. Parts + 1 : t[Len(s) + i] = <<n, i - 1>>
          /\ \A i \in DOMAIN t : i > Len(s) => t[i][1] = n
      BY <1>1, <2>1, <2>2, OrderlyAppend, Zenon
    <2>. QED BY <2>2, <2>3
  <1>4. ASSUME NEW i \in DOMAIN t PROVE t[i][1] <= n
    <2>1. CASE i > Len(s)
      <3>1. t[i][1] = n
        BY <1>3, <2>1, Zenon
      <3>. QED BY <1>2, <3>1
    <2>2. CASE ~(i > Len(s))
      <3>1. i \in DOMAIN s
        BY <1>1, <1>3, <2>2, StreamFacts
      <3>2. s[i][1] <= m /\ s[i][1] \in Nat /\ t[i] = s[i]
        BY <1>1, <1>3, <3>1, StreamFacts
      <3>. QED BY <1>2, <3>2
    <2>. QED BY <2>1, <2>2
  <1>5. t[1] = IF e = "length" THEN <<h + 1, 0>> ELSE <<h + 1, 1>>
    <2>1. CASE s = <<>>
      <3>1. e = "length" /\ m = h /\ Len(s) = 0
        BY <1>1, <2>1 DEF Requests
      <3>2. 1 \in 1 .. Parts + 1 /\ 0 + 1 = 1 /\ 1 - 1 = 0
        BY <1>1
      <3>3. t[0 + 1] = <<n, 1 - 1>>
        BY <1>3, <3>1, <3>2
      <3>. QED BY <1>2, <3>1, <3>2, <3>3
    <2>2. CASE s # <<>>
      <3>1. 1 \in 1 .. Len(s)
        BY <1>1, <2>2
      <3>2. t[1] = s[1]
        BY <1>3, <3>1
      <3>. QED BY <2>2, <3>2 DEF Requests
    <2>. QED BY <2>1, <2>2
  <1>6. e \in {"length", "text"}
    BY DEF Requests
  <1>7. Requests(t, e, h, n, TRUE)
    BY <1>3, <1>4, <1>5, <1>6 DEF Requests, EndsWith
  <1>. QED BY <1>2, <1>3, <1>7

\* The program ends, and the last request with it.
LEMMA RequestCut ==
  ASSUME NEW s \in Seq(Piece), NEW h \in Nat, NEW m \in Nat, NEW e, NEW r, NEW n \in 0 .. Len(s),
         Requests(s, e, h, m, r)
  PROVE  SubSeq(s, 1, n) \in Seq(Piece) /\ Requests(SubSeq(s, 1, n), e, h, m, FALSE)
  <1>1. Len(s) \in Nat /\ DOMAIN s = 1 .. Len(s) /\ Orderly(s)
    BY StreamFacts DEF Requests
  <1>2. PICK t : t = SubSeq(s, 1, n)
    OBVIOUS
  <1>3. /\ t \in Seq(Piece)
        /\ Len(t) = IF 1 <= n THEN n - 1 + 1 ELSE 0
        /\ \A i \in 1 .. n - 1 + 1 : t[i] = s[1 + i - 1]
    <2>1. 1 \in 1 .. Len(s) + 1
      BY <1>1
    <2>. QED BY <1>2, <2>1, SubSeqProperties
  <1>4. n \in Nat /\ Len(t) = n /\ n - 1 + 1 = n /\ n <= Len(s)
    BY <1>1, <1>3
  <1>5. \A i \in 1 .. n : t[i] = s[i] /\ i \in DOMAIN s
    <2>1. \A i \in 1 .. n : 1 + i - 1 = i /\ i \in DOMAIN s
      BY <1>1, <1>4
    <2>. QED BY <1>3, <1>4, <2>1
  <1>6. Orderly(t)
    BY <1>1, <1>3, <1>4, <1>5, OrderlyPrefix
  <1>7. DOMAIN t = 1 .. n /\ (t # <<>> => 1 \in 1 .. n /\ s # <<>>)
    BY <1>3, <1>4, StreamFacts
  <1>. QED BY <1>2, <1>3, <1>5, <1>6, <1>7 DEF Requests

-----------------------------------------------------------------------------
(* Replies. *)

\* After n pieces, whatever they were taken for.
LEMMA ReplyLeft ==
  ASSUME NEW s \in Seq(Piece), NEW h \in Nat, NEW e, NEW q, NEW n \in 0 .. Len(s),
         Replies(s, e, h, q), NEW f, f # "text"
  PROVE  /\ SubSeq(s, n + 1, Len(s)) \in Seq(Piece)
         /\ Replies(SubSeq(s, n + 1, Len(s)), f, h, q)
  <1>1. Orderly(s) /\ EndsWith(s, h)
    BY DEF Replies
  <1>2. Len(s) \in Nat /\ DOMAIN s = 1 .. Len(s)
    BY StreamFacts
  <1>3. PICK t \in Seq(Piece) : /\ t = SubSeq(s, n + 1, Len(s))
                                /\ Len(t) = Len(s) - n /\ \A i \in 1 .. Len(t) : t[i] = s[i + n]
    BY <1>2, SuffixFacts
  <1>4. Orderly(t) /\ EndsWith(t, h)
    <2>1. Orderly(t) /\ \A x : EndsWith(s, x) => EndsWith(t, x)
      BY <1>1, <1>3, OrderlySuffix, Zenon
    <2>. QED BY <1>1, <2>1
  <1>5. \A i \in DOMAIN t : i + n \in DOMAIN s /\ t[i] = s[i + n]
    <2>1. PICK a \in Nat, b \in Nat : a = Len(s) /\ b = Len(t)
      BY <1>2, <1>3, StreamFacts
    <2>2. n \in Nat /\ n <= a /\ b = a - n
      BY <1>3, <2>1
    <2>3. \A i \in 1 .. b : i + n \in 1 .. a
      BY <2>1, <2>2
    <2>. QED BY <1>2, <1>3, <2>1, <2>3, StreamFacts
  <1>. QED BY <1>3, <1>4, <1>5 DEF Replies

LEMMA ReplyBegun ==
  ASSUME NEW s \in Seq(Piece), NEW h \in Nat, NEW q, Replies(s, "length", h, q), s # <<>>
  PROVE  /\ Tail(s) \in Seq(Piece)
         /\ Replies(Tail(s), IF Head(s)[2] = 0 THEN "text" ELSE "garbage", h, q)
  <1>1. /\ Len(s) \in Nat /\ Len(s) > 0 /\ DOMAIN s = 1 .. Len(s) /\ Parts \in Nat /\ Parts > 0
        /\ Head(s) = s[1] /\ Orderly(s) /\ EndsWith(s, h)
    BY StreamFacts DEF Replies
  <1>2. 1 \in 1 .. Len(s) /\ 1 \in 0 .. Len(s)
    BY <1>1
  <1>3. PICK t : t = Tail(s)
    OBVIOUS
  <1>4. t = SubSeq(s, 1 + 1, Len(s))
    BY <1>2, <1>3, SuffixFacts
  <1>5. t \in Seq(Piece) /\ Len(t) = Len(s) - 1 /\ \A i \in 1 .. Len(t) : t[i] = s[i + 1]
    BY <1>2, <1>4, SuffixFacts
  <1>6. Replies(t, "garbage", h, q)
    BY <1>2, <1>4, ReplyLeft
  <1>7. ASSUME s[1][2] = 0 PROVE t # <<>> /\ t[1][2] = 1
    <2>1. s[Len(s)] = <<h, Parts>>
      BY <1>1 DEF EndsWith
    <2>2. Len(s) # 1
      BY <1>1, <1>7, <2>1
    <2>3. 1 + 1 <= Len(s) /\ 1 \in 0 .. Parts - s[1][2] /\ 1 \in DOMAIN s /\ 0 + 1 = 1
      BY <1>1, <1>7, <2>2
    <2>4. s[1 + 1] = <<s[1][1], 0 + 1>>
      BY <1>1, <1>7, <2>3 DEF Orderly
    <2>5. t # <<>> /\ 1 \in 1 .. Len(t)
      BY <1>1, <1>5, <2>2, StreamFacts
    <2>6. t[1] = s[1 + 1]
      BY <1>5, <2>5
    <2>. QED BY <2>3, <2>4, <2>5, <2>6
  <1>. QED BY <1>1, <1>3, <1>5, <1>6, <1>7 DEF Replies

LEMMA ReplyTaken ==
  ASSUME NEW s \in Seq(Piece), NEW h \in Nat, NEW q \in Seq(1 .. MaxCalls),
         Replies(s, "text", h, q), Parts <= Len(s)
  PROVE  /\ s # <<>> /\ s[1][1] <= h /\ s[1][1] \in 1 .. MaxCalls
         /\ \A j \in DOMAIN q : q[j] < s[1][1]
         /\ SubSeq(s, Parts + 1, Len(s)) \in Seq(Piece)
         /\ Replies(SubSeq(s, Parts + 1, Len(s)), "length", h, Append(q, s[1][1]))
  <1>1. /\ Len(s) \in Nat /\ DOMAIN s = 1 .. Len(s) /\ Parts \in Nat /\ Parts > 0
        /\ Orderly(s) /\ s # <<>> /\ s[1][2] = 1
    BY StreamFacts DEF Replies
  <1>2. 1 \in DOMAIN s /\ s[1][1] \in 1 .. MaxCalls /\ s[1][1] \in Nat
    BY <1>1, StreamFacts
  <1>3. PICK m \in 1 .. MaxCalls : m = s[1][1] /\ m \in Nat
    BY <1>2
  <1>4. m <= h /\ \A j \in DOMAIN q : q[j] < m
    BY <1>2, <1>3 DEF Replies
  <1>5. PICK n \in 0 .. Len(s) : n = Parts
    BY <1>1
  <1>6. PICK t \in Seq(Piece) : t = SubSeq(s, n + 1, Len(s)) /\ Replies(t, "length", h, q)
    <2>1. PICK t : t = SubSeq(s, n + 1, Len(s))
      OBVIOUS
    <2>2. PICK f : f = "length" /\ f # "text"
      OBVIOUS
    <2>3. t \in Seq(Piece) /\ Replies(t, f, h, q)
      BY <2>1, <2>2, ReplyLeft
    <2>. QED BY <2>1, <2>2, <2>3
  <1>7. /\ n \in 0 .. Len(s) /\ s[n] = <<m, Parts>>
        /\ n < Len(s) => s[n + 1] = <<m + 1, 0>>
    BY <1>1, <1>3, <1>5, WholeMessage
  <1>8. /\ Len(t) = Len(s) - n /\ \A i \in 1 .. Len(t) : t[i] = s[i + n]
        /\ DOMAIN t = 1 .. Len(t) /\ Len(t) \in Nat
    BY <1>6, <1>7, SuffixFacts, StreamFacts
  \* All that is left belongs to later messages.
  <1>9. ASSUME NEW i \in DOMAIN t PROVE m < t[i][1]
    <2>1. PICK a \in Nat, b \in Nat : a = Len(s) /\ b = Len(t) /\ b = a - n
      BY <1>1, <1>8
    <2>2. i \in 1 .. b
      BY <1>8, <2>1
    <2>3. n < a /\ n + 1 \in 1 .. a /\ i + n \in 1 .. a /\ n + 1 <= i + n
      BY <2>1, <2>2
    <2>4. s[n + 1][1] = m + 1 /\ s[n + 1][1] <= s[i + n][1]
      <3>1. n + 1 \in DOMAIN s /\ i + n \in DOMAIN s
        BY <1>1, <2>1, <2>3
      <3>2. s[n + 1] = <<m + 1, 0>>
        BY <1>7, <2>1, <2>3
      <3>3. s[n + 1][1] <= s[i + n][1]
        BY <1>1, <2>3, <3>1 DEF Orderly
      <3>. QED BY <3>2, <3>3
    <2>5. s[i + n][1] \in Nat /\ t[i] = s[i + n]
      BY <1>8, <2>1, <2>2, <2>3, StreamFacts
    <2>6. PICK x \in Nat : x = t[i][1] /\ m + 1 <= x
      BY <2>4, <2>5
    <2>. QED BY <1>3, <2>6
  <1>10. ASSUME NEW i \in DOMAIN t, NEW j \in DOMAIN Append(q, m)
         PROVE  Append(q, m)[j] < t[i][1]
    <2>1. CASE j \in DOMAIN q
      <3>1. Append(q, m)[j] = q[j]
        BY <2>1
      <3>. QED BY <1>6, <2>1, <3>1 DEF Replies
    <2>2. CASE j \notin DOMAIN q
      <3>1. Append(q, m)[j] = m
        BY <2>2
      <3>. QED BY <1>9, <3>1
    <2>. QED BY <2>1, <2>2
  <1>11. Replies(t, "length", h, Append(q, m))
    BY <1>6, <1>10 DEF Replies
  <1>. QED BY <1>1, <1>3, <1>4, <1>5, <1>6, <1>11

LEMMA ReplySent ==
  ASSUME NEW s \in Seq(Piece), NEW h \in Nat, NEW e, NEW q \in Seq(1 .. MaxCalls),
         h + 1 \in 1 .. MaxCalls, Replies(s, e, h, q), \A j \in DOMAIN q : q[j] <= h
  PROVE  /\ s \o Packet(h + 1) \in Seq(Piece)
         /\ Replies(s \o Packet(h + 1), e, h + 1, q)
  <1>1. /\ Orderly(s) /\ EndsWith(s, h) /\ (h + 1) - 1 = h /\ \A i \in DOMAIN s : s[i][1] <= h
        /\ Len(s) \in Nat /\ DOMAIN s = 1 .. Len(s) /\ Parts \in Nat /\ (s = <<>> <=> Len(s) = 0)
    BY StreamFacts DEF Replies
  <1>2. PICK n \in 1 .. MaxCalls : n = h + 1 /\ n - 1 = h /\ n \in Nat /\ h < n
    BY <1>1
  <1>3. PICK t : t = s \o Packet(n)
    OBVIOUS
  <1>4. /\ t \in Seq(Piece) /\ Orderly(t) /\ t[Len(t)] = <<n, Parts>> /\ t # <<>>
        /\ Len(t) = Len(s) + Parts + 1
        /\ \A i \in 1 .. Len(s) : t[i] = s[i]
        /\ \A i \in 1 .. Parts + 1 : t[Len(s) + i] = <<n, i - 1>>
        /\ \A i \in DOMAIN t : i > Len(s) => t[i][1] = n
    <2>1. EndsWith(s, n - 1) /\ \A i \in DOMAIN s : s[i][1] <= n - 1
      BY <1>1, <1>2
    <2>. QED BY <1>1, <1>3, <2>1, OrderlyAppend, Zenon
  <1>5. \A j \in DOMAIN q : q[j] \in Nat
    <2>1. MaxCalls \in Nat
      BY FramingAssumption
    <2>2. \A j \in DOMAIN q : q[j] \in 1 .. MaxCalls
      <3>1. PICK S : S = 1 .. MaxCalls
        OBVIOUS
      <3>2. q \in Seq(S)
        BY <3>1
      <3>3. \A j \in DOMAIN q : q[j] \in S
        BY <3>2
      <3>. QED BY <3>1, <3>3
    <2>. QED BY <2>1, <2>2
  <1>6. ASSUME NEW i \in DOMAIN t PROVE t[i][1] <= n /\ \A j \in DOMAIN q : q[j] < t[i][1]
    <2>1. CASE i > Len(s)
      BY <1>2, <1>4, <1>5, <2>1
    <2>2. CASE ~(i > Len(s))
      <3>1. i \in DOMAIN s
        BY <1>1, <1>4, <2>2, StreamFacts
      <3>2. s[i][1] <= h /\ s[i][1] \in Nat /\ t[i] = s[i]
        BY <1>1, <1>4, <3>1, StreamFacts
      <3>3. \A j \in DOMAIN q : q[j] < s[i][1]
        BY <3>1 DEF Replies
      <3>. QED BY <1>2, <3>2, <3>3
    <2>. QED BY <2>1, <2>2
  <1>7. e = "text" => t[1][2] = 1
    <2>1. ASSUME e = "text" PROVE 1 \in 1 .. Len(s) /\ s[1][2] = 1
      BY <1>1, <2>1 DEF Replies
    <2>. QED BY <1>4, <2>1
  <1>8. Replies(t, e, n, q)
    BY <1>4, <1>6, <1>7 DEF Replies, EndsWith
  <1>. QED BY <1>2, <1>3, <1>4, <1>8

-----------------------------------------------------------------------------
(* What a step leaves alone. *)

LEMMA ClientTypes ==
  ASSUME TypeOK, NEW c \in Clients
  PROVE  /\ stream[c]["request"] \in Seq(Piece) /\ stream[c]["reply"] \in Seq(Piece)
         /\ handled[c] \in Seq(1 .. MaxCalls) /\ taken[c] \in Seq(1 .. MaxCalls)
         /\ Len(handled[c]) \in Nat /\ made[c] \in 0 .. MaxCalls /\ made[c] \in Nat
         /\ MaxCalls \in Nat /\ Parts \in Nat /\ Parts > 0
  <1>1. /\ stream[c]["request"] \in Seq(Piece) /\ stream[c]["reply"] \in Seq(Piece)
        /\ handled[c] \in Seq(1 .. MaxCalls) /\ taken[c] \in Seq(1 .. MaxCalls)
        /\ made[c] \in 0 .. MaxCalls
    BY DEF TypeOK, Ways
  <1>2. MaxCalls \in Nat /\ Parts \in Nat /\ Parts > 0
    BY FramingAssumption
  <1>. QED BY <1>1, <1>2

LEMMA PutStream ==
  ASSUME TypeOK, NEW c \in Clients, NEW w \in Ways, NEW s \in Seq(Piece),
         stream' = [stream EXCEPT ![c][w] = s]
  PROVE  /\ stream' \in [Clients -> [Ways -> Seq(Piece)]]
         /\ stream'[c][w] = s /\ \A v \in Ways \ {w} : stream'[c][v] = stream[c][v]
         /\ \A d \in Clients \ {c} : stream'[d] = stream[d]
  BY DEF TypeOK

LEMMA PutRequest ==
  ASSUME TypeOK, NEW c \in Clients, NEW s \in Seq(Piece),
         stream' = [stream EXCEPT ![c]["request"] = s]
  PROVE  /\ stream' \in [Clients -> [Ways -> Seq(Piece)]]
         /\ stream'[c]["request"] = s /\ stream'[c]["reply"] = stream[c]["reply"]
         /\ \A d \in Clients \ {c} : stream'[d] = stream[d]
  BY PutStream DEF Ways

LEMMA PutReply ==
  ASSUME TypeOK, NEW c \in Clients, NEW s \in Seq(Piece),
         stream' = [stream EXCEPT ![c]["reply"] = s]
  PROVE  /\ stream' \in [Clients -> [Ways -> Seq(Piece)]]
         /\ stream'[c]["reply"] = s /\ stream'[c]["request"] = stream[c]["request"]
         /\ \A d \in Clients \ {c} : stream'[d] = stream[d]
  BY PutStream DEF Ways

Marks == {"length", "text", "garbage"}

LEMMA PutExpect ==
  ASSUME TypeOK, NEW c \in Clients, NEW w \in Ways, NEW e \in Marks,
         expect' = [expect EXCEPT ![c][w] = e]
  PROVE  /\ expect' \in [Clients -> [Ways -> Marks]]
         /\ expect'[c][w] = e /\ \A v \in Ways \ {w} : expect'[c][v] = expect[c][v]
         /\ \A d \in Clients \ {c} : expect'[d] = expect[d]
  BY DEF TypeOK, Marks

LEMMA Closing ==
  ASSUME closed \subseteq closed', NEW c
  PROVE  (Runs(c)' => Runs(c)) /\ (Serves(c)' => Serves(c))
  BY DEF Runs, Serves

LEMMA SameRequests ==
  ASSUME NEW c, RequestsOK(c), closed \subseteq closed', made'[c] = made[c], handled'[c] = handled[c],
         stream'[c]["request"] = stream[c]["request"], expect'[c]["request"] = expect[c]["request"]
  PROVE  RequestsOK(c)'
  BY Closing DEF RequestsOK, Requests

LEMMA SameReplies ==
  ASSUME NEW c, RepliesOK(c), closed \subseteq closed', handled'[c] = handled[c], taken'[c] = taken[c],
         stream'[c]["reply"] = stream[c]["reply"], expect'[c]["reply"] = expect[c]["reply"]
  PROVE  RepliesOK(c)'
  BY Closing DEF RepliesOK, Replies

LEMMA SameCounts ==
  ASSUME NEW c, CountsOK(c), made'[c] = made[c], handled'[c] = handled[c], taken'[c] = taken[c]
  PROVE  CountsOK(c)'
  BY DEF CountsOK, Increasing

LEMMA SameClient ==
  ASSUME NEW c, ClientOK(c), closed \subseteq closed', stream'[c] = stream[c], expect'[c] = expect[c],
         made'[c] = made[c], handled'[c] = handled[c], taken'[c] = taken[c]
  PROVE  ClientOK(c)'
  BY SameRequests, SameReplies, SameCounts DEF ClientOK

-----------------------------------------------------------------------------
(* The thread. *)

LEMMA RequestLengthKeeps ==
  ASSUME FramingInv, NEW c \in Clients, RecvLength(c, "request")
  PROVE  FramingInv'
  <1>1. TypeOK /\ ClientOK(c) /\ Serves(c) /\ "request" \in Ways /\ "reply" \in Ways \ {"request"}
    BY DEF FramingInv, RecvLength, Ways
  <1>2. PICK s \in Seq(Piece) : s = stream[c]["request"]
    BY <1>1, ClientTypes
  <1>3. s # <<>> /\ expect[c]["request"] = "length" /\ UNCHANGED <<made, calling, handled, taken, closed>>
    BY <1>2 DEF RecvLength
  <1>4. PICK h \in Nat, m \in Nat, r \in BOOLEAN : h = Len(handled[c]) /\ m = made[c] /\ r = Runs(c)
    <2>1. Len(handled[c]) \in Nat /\ made[c] \in Nat
      BY <1>1, ClientTypes
    <2>2. Runs(c) \in BOOLEAN
      BY DEF Runs
    <2>. QED BY <2>1, <2>2, Zenon
  <1>5. Head(s)[2] = 0 /\ Requests(Tail(s), "text", h, m, r)
    <2>1. Requests(s, "length", h, m, r)
      BY <1>1, <1>2, <1>3, <1>4 DEF ClientOK, RequestsOK
    <2>. QED BY <1>3, <2>1, RequestBegun
  <1>6. expect' = [expect EXCEPT ![c]["request"] = "text"]
    BY <1>2, <1>5 DEF RecvLength
  <1>7. Tail(s) \in Seq(Piece) /\ stream' = [stream EXCEPT ![c]["request"] = Tail(s)]
    BY <1>2, <1>3 DEF RecvLength
  <1>8. /\ stream' \in [Clients -> [Ways -> Seq(Piece)]]
        /\ stream'[c]["request"] = Tail(s) /\ stream'[c]["reply"] = stream[c]["reply"]
        /\ \A d \in Clients \ {c} : stream'[d] = stream[d]
    BY <1>1, <1>7, PutRequest
  <1>9. /\ expect' \in [Clients -> [Ways -> Marks]]
        /\ expect'[c]["request"] = "text" /\ expect'[c]["reply"] = expect[c]["reply"]
        /\ \A d \in Clients \ {c} : expect'[d] = expect[d]
    <2>1. PICK e \in Marks : e = "text"
      BY DEF Marks
    <2>2. expect' = [expect EXCEPT ![c]["request"] = e]
      BY <1>6, <2>1
    <2>3. PICK w \in Ways : w = "request" /\ "reply" \in Ways \ {w}
      BY <1>1
    <2>4. expect' = [expect EXCEPT ![c][w] = e]
      BY <2>2, <2>3
    <2>5. /\ expect' \in [Clients -> [Ways -> Marks]]
          /\ expect'[c][w] = e /\ \A v \in Ways \ {w} : expect'[c][v] = expect[c][v]
          /\ \A d \in Clients \ {c} : expect'[d] = expect[d]
      BY <1>1, <2>4, PutExpect
    <2>. QED BY <2>1, <2>3, <2>5
  <1>10. TypeOK'
    BY <1>1, <1>3, <1>8, <1>9 DEF TypeOK, Marks
  <1>11. RequestsOK(c)'
    BY <1>3, <1>4, <1>5, <1>8, <1>9 DEF RequestsOK, Runs
  <1>12. RepliesOK(c)' /\ CountsOK(c)'
    BY <1>1, <1>3, <1>8, <1>9, SameReplies, SameCounts DEF ClientOK
  <1>13. \A d \in Clients \ {c} : ClientOK(d)'
    BY <1>3, <1>8, <1>9, SameClient DEF FramingInv
  <1>. QED BY <1>10, <1>11, <1>12, <1>13 DEF FramingInv, ClientOK

LEMMA HandleKeeps ==
  ASSUME FramingInv, NEW c \in Clients, NEW n, Handle(c, n)
  PROVE  FramingInv'
  <1>1. TypeOK /\ ClientOK(c) /\ Serves(c) /\ "request" \in Ways /\ "reply" \in Ways \ {"request"}
    BY DEF FramingInv, Handle, Ways
  <1>2. PICK s \in Seq(Piece), p \in Seq(Piece) : s = stream[c]["request"] /\ p = stream[c]["reply"]
    BY <1>1, ClientTypes
  <1>3. /\ expect[c]["request"] = "text" /\ n = Parts /\ Parts <= Len(s)
        /\ UNCHANGED <<made, calling, taken>>
    BY <1>2 DEF Handle, Whole
  <1>4. PICK h \in Nat, m \in Nat, r \in BOOLEAN : h = Len(handled[c]) /\ m = made[c] /\ r = Runs(c)
    <2>1. Len(handled[c]) \in Nat /\ made[c] \in Nat
      BY <1>1, ClientTypes
    <2>2. Runs(c) \in BOOLEAN
      BY DEF Runs
    <2>. QED BY <2>1, <2>2, Zenon
  <1>5. PICK t : t = SubSeq(s, Parts + 1, Len(s))
    OBVIOUS
  <1>6. /\ Head(s)[1] = h + 1 /\ h + 1 <= m /\ t \in Seq(Piece)
        /\ Requests(t, "length", h + 1, m, r)
    <2>1. Requests(s, "text", h, m, r)
      BY <1>1, <1>2, <1>3, <1>4 DEF ClientOK, RequestsOK
    <2>2. s # <<>> /\ s[1][1] = h + 1 /\ h + 1 <= m /\ Requests(t, "length", h + 1, m, r)
      BY <1>3, <1>5, <2>1, RequestHandled
    <2>3. Parts \in 0 .. Len(s)
      BY <1>3, StreamFacts
    <2>. QED BY <1>5, <2>2, <2>3, SuffixFacts, StreamFacts
  <1>7. PICK k \in 1 .. MaxCalls : k = h + 1
    <2>1. m \in 0 .. MaxCalls /\ MaxCalls \in Nat
      BY <1>1, <1>4, ClientTypes
    <2>. QED BY <1>6, <2>1
  <1>8. handled' = [handled EXCEPT ![c] = Append(handled[c], k)]
    BY <1>2, <1>6, <1>7 DEF Handle
  <1>9. PICK q \in Seq(1 .. MaxCalls) : q = Append(handled[c], k) /\ Len(q) = h + 1
                                        /\ \A i \in DOMAIN q :
                                             \/ i \in DOMAIN handled[c] /\ q[i] = handled[c][i]
                                             \/ i = h + 1 /\ q[i] = k
    <2>1. PICK S : S = 1 .. MaxCalls /\ k \in S
      OBVIOUS
    <2>2. PICK o \in Seq(S) : o = handled[c] /\ h = Len(o)
      BY <1>1, <1>4, <2>1, ClientTypes
    <2>3. PICK q : q = Append(o, k)
      OBVIOUS
    <2>4. q \in Seq(S) /\ Len(q) = h + 1 /\ DOMAIN q = 1 .. h + 1 /\ DOMAIN o = 1 .. h
      BY <2>1, <2>2, <2>3
    <2>5. (\A i \in 1 .. h : q[i] = o[i]) /\ q[h + 1] = k
      BY <2>1, <2>2, <2>3
    <2>6. \A i \in 1 .. h + 1 : i \in 1 .. h \/ i = h + 1
      BY <2>2
    <2>7. ASSUME NEW i \in DOMAIN q
          PROVE  \/ i \in DOMAIN o /\ q[i] = o[i]
                 \/ i = h + 1 /\ q[i] = k
      BY <2>4, <2>5, <2>6
    <2>8. q \in Seq(1 .. MaxCalls) /\ q = Append(handled[c], k)
      BY <2>1, <2>2, <2>3, <2>4
    <2>. QED BY <2>2, <2>4, <2>7, <2>8
  <1>10. /\ handled' \in [Clients -> Seq(1 .. MaxCalls)]
         /\ handled'[c] = q /\ \A d \in Clients \ {c} : handled'[d] = handled[d]
    BY <1>1, <1>8, <1>9 DEF TypeOK
  <1>11. /\ expect' \in [Clients -> [Ways -> Marks]]
         /\ expect'[c]["request"] = "length" /\ expect'[c]["reply"] = expect[c]["reply"]
         /\ \A d \in Clients \ {c} : expect'[d] = expect[d]
    <2>1. PICK e \in Marks : e = "length"
      BY DEF Marks
    <2>2. expect' = [expect EXCEPT ![c]["request"] = e]
      BY <2>1 DEF Handle
    <2>3. PICK w \in Ways : w = "request" /\ "reply" \in Ways \ {w}
      BY <1>1
    <2>4. expect' = [expect EXCEPT ![c][w] = e]
      BY <2>2, <2>3
    <2>5. /\ expect' \in [Clients -> [Ways -> Marks]]
          /\ expect'[c][w] = e /\ \A v \in Ways \ {w} : expect'[c][v] = expect[c][v]
          /\ \A d \in Clients \ {c} : expect'[d] = expect[d]
      BY <1>1, <2>4, PutExpect
    <2>. QED BY <2>1, <2>3, <2>5
  <1>12. CountsOK(c)'
    <2>1. CountsOK(c) /\ handled[c] \in Seq(1 .. MaxCalls) /\ made'[c] = m /\ taken'[c] = taken[c]
      BY <1>1, <1>3, <1>4, ClientTypes DEF ClientOK
    <2>2. \A i \in DOMAIN q : q[i] = i
      <3>1. \A i \in DOMAIN q : \/ i \in DOMAIN handled[c] /\ q[i] = handled[c][i]
                                \/ i = h + 1 /\ q[i] = k
        BY <1>9
      <3>. QED BY <1>7, <2>1, <3>1 DEF CountsOK
    <2>3. \A j \in DOMAIN taken[c] : taken[c][j] <= h + 1
      <3>1. \A j \in DOMAIN taken[c] : taken[c][j] <= h /\ taken[c][j] \in Nat
        <4>1. PICK S : S = 1 .. MaxCalls
          OBVIOUS
        <4>2. taken[c] \in Seq(S) /\ S \subseteq Nat
          BY <1>1, <4>1, ClientTypes
        <4>3. \A j \in DOMAIN taken[c] : taken[c][j] \in S
          BY <4>2
        <4>. QED BY <1>4, <2>1, <4>2, <4>3 DEF CountsOK
      <3>. QED BY <3>1
    <2>. QED BY <1>6, <1>9, <1>10, <2>1, <2>2, <2>3 DEF CountsOK, Increasing
  <1>13. /\ stream' \in [Clients -> [Ways -> Seq(Piece)]] /\ closed \subseteq closed'
         /\ closed' \subseteq Clients \X {"client", "server"}
         /\ \A d \in Clients \ {c} : stream'[d] = stream[d]
         /\ RequestsOK(c)' /\ RepliesOK(c)'
    <2>1. ASSUME stream' = [stream EXCEPT ![c]["request"] = SubSeq(@, n + 1, Len(@)),
                                          ![c]["reply"] = IF Runs(c) THEN @ \o Packet(k) ELSE @],
                 UNCHANGED closed
          PROVE  <1>13!:
      <3>1. PICK u : u = IF r THEN p \o Packet(k) ELSE p
        OBVIOUS
      <3>2. u \in Seq(Piece) /\ (r => Replies(u, expect[c]["reply"], h + 1, taken[c]))
        <4>1. CASE r
          <5>1. Replies(p, expect[c]["reply"], h, taken[c])
            BY <1>1, <1>2, <1>4, <4>1 DEF ClientOK, RepliesOK
          <5>2. \A j \in DOMAIN taken[c] : taken[c][j] <= h
            BY <1>1, <1>4 DEF ClientOK, CountsOK
          <5>3. taken[c] \in Seq(1 .. MaxCalls) /\ h + 1 \in 1 .. MaxCalls
            BY <1>1, <1>7, ClientTypes
          <5>. QED BY <1>7, <3>1, <4>1, <5>1, <5>2, <5>3, ReplySent
        <4>2. CASE ~r
          BY <3>1, <4>2
        <4>. QED BY <4>1, <4>2
      <3>3. PICK mid : mid = [stream EXCEPT ![c]["request"] = t]
        OBVIOUS
      <3>4. /\ stream' = [stream EXCEPT ![c] = [stream[c] EXCEPT !["request"] = t, !["reply"] = u]]
        BY <1>1, <1>2, <1>3, <1>4, <1>5, <2>1, <3>1 DEF TypeOK
      <3>5. /\ stream' \in [Clients -> [Ways -> Seq(Piece)]]
            /\ stream'[c]["request"] = t /\ stream'[c]["reply"] = u
            /\ \A d \in Clients \ {c} : stream'[d] = stream[d]
        BY <1>1, <1>6, <3>2, <3>4 DEF TypeOK, Ways
      <3>6. Runs(c)' = r /\ closed \subseteq closed' /\ closed' \subseteq Clients \X {"client", "server"}
        BY <1>1, <1>4, <2>1 DEF Runs, TypeOK
      <3>7. RequestsOK(c)'
        BY <1>3, <1>4, <1>6, <1>9, <1>10, <1>11, <3>5, <3>6 DEF RequestsOK
      <3>8. RepliesOK(c)'
        BY <1>3, <1>9, <1>10, <1>11, <3>2, <3>5, <3>6 DEF RepliesOK
      <3>. QED BY <3>5, <3>6, <3>7, <3>8
    <2>2. ASSUME ~Runs(c), Kill(Clients \X {"server"}), UNCHANGED stream
          PROVE  <1>13!:
      <3>1. /\ closed \subseteq closed' /\ closed' \subseteq Clients \X {"client", "server"}
            /\ ~Serves(c)' /\ ~Runs(c)'
        BY <1>1, <2>2 DEF Kill, TypeOK, Serves, Runs
      <3>. QED BY <1>1, <2>2, <3>1 DEF RequestsOK, RepliesOK, TypeOK
    <2>. QED BY <1>2, <1>6, <1>7, <2>1, <2>2 DEF Handle, Answer
  <1>14. TypeOK'
    BY <1>1, <1>3, <1>10, <1>11, <1>13 DEF TypeOK, Marks
  <1>15. ASSUME NEW d \in Clients \ {c} PROVE ClientOK(d)'
    BY <1>3, <1>10, <1>11, <1>13, <1>15, SameClient DEF FramingInv
  <1>. QED BY <1>12, <1>13, <1>14, <1>15 DEF FramingInv, ClientOK

\* The second recv.
LEMMA TextRead ==
  ASSUME TypeOK, NEW c \in Clients, NEW w \in Ways, NEW n, RecvText(c, w, n)
  PROVE  LET s == stream[c][w] IN
         /\ s \in Seq(Piece) /\ n \in 0 .. Len(s) /\ expect[c][w] # "length"
         /\ stream' \in [Clients -> [Ways -> Seq(Piece)]]
         /\ stream'[c][w] = SubSeq(s, n + 1, Len(s))
         /\ \A v \in Ways \ {w} : stream'[c][v] = stream[c][v]
         /\ \A d \in Clients \ {c} : stream'[d] = stream[d]
         /\ expect' \in [Clients -> [Ways -> Marks]] /\ expect'[c][w] = "length"
         /\ \A v \in Ways \ {w} : expect'[c][v] = expect[c][v]
         /\ \A d \in Clients \ {c} : expect'[d] = expect[d]
  <1>1. PICK s \in Seq(Piece) : s = stream[c][w]
    BY DEF TypeOK
  <1>2. n \in 0 .. Len(s) /\ expect[c][w] # "length"
    BY <1>1, StreamFacts DEF RecvText
  <1>3. PICK t \in Seq(Piece) : t = SubSeq(s, n + 1, Len(s))
    BY <1>2, SuffixFacts
  <1>4. PICK e \in Marks : e = "length"
    BY DEF Marks
  <1>5. stream' = [stream EXCEPT ![c][w] = t] /\ expect' = [expect EXCEPT ![c][w] = e]
    BY <1>1, <1>3, <1>4 DEF RecvText
  <1>6. /\ stream' \in [Clients -> [Ways -> Seq(Piece)]]
        /\ stream'[c][w] = t /\ \A v \in Ways \ {w} : stream'[c][v] = stream[c][v]
        /\ \A d \in Clients \ {c} : stream'[d] = stream[d]
    BY <1>5, PutStream
  <1>7. /\ expect' \in [Clients -> [Ways -> Marks]]
        /\ expect'[c][w] = e /\ \A v \in Ways \ {w} : expect'[c][v] = expect[c][v]
        /\ \A d \in Clients \ {c} : expect'[d] = expect[d]
    BY <1>5, PutExpect
  <1>. QED BY <1>1, <1>2, <1>3, <1>4, <1>6, <1>7

\* Drop and Disconnect.
LEMMA QuitKeeps ==
  ASSUME FramingInv, NEW c \in Clients, Disconnect(c) \/ \E n : Drop(c, n)
  PROVE  FramingInv'
  <1>1. /\ TypeOK /\ ClientOK(c) /\ "request" \in Ways /\ "reply" \in Ways \ {"request"}
        /\ UNCHANGED <<made, calling, handled, taken>>
        /\ closed' = closed \cup {<<c, "server">>}
    BY DEF FramingInv, Drop, Disconnect, Ways
  <1>2. /\ stream' \in [Clients -> [Ways -> Seq(Piece)]] /\ expect' \in [Clients -> [Ways -> Marks]]
        /\ stream'[c]["reply"] = stream[c]["reply"] /\ expect'[c]["reply"] = expect[c]["reply"]
        /\ \A d \in Clients \ {c} : stream'[d] = stream[d] /\ expect'[d] = expect[d]
    <2>1. CASE Disconnect(c)
      BY <1>1, <2>1 DEF Disconnect, TypeOK, Marks
    <2>2. ASSUME NEW n, Drop(c, n) PROVE <1>2!:
      <3>1. PICK w \in Ways : w = "request" /\ "reply" \in Ways \ {w}
        BY <1>1
      <3>2. RecvText(c, w, n)
        BY <2>2, <3>1 DEF Drop
      <3>3. /\ stream' \in [Clients -> [Ways -> Seq(Piece)]] /\ expect' \in [Clients -> [Ways -> Marks]]
            /\ \A v \in Ways \ {w} : stream'[c][v] = stream[c][v]
            /\ \A d \in Clients \ {c} : stream'[d] = stream[d]
            /\ \A v \in Ways \ {w} : expect'[c][v] = expect[c][v]
            /\ \A d \in Clients \ {c} : expect'[d] = expect[d]
        BY <1>1, <3>2, TextRead
      <3>. QED BY <3>1, <3>3
    <2>. QED BY <2>1, <2>2
  <1>3. closed \subseteq closed' /\ closed' \subseteq Clients \X {"client", "server"} /\ ~Serves(c)'
    BY <1>1 DEF TypeOK, Serves
  <1>4. TypeOK'
    BY <1>1, <1>2, <1>3 DEF TypeOK, Marks
  <1>5. ClientOK(c)'
    <2>1. RequestsOK(c)'
      BY <1>3 DEF RequestsOK
    <2>. QED BY <1>1, <1>2, <1>3, <2>1, SameReplies, SameCounts DEF ClientOK
  <1>6. ASSUME NEW d \in Clients \ {c} PROVE ClientOK(d)'
    BY <1>1, <1>2, <1>3, <1>6, SameClient DEF FramingInv
  <1>. QED BY <1>4, <1>5, <1>6 DEF FramingInv

-----------------------------------------------------------------------------
(* The client. *)

LEMMA CallKeeps ==
  ASSUME FramingInv, NEW c \in Clients, Call(c)
  PROVE  FramingInv'
  <1>1. /\ TypeOK /\ ClientOK(c) /\ "request" \in Ways /\ "reply" \in Ways \ {"request"}
        /\ Runs(c) /\ made[c] < MaxCalls /\ UNCHANGED <<expect, handled, taken>>
        /\ made' = [made EXCEPT ![c] = made[c] + 1]
    BY DEF FramingInv, Call, Ways
  <1>2. PICK s \in Seq(Piece), m \in Nat, h \in Nat :
          s = stream[c]["request"] /\ m = made[c] /\ h = Len(handled[c])
    BY <1>1, ClientTypes
  <1>3. /\ m + 1 \in 1 .. MaxCalls /\ m + 1 \in 0 .. MaxCalls
        /\ made' \in [Clients -> 0 .. MaxCalls] /\ made'[c] = m + 1
        /\ \A d \in Clients \ {c} : made'[d] = made[d]
    <2>1. m \in 0 .. MaxCalls /\ MaxCalls \in Nat
      BY <1>1, <1>2, ClientTypes
    <2>2. m + 1 \in 1 .. MaxCalls /\ m + 1 \in 0 .. MaxCalls
      BY <1>1, <1>2, <2>1
    <2>. QED BY <1>1, <1>2, <2>2 DEF TypeOK
  <1>4. calling' \in [Clients -> BOOLEAN]
    BY <1>1 DEF Call, TypeOK
  <1>5. CountsOK(c)'
    <2>1. CountsOK(c) /\ h <= m
      BY <1>1, <1>2 DEF ClientOK, CountsOK
    <2>. QED BY <1>1, <1>2, <1>3, <2>1 DEF CountsOK, Increasing
  <1>6. CASE Serves(c)
    <2>1. stream' = [stream EXCEPT ![c]["request"] = s \o Packet(m + 1)] /\ closed' = closed
      BY <1>2, <1>3, <1>6 DEF Call
    <2>2. /\ s \o Packet(m + 1) \in Seq(Piece)
          /\ Requests(s \o Packet(m + 1), expect[c]["request"], h, m + 1, TRUE)
      <3>1. Requests(s, expect[c]["request"], h, m, TRUE)
        BY <1>1, <1>2, <1>6 DEF ClientOK, RequestsOK
      <3>. QED BY <1>3, <3>1, RequestSent
    <2>3. PICK t \in Seq(Piece) : t = s \o Packet(m + 1)
      BY <2>2
    <2>4. /\ stream' \in [Clients -> [Ways -> Seq(Piece)]]
          /\ stream'[c]["request"] = t /\ stream'[c]["reply"] = stream[c]["reply"]
          /\ \A d \in Clients \ {c} : stream'[d] = stream[d]
      BY <1>1, <2>1, <2>3, PutRequest
    <2>5. Runs(c)' = TRUE
      BY <1>1, <2>1 DEF Runs
    <2>6. RequestsOK(c)'
      BY <1>1, <1>2, <1>3, <2>2, <2>3, <2>4, <2>5 DEF RequestsOK
    <2>7. RepliesOK(c)'
      BY <1>1, <2>1, <2>4, SameReplies DEF ClientOK
    <2>8. TypeOK'
      BY <1>1, <1>3, <1>4, <2>1, <2>4 DEF TypeOK
    <2>9. ASSUME NEW d \in Clients \ {c} PROVE ClientOK(d)'
      BY <1>1, <1>3, <2>1, <2>4, <2>9, SameClient DEF FramingInv
    <2>. QED BY <1>5, <2>6, <2>7, <2>8, <2>9 DEF FramingInv, ClientOK
  <1>7. CASE ~Serves(c)
    <2>1. /\ stream' = stream
          /\ closed \subseteq closed' /\ closed' \subseteq Clients \X {"client", "server"}
      <3>1. stream' = [stream EXCEPT ![c]["request"] = stream[c]["request"]] \/ stream' = stream
        BY <1>7 DEF Call
      <3>2. stream' = stream
        BY <1>1, <3>1 DEF TypeOK
      <3>3. closed' = closed \/ closed' = closed \cup {<<c, "client">>}
        BY DEF Call, Kill
      <3>4. closed \subseteq Clients \X {"client", "server"} /\ <<c, "client">> \in Clients \X {"client", "server"}
        BY <1>1 DEF TypeOK
      <3>. QED BY <3>2, <3>3, <3>4
    <2>2. ~Serves(c)'
      BY <1>7, <2>1, Closing
    <2>3. TypeOK'
      BY <1>1, <1>3, <1>4, <2>1 DEF TypeOK
    <2>4. RequestsOK(c)' /\ RepliesOK(c)'
      BY <1>1, <2>1, <2>2, SameReplies DEF ClientOK, RequestsOK
    <2>5. ASSUME NEW d \in Clients \ {c} PROVE ClientOK(d)'
      BY <1>1, <1>3, <2>1, <2>5, SameClient DEF FramingInv
    <2>. QED BY <1>5, <2>3, <2>4, <2>5 DEF FramingInv, ClientOK
  <1>. QED BY <1>6, <1>7

LEMMA ReplyLengthKeeps ==
  ASSUME FramingInv, NEW c \in Clients, RecvLength(c, "reply")
  PROVE  FramingInv'
  <1>1. /\ TypeOK /\ ClientOK(c) /\ Runs(c) /\ "reply" \in Ways /\ "request" \in Ways \ {"reply"}
        /\ UNCHANGED <<made, calling, handled, taken, closed>>
    BY DEF FramingInv, RecvLength, Ways
  <1>2. PICK s \in Seq(Piece), h \in Nat : s = stream[c]["reply"] /\ h = Len(handled[c])
    BY <1>1, ClientTypes
  <1>3. PICK e \in Marks : e = IF Head(s)[2] = 0 THEN "text" ELSE "garbage"
    BY DEF Marks
  <1>4. Tail(s) \in Seq(Piece) /\ Replies(Tail(s), e, h, taken[c])
    <2>1. s # <<>> /\ Replies(s, "length", h, taken[c])
      BY <1>1, <1>2 DEF RecvLength, ClientOK, RepliesOK
    <2>. QED BY <1>3, <2>1, ReplyBegun
  <1>5. PICK t \in Seq(Piece) : t = Tail(s)
    BY <1>4
  <1>6. PICK w \in Ways : w = "reply" /\ "request" \in Ways \ {w}
    BY <1>1
  <1>7. stream' = [stream EXCEPT ![c][w] = t] /\ expect' = [expect EXCEPT ![c][w] = e]
    BY <1>2, <1>3, <1>5, <1>6 DEF RecvLength
  <1>8. /\ stream' \in [Clients -> [Ways -> Seq(Piece)]]
        /\ stream'[c]["reply"] = t /\ stream'[c]["request"] = stream[c]["request"]
        /\ \A d \in Clients \ {c} : stream'[d] = stream[d]
    <2>1. /\ stream' \in [Clients -> [Ways -> Seq(Piece)]]
          /\ stream'[c][w] = t /\ \A v \in Ways \ {w} : stream'[c][v] = stream[c][v]
          /\ \A d \in Clients \ {c} : stream'[d] = stream[d]
      BY <1>1, <1>7, PutStream
    <2>. QED BY <1>6, <2>1
  <1>9. /\ expect' \in [Clients -> [Ways -> Marks]]
        /\ expect'[c]["reply"] = e /\ expect'[c]["request"] = expect[c]["request"]
        /\ \A d \in Clients \ {c} : expect'[d] = expect[d]
    <2>1. /\ expect' \in [Clients -> [Ways -> Marks]]
          /\ expect'[c][w] = e /\ \A v \in Ways \ {w} : expect'[c][v] = expect[c][v]
          /\ \A d \in Clients \ {c} : expect'[d] = expect[d]
      BY <1>1, <1>7, PutExpect
    <2>. QED BY <1>6, <2>1
  <1>10. TypeOK'
    BY <1>1, <1>8, <1>9 DEF TypeOK, Marks
  <1>11. RepliesOK(c)'
    BY <1>1, <1>2, <1>4, <1>5, <1>8, <1>9 DEF RepliesOK, Runs
  <1>12. RequestsOK(c)' /\ CountsOK(c)'
    BY <1>1, <1>8, <1>9, SameRequests, SameCounts DEF ClientOK
  <1>13. ASSUME NEW d \in Clients \ {c} PROVE ClientOK(d)'
    BY <1>1, <1>8, <1>9, <1>13, SameClient DEF FramingInv
  <1>. QED BY <1>10, <1>11, <1>12, <1>13 DEF FramingInv, ClientOK

\* Take and Short: the call returns with what it takes for its reply, or with -4.
LEMMA ReplyTextKeeps ==
  ASSUME FramingInv, NEW c \in Clients, NEW n, Take(c, n) \/ Short(c, n)
  PROVE  FramingInv'
  <1>1. /\ TypeOK /\ ClientOK(c) /\ Runs(c) /\ UNCHANGED <<made, handled, closed>>
        /\ calling' \in [Clients -> BOOLEAN]
    BY DEF FramingInv, Take, Short, TypeOK
  <1>2. PICK w \in Ways : w = "reply" /\ "request" \in Ways \ {w}
    BY DEF Ways
  <1>3. PICK s \in Seq(Piece), h \in Nat, q \in Seq(1 .. MaxCalls) :
          s = stream[c][w] /\ h = Len(handled[c]) /\ q = taken[c]
    BY <1>1, <1>2, ClientTypes
  <1>4. RecvText(c, w, n)
    BY <1>2 DEF Take, Short
  <1>5. /\ n \in 0 .. Len(s)
        /\ stream' \in [Clients -> [Ways -> Seq(Piece)]]
        /\ stream'[c][w] = SubSeq(s, n + 1, Len(s))
        /\ \A v \in Ways \ {w} : stream'[c][v] = stream[c][v]
        /\ \A d \in Clients \ {c} : stream'[d] = stream[d]
        /\ expect' \in [Clients -> [Ways -> Marks]] /\ expect'[c][w] = "length"
        /\ \A v \in Ways \ {w} : expect'[c][v] = expect[c][v]
        /\ \A d \in Clients \ {c} : expect'[d] = expect[d]
    BY <1>1, <1>3, <1>4, TextRead
  <1>6. Replies(s, expect[c][w], h, q)
    BY <1>1, <1>2, <1>3 DEF ClientOK, RepliesOK
  <1>7. PICK t : t = SubSeq(s, n + 1, Len(s))
    OBVIOUS
  <1>8. stream'[c]["request"] = stream[c]["request"] /\ expect'[c]["request"] = expect[c]["request"]
    BY <1>2, <1>5
  <1>9. RequestsOK(c)'
    BY <1>1, <1>8, SameRequests DEF ClientOK
  <1>10. PICK r : /\ r \in Seq(1 .. MaxCalls) /\ taken' = [taken EXCEPT ![c] = r]
                  /\ Replies(t, "length", h, r)
                  /\ \A j \in DOMAIN r : r[j] <= h
                  /\ Increasing(r)
    <2>1. CountsOK(c)
      BY <1>1 DEF ClientOK
    <2>2. CASE Short(c, n)
      <3>1. taken' = [taken EXCEPT ![c] = q]
        BY <1>1, <1>3, <2>2 DEF Short, TypeOK
      <3>2. PICK f : f = "length" /\ f # "text"
        OBVIOUS
      <3>3. Replies(t, f, h, q)
        BY <1>5, <1>6, <1>7, <3>2, ReplyLeft
      <3>4. Replies(t, "length", h, q)
        BY <3>2, <3>3
      <3>. QED BY <1>3, <2>1, <3>1, <3>4 DEF CountsOK
    <2>3. CASE Take(c, n)
      <3>1. n = Parts /\ Parts <= Len(s) /\ Replies(s, "text", h, q) /\ Parts \in Nat
        BY <1>2, <1>3, <1>5, <1>6, <2>3, StreamFacts DEF Take, Whole
      <3>2. /\ s # <<>> /\ s[1][1] <= h /\ s[1][1] \in 1 .. MaxCalls
            /\ \A j \in DOMAIN q : q[j] < s[1][1]
            /\ Replies(t, "length", h, Append(q, s[1][1]))
        BY <1>7, <3>1, ReplyTaken
      <3>3. PICK m \in 1 .. MaxCalls : m = s[1][1]
        BY <3>2
      <3>4. taken' = [taken EXCEPT ![c] = Append(q, m)]
        BY <1>2, <1>3, <2>3, <3>2, <3>3, StreamFacts DEF Take
      <3>5. PICK S : S = 1 .. MaxCalls
        OBVIOUS
      <3>6. q \in Seq(S) /\ m \in S
        BY <3>5
      <3>7. PICK r \in Seq(S) : /\ r = Append(q, m) /\ Len(r) = Len(q) + 1 /\ Len(q) \in Nat
                                /\ DOMAIN q = 1 .. Len(q) /\ DOMAIN r = 1 .. Len(q) + 1
                                /\ r[Len(q) + 1] = m /\ \A j \in 1 .. Len(q) : r[j] = q[j]
        <4>1. PICK r : r = Append(q, m)
          OBVIOUS
        <4>2. r \in Seq(S) /\ Len(r) = Len(q) + 1 /\ Len(q) \in Nat /\ DOMAIN q = 1 .. Len(q)
          BY <3>6, <4>1
        <4>3. DOMAIN r = 1 .. Len(q) + 1
          BY <4>2
        <4>4. r[Len(q) + 1] = m /\ \A j \in 1 .. Len(q) : r[j] = q[j]
          BY <3>6, <4>1
        <4>. QED BY <4>1, <4>2, <4>3, <4>4
      <3>8. \A j \in DOMAIN r : \/ j \in DOMAIN q /\ r[j] = q[j]
                                \/ j = Len(q) + 1 /\ r[j] = m
        <4>1. PICK l \in Nat : l = Len(q)
          BY <3>7
        <4>2. \A j \in 1 .. l + 1 : j \in 1 .. l \/ j = l + 1
          BY <4>1
        <4>. QED BY <3>7, <4>1, <4>2
      <3>9. \A j \in DOMAIN r : r[j] <= h
        BY <1>3, <2>1, <3>2, <3>3, <3>8 DEF CountsOK
      <3>10. Increasing(r)
        <4>1. SUFFICES ASSUME NEW i \in DOMAIN r, NEW j \in DOMAIN r, i < j
                       PROVE  r[i] < r[j]
          BY DEF Increasing
        <4>2. CASE j \in DOMAIN q
          <5>1. PICK l \in Nat : l = Len(q)
            BY <3>7
          <5>2. i \in DOMAIN q
            BY <3>7, <4>1, <4>2, <5>1
          <5>. QED BY <1>3, <2>1, <3>7, <4>1, <4>2, <5>2 DEF CountsOK, Increasing
        <4>3. CASE j \notin DOMAIN q
          <5>1. j = Len(q) + 1 /\ r[j] = m
            BY <3>8, <4>3
          <5>2. i \in DOMAIN q /\ r[i] = q[i]
            BY <3>7, <3>8, <4>1, <5>1
          <5>. QED BY <3>2, <3>3, <5>1, <5>2
        <4>. QED BY <4>2, <4>3
      <3>. QED BY <3>2, <3>3, <3>4, <3>5, <3>7, <3>9, <3>10
    <2>. QED BY <2>2, <2>3
  <1>11. /\ taken' \in [Clients -> Seq(1 .. MaxCalls)] /\ taken'[c] = r
         /\ \A d \in Clients \ {c} : taken'[d] = taken[d]
    BY <1>1, <1>10 DEF TypeOK
  <1>12. TypeOK'
    BY <1>1, <1>5, <1>11 DEF TypeOK, Marks
  <1>13. RepliesOK(c)'
    BY <1>1, <1>2, <1>3, <1>5, <1>7, <1>10, <1>11 DEF RepliesOK, Runs
  <1>14. CountsOK(c)'
    BY <1>1, <1>3, <1>10, <1>11 DEF ClientOK, CountsOK, Increasing
  <1>15. ASSUME NEW d \in Clients \ {c} PROVE ClientOK(d)'
    BY <1>1, <1>5, <1>11, <1>15, SameClient DEF FramingInv
  <1>. QED BY <1>9, <1>12, <1>13, <1>14, <1>15 DEF FramingInv, ClientOK

LEMMA TimeoutKeeps ==
  ASSUME FramingInv, NEW c \in Clients, Timeout(c)
  PROVE  FramingInv'
  <1>1. /\ TypeOK /\ ClientOK(c) /\ UNCHANGED <<stream, made, handled, taken, closed>>
        /\ calling' \in [Clients -> BOOLEAN]
    BY DEF FramingInv, Timeout, TypeOK
  <1>2. PICK w \in Ways, e \in Marks : w = "reply" /\ "request" \in Ways \ {w} /\ e = "length"
    BY DEF Ways, Marks
  <1>3. expect' = [expect EXCEPT ![c][w] = e]
    BY <1>2 DEF Timeout
  <1>4. /\ expect' \in [Clients -> [Ways -> Marks]]
        /\ expect'[c][w] = e /\ \A v \in Ways \ {w} : expect'[c][v] = expect[c][v]
        /\ \A d \in Clients \ {c} : expect'[d] = expect[d]
    BY <1>1, <1>3, PutExpect
  <1>5. TypeOK'
    BY <1>1, <1>4 DEF TypeOK, Marks
  <1>6. RequestsOK(c)' /\ CountsOK(c)'
    BY <1>1, <1>2, <1>4, SameRequests, SameCounts DEF ClientOK
  <1>7. RepliesOK(c)'
    BY <1>1, <1>2, <1>4 DEF ClientOK, RepliesOK, Replies, Runs
  <1>8. ASSUME NEW d \in Clients \ {c} PROVE ClientOK(d)'
    BY <1>1, <1>4, <1>8, SameClient DEF FramingInv
  <1>. QED BY <1>5, <1>6, <1>7, <1>8 DEF FramingInv, ClientOK

LEMMA ExitKeeps ==
  ASSUME FramingInv, NEW c \in Clients, Exit(c)
  PROVE  FramingInv'
  <1>1. /\ TypeOK /\ ClientOK(c) /\ UNCHANGED <<expect, made, calling, handled, taken>>
        /\ closed' = closed \cup {<<c, "client">>}
    BY DEF FramingInv, Exit
  <1>2. PICK w \in Ways : w = "request" /\ "reply" \in Ways \ {w}
    BY DEF Ways
  <1>3. PICK s \in Seq(Piece), h \in Nat, m \in Nat :
          s = stream[c][w] /\ h = Len(handled[c]) /\ m = made[c]
    BY <1>1, <1>2, ClientTypes
  <1>4. PICK n \in 0 .. Len(s) : stream' = [stream EXCEPT ![c][w] = SubSeq(s, 1, n)]
    BY <1>2, <1>3 DEF Exit
  <1>5. /\ SubSeq(s, 1, n) \in Seq(Piece)
        /\ Serves(c) => Requests(SubSeq(s, 1, n), expect[c][w], h, m, FALSE)
    <2>1. CASE Serves(c)
      <3>1. Requests(s, expect[c][w], h, m, Runs(c))
        BY <1>1, <1>2, <1>3, <2>1 DEF ClientOK, RequestsOK
      <3>. QED BY <3>1, RequestCut
    <2>2. SubSeq(s, 1, n) \in Seq(Piece)
      <3>1. 1 \in 1 .. Len(s) + 1
        BY StreamFacts
      <3>. QED BY <3>1, SubSeqProperties
    <2>. QED BY <2>1, <2>2
  <1>6. PICK t \in Seq(Piece) : t = SubSeq(s, 1, n)
    BY <1>5
  <1>7. stream' = [stream EXCEPT ![c][w] = t]
    BY <1>4, <1>6
  <1>8. /\ stream' \in [Clients -> [Ways -> Seq(Piece)]]
        /\ stream'[c][w] = t /\ \A d \in Clients \ {c} : stream'[d] = stream[d]
    BY <1>1, <1>7, PutStream
  <1>9. /\ closed \subseteq closed' /\ closed' \subseteq Clients \X {"client", "server"}
        /\ Runs(c)' = FALSE /\ Serves(c)' = Serves(c)
    BY <1>1 DEF TypeOK, Runs, Serves
  <1>10. TypeOK'
    BY <1>1, <1>8, <1>9 DEF TypeOK
  <1>11. RequestsOK(c)'
    BY <1>1, <1>2, <1>3, <1>5, <1>6, <1>8, <1>9 DEF RequestsOK
  <1>12. RepliesOK(c)' /\ CountsOK(c)'
    BY <1>1, <1>9, SameCounts DEF ClientOK, RepliesOK
  <1>13. ASSUME NEW d \in Clients \ {c} PROVE ClientOK(d)'
    BY <1>1, <1>8, <1>9, <1>13, SameClient DEF FramingInv
  <1>. QED BY <1>10, <1>11, <1>12, <1>13 DEF FramingInv, ClientOK

-----------------------------------------------------------------------------
LEMMA FramingInit == Init => FramingInv
  <1>. SUFFICES ASSUME Init PROVE FramingInv
    OBVIOUS
  <1>1. TypeOK
    <2>1. MaxCalls \in Nat
      BY FramingAssumption
    <2>. QED BY <2>1 DEF Init, TypeOK
  <1>2. ASSUME NEW c \in Clients PROVE ClientOK(c)
    <2>1. PICK s : s = <<>>
      OBVIOUS
    <2>2. /\ stream[c]["request"] = s /\ stream[c]["reply"] = s
          /\ expect[c]["request"] = "length" /\ expect[c]["reply"] = "length"
          /\ made[c] = 0 /\ handled[c] = s /\ taken[c] = s
      BY <2>1 DEF Init, Ways
    <2>3. DOMAIN s = {} /\ Len(s) = 0 /\ Orderly(s) /\ \A m : EndsWith(s, m)
      BY <2>1, OrderlyEmpty
    <2>4. RequestsOK(c) /\ RepliesOK(c)
      BY <2>1, <2>2, <2>3 DEF RequestsOK, RepliesOK, Requests, Replies
    <2>5. CountsOK(c)
      BY <2>2, <2>3 DEF CountsOK, Increasing
    <2>. QED BY <2>4, <2>5 DEF ClientOK
  <1>. QED BY <1>1, <1>2 DEF FramingInv

LEMMA FramingStep == FramingInv /\ [Next]_vars => FramingInv'
  <1>. SUFFICES ASSUME FramingInv, [Next]_vars PROVE FramingInv'
    OBVIOUS
  <1>1. ASSUME NEW c \in Clients, ThreadStep(c) PROVE FramingInv'
    BY <1>1, RequestLengthKeeps, HandleKeeps, QuitKeeps DEF ThreadStep
  <1>2. ASSUME NEW c \in Clients, ClientStep(c) PROVE FramingInv'
    BY <1>2, CallKeeps, ExitKeeps, TimeoutKeeps, ReplyLengthKeeps, ReplyTextKeeps DEF ClientStep
  <1>3. CASE UNCHANGED vars
    <2>1. TypeOK'
      BY <1>3 DEF vars, FramingInv, TypeOK
    <2>2. \A c \in Clients : ClientOK(c)'
      BY <1>3, SameClient DEF vars, FramingInv
    <2>. QED BY <2>1, <2>2 DEF FramingInv
  <1>. QED BY <1>1, <1>2, <1>3 DEF Next

\* The streams hold consecutive pieces of consecutive messages, whatever recv
\* returns, and a thread never takes one for something else (secure_socket.cpp).
THEOREM FramingInvariant == FairSpec => []FramingInv
  BY FramingInit, FramingStep, PTL DEF FairSpec

\* Every variable keeps its type: nothing is read that is not a piece of a message.
THEOREM FramingTypes == FairSpec => []TypeOK
  <1>1. FramingInv => TypeOK
    BY DEF FramingInv
  <1>. QED BY <1>1, FramingInvariant, PTL

\* A thread handles the requests of its client in order and each once, for any
\* number of calls and of pieces (server.cpp).
THEOREM RequestsHandledInOrder == FairSpec => []HandledInOrder
  <1>1. FramingInv => HandledInOrder
    <2>1. ASSUME FramingInv, NEW c \in Clients, NEW i \in DOMAIN handled[c]
          PROVE  handled[c][i] = i /\ i <= made[c]
      <3>1. CountsOK(c) /\ TypeOK
        BY <2>1 DEF FramingInv, ClientOK
      <3>2. i \in 1 .. Len(handled[c]) /\ Len(handled[c]) \in Nat /\ made[c] \in Nat
        BY <3>1, ClientTypes
      <3>. QED BY <3>1, <3>2 DEF CountsOK
    <2>. QED BY <2>1 DEF HandledInOrder
  <1>. QED BY <1>1, FramingInvariant, PTL

\* The replies a client takes are whole ones to requests that were handled, in
\* order and none twice, even after it has lost its place in the stream (client.cpp).
THEOREM RepliesTakenInOrder == FairSpec => []TakenInOrder
  <1>1. ASSUME FramingInv, NEW c \in Clients
        PROVE  Increasing(taken[c]) /\ Range(taken[c]) \subseteq Range(handled[c])
    <2>1. CountsOK(c) /\ TypeOK
      BY <1>1 DEF FramingInv, ClientOK
    <2>2. ASSUME NEW j \in DOMAIN taken[c] PROVE taken[c][j] \in Range(handled[c])
      <3>1. PICK S : S = 1 .. MaxCalls
        OBVIOUS
      <3>2. taken[c] \in Seq(S) /\ handled[c] \in Seq(S) /\ MaxCalls \in Nat
        BY <2>1, <3>1, ClientTypes
      <3>3. PICK m \in S : m = taken[c][j]
        BY <3>2
      <3>4. m <= Len(handled[c]) /\ m \in 1 .. MaxCalls
        BY <2>1, <3>1, <3>3 DEF CountsOK
      <3>5. m \in DOMAIN handled[c]
        BY <3>2, <3>4
      <3>6. handled[c][m] = m
        BY <2>1, <3>5 DEF CountsOK
      <3>. QED BY <3>3, <3>5, <3>6 DEF Range
    <2>. QED BY <2>1, <2>2 DEF CountsOK, Range
  <1>2. FramingInv => TakenInOrder
    BY <1>1 DEF TakenInOrder
  <1>. QED BY <1>2, FramingInvariant, PTL
=============================================================================
