--------------------------- MODULE ProtocolProofs ----------------------------
(***************************************************************************)
(* Theorems about Protocol, for any number of orders, notifications and    *)
(* time-outs and any way of cutting the stream: an order is handled at     *)
(* most once, in its turn and with no quantity but its own; a client in    *)
(* step has all its orders handled in full.                                *)
(***************************************************************************)
EXTENDS Protocol, SequenceTheorems, TLAPS

----------------------------------------------------------------------------
(* The stream. *)

LEMMA MessageFacts == \A m \in Messages : m \in Nat /\ m \in Int
BY ProtocolAssumption DEF Messages

LEMMA UnitFields ==
    ASSUME NEW u \in Units
    PROVE  /\ u.of \in Messages /\ u.of \in Nat
           /\ u.part \in {"tag1", "tag2", "fields", "value1", "value2", "nl"}
           /\ u # Nul
BY MessageFacts DEF Units, Nul

LEMMA MessageIs ==
    ASSUME NEW m \in Messages
    PROVE  /\ Message(m) \in Seq(Units)
           /\ \A i \in 1 .. Len(Message(m)) : Message(m)[i].of = m
           /\ m = 0 => /\ Len(Message(m)) = 5
                       /\ Message(m)[1].part = "tag1"
                       /\ Message(m)[2].part = "tag2"
                       /\ Message(m)[3].part = "value1"
                       /\ Message(m)[4].part = "value2"
                       /\ Message(m)[5].part = "nl"
           /\ m # 0 => /\ Len(Message(m)) = 6
                       /\ Message(m)[1].part = "tag1"
                       /\ Message(m)[2].part = "tag2"
                       /\ Message(m)[3].part = "fields"
                       /\ Message(m)[4].part = "value1"
                       /\ Message(m)[5].part = "value2"
                       /\ Message(m)[6].part = "nl"
<1>1. CASE m = 0
  <2>1. /\ DOMAIN Parts(m) = 1 .. 5
        /\ Parts(m)[1] = "tag1" /\ Parts(m)[2] = "tag2" /\ Parts(m)[3] = "value1"
        /\ Parts(m)[4] = "value2" /\ Parts(m)[5] = "nl"
    BY <1>1 DEF Parts
  <2>2. Message(m) = [i \in 1 .. 5 |-> [of |-> m, part |-> Parts(m)[i]]]
    BY <2>1 DEF Message
  <2>3. \A i \in 1 .. 5 : [of |-> m, part |-> Parts(m)[i]] \in Units
    BY <2>1 DEF Units
  <2>4. Message(m) \in [1 .. 5 -> Units]
    BY <2>2, <2>3
  <2>5. Message(m) \in Seq(Units)
    BY <2>4, SeqDef
  <2>6. Len(Message(m)) = 5
    BY <2>4, <2>5, LenProperties
  <2>7. \A i \in 1 .. 5 : Message(m)[i] = [of |-> m, part |-> Parts(m)[i]]
    BY <2>2
  <2>8. QED
    BY <1>1, <2>1, <2>5, <2>6, <2>7
<1>2. CASE m # 0
  <2>1. /\ DOMAIN Parts(m) = 1 .. 6
        /\ Parts(m)[1] = "tag1" /\ Parts(m)[2] = "tag2" /\ Parts(m)[3] = "fields"
        /\ Parts(m)[4] = "value1" /\ Parts(m)[5] = "value2" /\ Parts(m)[6] = "nl"
    BY <1>2 DEF Parts
  <2>2. Message(m) = [i \in 1 .. 6 |-> [of |-> m, part |-> Parts(m)[i]]]
    BY <2>1 DEF Message
  <2>3. \A i \in 1 .. 6 : [of |-> m, part |-> Parts(m)[i]] \in Units
    BY <2>1 DEF Units
  <2>4. Message(m) \in [1 .. 6 -> Units]
    BY <2>2, <2>3
  <2>5. Message(m) \in Seq(Units)
    BY <2>4, SeqDef
  <2>6. Len(Message(m)) = 6
    BY <2>4, <2>5, LenProperties
  <2>7. \A i \in 1 .. 6 : Message(m)[i] = [of |-> m, part |-> Parts(m)[i]]
    BY <2>2
  <2>8. QED
    BY <1>2, <2>1, <2>5, <2>6, <2>7
<1>3. QED
  BY <1>1, <1>2

(* Two sequences joined. *)
LEMMA JoinIs ==
    ASSUME NEW S, NEW s \in Seq(S), NEW t \in Seq(S)
    PROVE  /\ s \o t \in Seq(S) /\ Len(s \o t) = Len(s) + Len(t)
           /\ \A i \in 1 .. Len(s) : (s \o t)[i] = s[i]
           /\ \A i \in 1 .. Len(t) : (s \o t)[Len(s) + i] = t[i]
<1> DEFINE both == s \o t
<1>1. Len(s) \in Nat /\ Len(t) \in Nat
  BY LenProperties
<1>2. /\ both \in Seq(S) /\ Len(both) = Len(s) + Len(t)
      /\ \A i \in 1 .. Len(s) + Len(t) :
            both[i] = IF i <= Len(s) THEN s[i] ELSE t[i - Len(s)]
  BY ConcatProperties
<1> HIDE DEF both
<1>3. \A i \in 1 .. Len(s) : both[i] = s[i]
  BY <1>1, <1>2
<1>4. ASSUME NEW i \in 1 .. Len(t)
      PROVE  both[Len(s) + i] = t[i]
  <2>1. /\ Len(s) + i \in 1 .. Len(s) + Len(t) /\ ~ (Len(s) + i <= Len(s))
        /\ (Len(s) + i) - Len(s) = i
    BY <1>1
  <2>2. QED
    BY <1>2, <2>1
<1>5. QED
  BY <1>2, <1>3, <1>4 DEF both

LEMMA NotEmptyLen ==
    ASSUME NEW S, NEW s \in Seq(S)
    PROVE  s # << >> <=> Len(s) # 0
BY EmptySeq

(* The unit v comes right behind u in what a client sends. *)
Follows(v, u) ==
    \/ u.part = "nl" /\ v.of = u.of + 1 /\ v.part = "tag1"
    \/ /\ v.of = u.of
       /\ \/ u.part = "tag1" /\ v.part = "tag2"
          \/ u.part = "tag2" /\ u.of = 0 /\ v.part = "value1"
          \/ u.part = "tag2" /\ u.of # 0 /\ v.part = "fields"
          \/ u.part = "fields" /\ v.part = "value1"
          \/ u.part = "value1" /\ v.part = "value2"
          \/ u.part = "value2" /\ v.part = "nl"

(* A part of what a client sends: nothing is missing in it, nothing is in it
   twice, and of two messages the one sent first comes first. *)
InOrder(list) ==
    /\ \A i \in 1 .. Len(list) - 1 : Follows(list[i + 1], list[i])
    /\ \A i, j \in 1 .. Len(list) :
          i < j /\ list[i].part = list[j].part => list[i].of < list[j].of

(* It goes as far as the end of message m. *)
EndsWith(list, m) ==
    list # << >> => list[Len(list)].of = m /\ list[Len(list)].part = "nl"

LEMMA InOrderMessage ==
    ASSUME NEW m \in Messages
    PROVE  InOrder(Message(m)) /\ EndsWith(Message(m), m)
<1>1. CASE m = 0
  <2>1. \A i \in 1 .. 5 : Message(m)[i].of = m
    BY <1>1, MessageIs
  <2>2. \A i \in 1 .. 4 : Follows(Message(m)[i + 1], Message(m)[i])
    BY <1>1, <2>1, MessageIs DEF Follows
  <2>3. \A i, j \in 1 .. 5 : i < j => Message(m)[i].part # Message(m)[j].part
    BY <1>1, MessageIs
  <2>4. Len(Message(m)) = 5 /\ Message(m)[5].of = m /\ Message(m)[5].part = "nl"
    BY <1>1, <2>1, MessageIs
  <2>5. InOrder(Message(m))
    <3>1. \A i \in 1 .. Len(Message(m)) - 1 : Follows(Message(m)[i + 1], Message(m)[i])
      BY <2>2, <2>4
    <3>2. \A i, j \in 1 .. Len(Message(m)) :
             i < j => Message(m)[i].part # Message(m)[j].part
      BY <2>3, <2>4
    <3>3. QED
      BY ONLY <3>1, <3>2 DEF InOrder
  <2>6. QED
    BY <2>4, <2>5 DEF EndsWith
<1>2. CASE m # 0
  <2>1. \A i \in 1 .. 6 : Message(m)[i].of = m
    BY <1>2, MessageIs
  <2>2. \A i \in 1 .. 5 : Follows(Message(m)[i + 1], Message(m)[i])
    BY <1>2, <2>1, MessageIs DEF Follows
  <2>3. \A i, j \in 1 .. 6 : i < j => Message(m)[i].part # Message(m)[j].part
    BY <1>2, MessageIs
  <2>4. Len(Message(m)) = 6 /\ Message(m)[6].of = m /\ Message(m)[6].part = "nl"
    BY <1>2, <2>1, MessageIs
  <2>5. InOrder(Message(m))
    <3>1. \A i \in 1 .. Len(Message(m)) - 1 : Follows(Message(m)[i + 1], Message(m)[i])
      BY <2>2, <2>4
    <3>2. \A i, j \in 1 .. Len(Message(m)) :
             i < j => Message(m)[i].part # Message(m)[j].part
      BY <2>3, <2>4
    <3>3. QED
      BY ONLY <3>1, <3>2 DEF InOrder
  <2>6. QED
    BY <2>4, <2>5 DEF EndsWith
<1>3. QED
  BY <1>1, <1>2

(* A message behind the one before it. *)
LEMMA InOrderSent ==
    ASSUME NEW m \in Messages, NEW s \in Seq(Units), InOrder(s),
           \A i \in 1 .. Len(s) : s[i].of < m,
           EndsWith(s, m - 1)
    PROVE  /\ s \o Message(m) \in Seq(Units)
           /\ InOrder(s \o Message(m)) /\ EndsWith(s \o Message(m), m)
           /\ \A i \in 1 .. Len(s \o Message(m)) : (s \o Message(m))[i].of < m + 1
<1> DEFINE k == Len(s)
           l == Len(Message(m))
           both == s \o Message(m)
<1>1. k \in Nat /\ l \in Nat /\ l >= 5 /\ m \in Nat
  BY MessageIs, LenProperties, MessageFacts
<1>2. /\ both \in Seq(Units) /\ Len(both) = k + l
      /\ \A i \in 1 .. k : both[i] = s[i]
      /\ \A i \in 1 .. l : both[k + i] = Message(m)[i]
  BY JoinIs, MessageIs
<1>3. InOrder(Message(m)) /\ EndsWith(Message(m), m)
  BY InOrderMessage
<1>4. \A i \in 1 .. l : Message(m)[i].of = m
  BY MessageIs
<1>5. Message(m)[1].part = "tag1" /\ Message(m)[l].part = "nl"
  BY MessageIs
<1>6. k # 0 => s[k].of = m - 1 /\ s[k].part = "nl"
  BY NotEmptyLen DEF EndsWith
<1>7. both # << >>
  BY <1>1, <1>2, NotEmptyLen
<1> HIDE DEF both, k, l
<1>8. \A i \in 1 .. k + l : i \in 1 .. k \/ \E j \in 1 .. l : i = k + j
  <2>1. ASSUME NEW i \in 1 .. k + l, i \notin 1 .. k
        PROVE  i - k \in 1 .. l /\ i = k + (i - k)
    BY <1>1, <2>1
  <2>2. QED
    BY <2>1
<1>9. ASSUME NEW i \in 1 .. k + l - 1
      PROVE  Follows(both[i + 1], both[i])
  <2>1. CASE i < k
    <3>1. i \in 1 .. k /\ i + 1 \in 1 .. k /\ i \in 1 .. k - 1
      BY <1>1, <2>1
    <3>2. both[i] = s[i] /\ both[i + 1] = s[i + 1]
      BY <1>2, <3>1
    <3>3. QED
      BY <3>1, <3>2 DEF InOrder, k
  <2>2. CASE i = k
    <3>1. k \in 1 .. k /\ 1 \in 1 .. l /\ k # 0
      BY <1>1, <2>2
    <3>2. both[k] = s[k] /\ both[k + 1] = Message(m)[1]
      BY <1>2, <3>1
    <3>3. QED
      BY <1>1, <1>4, <1>5, <1>6, <2>2, <3>1, <3>2 DEF Follows
  <2>3. CASE i > k
    <3>1. PICK j \in 1 .. l - 1 : i = k + j
      <4>1. i - k \in 1 .. l - 1 /\ i = k + (i - k)
        BY <1>1, <2>3
      <4>2. QED
        BY <4>1
    <3>2. j \in 1 .. l /\ j + 1 \in 1 .. l /\ i + 1 = k + (j + 1)
      BY <1>1, <3>1
    <3>3. both[i] = Message(m)[j] /\ both[i + 1] = Message(m)[j + 1]
      BY <1>2, <3>1, <3>2
    <3>4. QED
      BY <1>3, <3>3 DEF InOrder, l
  <2>4. QED
    BY <1>1, <2>1, <2>2, <2>3
<1>10. ASSUME NEW i \in 1 .. k + l, NEW j \in 1 .. k + l, i < j,
              both[i].part = both[j].part
       PROVE  both[i].of < both[j].of
  <2>1. CASE j \in 1 .. k
    <3>1. i \in 1 .. k
      BY <1>1, <1>10, <2>1
    <3>2. both[i] = s[i] /\ both[j] = s[j]
      BY <1>2, <2>1, <3>1
    <3>3. QED
      BY <1>10, <2>1, <3>1, <3>2 DEF InOrder, k
  <2>2. CASE i \in 1 .. k /\ j \notin 1 .. k
    <3>1. PICK n \in 1 .. l : j = k + n
      BY <1>8, <2>2
    <3>2. both[i] = s[i] /\ both[j] = Message(m)[n]
      BY <1>2, <2>2, <3>1
    <3>3. QED
      BY <1>4, <2>2, <3>1, <3>2 DEF k
  <2>3. CASE i \notin 1 .. k
    <3>1. PICK o \in 1 .. l : i = k + o
      BY <1>8, <2>3
    <3>2. j \notin 1 .. k
      BY <1>1, <1>10, <2>3
    <3>3. PICK n \in 1 .. l : j = k + n
      BY <1>8, <3>2
    <3>4. both[i] = Message(m)[o] /\ both[j] = Message(m)[n]
      BY <1>2, <3>1, <3>3
    <3>5. o < n
      BY <1>1, <1>10, <3>1, <3>3
    <3>6. QED
      BY <1>3, <1>10, <3>4, <3>5 DEF InOrder, l
  <2>4. QED
    BY <2>1, <2>2, <2>3
<1>11. ASSUME NEW i \in 1 .. k + l
       PROVE  both[i].of < m + 1
  <2>1. CASE i \in 1 .. k
    BY <1>1, <1>2, <2>1, UnitFields, ElementOfSeq DEF k
  <2>2. CASE i \notin 1 .. k
    <3>1. PICK n \in 1 .. l : i = k + n
      BY <1>8, <2>2
    <3>2. QED
      BY <1>1, <1>2, <1>4, <3>1
  <2>3. QED
    BY <2>1, <2>2
<1>12. EndsWith(both, m)
  <2>1. l \in 1 .. l
    BY <1>1
  <2>2. both[Len(both)] = Message(m)[l]
    BY <1>2, <2>1
  <2>3. QED
    BY <1>4, <1>5, <2>1, <2>2 DEF EndsWith
<1>13. InOrder(both)
  <2>1. \A i \in 1 .. Len(both) - 1 : Follows(both[i + 1], both[i])
    <3>1. Len(both) = k + l
      BY <1>2
    <3>2. \A i \in 1 .. k + l - 1 : Follows(both[i + 1], both[i])
      BY <1>9
    <3>3. QED
      BY <1>1, <3>1, <3>2
  <2>2. \A i, j \in 1 .. Len(both) :
           i < j /\ both[i].part = both[j].part => both[i].of < both[j].of
    BY <1>2, <1>10
  <2>3. QED
    BY ONLY <2>1, <2>2 DEF InOrder
<1>14. QED
  BY <1>2, <1>11, <1>12, <1>13 DEF both
(* What a recv takes, and what it leaves. *)
LEMMA Taken ==
    ASSUME NEW S, NEW s \in Seq(S), NEW n \in 1 .. Len(s)
    PROVE  /\ SubSeq(s, 1, n) \in Seq(S) /\ Len(SubSeq(s, 1, n)) = n
           /\ \A i \in 1 .. n : SubSeq(s, 1, n)[i] = s[i]
BY LenProperties, SubSeqProperties, ElementOfSeq

LEMMA LeftOver ==
    ASSUME NEW S, NEW s \in Seq(S), NEW n \in 1 .. Len(s)
    PROVE  LET rest == SubSeq(s, n + 1, Len(s)) IN
           /\ rest \in Seq(S) /\ Len(rest) = Len(s) - n
           /\ \A i \in 1 .. Len(s) - n : rest[i] = s[n + i] /\ n + i \in 1 .. Len(s)
<1> DEFINE rest == SubSeq(s, n + 1, Len(s))
<1>1. Len(s) \in Nat /\ \A i \in n + 1 .. Len(s) : s[i] \in S
  BY LenProperties, ElementOfSeq
<1>2. /\ rest \in Seq(S)
      /\ Len(rest) = IF n + 1 <= Len(s) THEN Len(s) - (n + 1) + 1 ELSE 0
      /\ \A i \in 1 .. Len(s) - (n + 1) + 1 : rest[i] = s[(n + 1) + i - 1]
  BY <1>1, SubSeqProperties
<1>3. QED
  BY <1>1, <1>2

LEMMA InOrderTaken ==
    ASSUME NEW s \in Seq(Units), InOrder(s), NEW n \in 1 .. Len(s)
    PROVE  InOrder(SubSeq(s, 1, n))
<1> DEFINE part == SubSeq(s, 1, n)
<1>1. /\ Len(part) = n /\ Len(s) \in Nat
      /\ \A i \in 1 .. n : part[i] = s[i] /\ i \in 1 .. Len(s)
  BY Taken, LenProperties
<1> HIDE DEF part
<1>2. ASSUME NEW i \in 1 .. n - 1
      PROVE  Follows(part[i + 1], part[i])
  <2>1. /\ part[i] = s[i] /\ part[i + 1] = s[i + 1]
        /\ i \in 1 .. Len(s) - 1
    BY <1>1, <1>2
  <2>2. QED
    BY <2>1 DEF InOrder
<1>3. ASSUME NEW i \in 1 .. n, NEW j \in 1 .. n, i < j, part[i].part = part[j].part
      PROVE  part[i].of < part[j].of
  <2>1. /\ part[i] = s[i] /\ part[j] = s[j]
        /\ i \in 1 .. Len(s) /\ j \in 1 .. Len(s)
    BY <1>1, <1>3
  <2>2. QED
    BY <1>3, <2>1 DEF InOrder
<1>4. QED
  BY <1>1, <1>2, <1>3 DEF InOrder, part

LEMMA InOrderLeft ==
    ASSUME NEW s \in Seq(Units), InOrder(s), NEW n \in 1 .. Len(s)
    PROVE  InOrder(SubSeq(s, n + 1, Len(s)))
<1> DEFINE rest == SubSeq(s, n + 1, Len(s))
           k == Len(s) - n
<1>1. /\ Len(rest) = k /\ Len(s) \in Nat /\ k \in Nat
      /\ \A i \in 1 .. k : rest[i] = s[n + i] /\ n + i \in 1 .. Len(s)
  BY LeftOver, LenProperties
<1> HIDE DEF rest
<1>2. ASSUME NEW i \in 1 .. k - 1
      PROVE  Follows(rest[i + 1], rest[i])
  <2>1. /\ rest[i] = s[n + i] /\ rest[i + 1] = s[(n + i) + 1]
        /\ n + i \in 1 .. Len(s) - 1
    BY <1>1, <1>2
  <2>2. QED
    BY <2>1 DEF InOrder
<1>3. ASSUME NEW i \in 1 .. k, NEW j \in 1 .. k, i < j, rest[i].part = rest[j].part
      PROVE  rest[i].of < rest[j].of
  <2>1. /\ rest[i] = s[n + i] /\ rest[j] = s[n + j] /\ n + i < n + j
        /\ n + i \in 1 .. Len(s) /\ n + j \in 1 .. Len(s)
    BY <1>1, <1>3
  <2>2. QED
    BY <1>3, <2>1 DEF InOrder
<1>4. QED
  BY <1>1, <1>2, <1>3 DEF InOrder, rest

----------------------------------------------------------------------------
(* The buffer: the terminator keeps what was in it before out of the text. *)
LEMMA TextOfFill ==
    ASSUME NEW received \in Seq(Units), NEW old \in Seq(Units \cup {Nul})
    PROVE  /\ Fill(received, old) \in Seq(Units \cup {Nul})
           /\ Text(Fill(received, old)) = received
<1> DEFINE S == Units \cup {Nul}
           tail == SubSeq(old, Len(received) + 2, Len(old))
           head == received \o <<Nul>>
           chars == head \o tail
           k == Len(received)
           nuls == {i \in DOMAIN chars : chars[i] = Nul}
<1>1. received \in Seq(S) /\ k \in Nat /\ <<Nul>> \in Seq(S) /\ Len(<<Nul>>) = 1
  BY SeqMonotonic, LenProperties
<1>2. tail \in Seq(S)
  <2>1. Len(old) \in Nat /\ \A i \in k + 2 .. Len(old) : old[i] \in S
    BY <1>1, LenProperties, ElementOfSeq
  <2> HIDE DEF S
  <2>2. QED
    BY <1>1, <2>1, SubSeqProperties
<1> HIDE DEF S, tail
<1>3. /\ head \in Seq(S) /\ Len(head) = k + 1
      /\ \A i \in 1 .. k : head[i] = received[i]
      /\ head[k + 1] = Nul
  <2>1. 1 \in 1 .. Len(<<Nul>>) /\ <<Nul>>[1] = Nul
    BY <1>1
  <2> HIDE DEF S
  <2>2. QED
    BY <1>1, <2>1, JoinIs
<1> HIDE DEF head
<1>4. /\ chars \in Seq(S) /\ Len(chars) = k + 1 + Len(tail) /\ Len(tail) \in Nat
      /\ \A i \in 1 .. k + 1 : chars[i] = head[i]
  <2>1. Len(tail) \in Nat
    BY <1>2, LenProperties
  <2>2. /\ chars \in Seq(S) /\ Len(chars) = Len(head) + Len(tail)
        /\ \A i \in 1 .. Len(head) : chars[i] = head[i]
    BY <1>2, <1>3, JoinIs
  <2> HIDE DEF k, chars
  <2>3. QED
    BY <1>3, <2>1, <2>2
<1> HIDE DEF chars
<1>5. DOMAIN chars = 1 .. Len(chars)
  BY <1>4, LenProperties
<1>6. \A i \in 1 .. k : chars[i] = received[i] /\ chars[i] # Nul
  <2>1. \A i \in 1 .. k : received[i] # Nul
    BY <1>1, ElementOfSeq, UnitFields
  <2>2. QED
    BY <1>1, <1>3, <1>4, <2>1
<1>7. chars[k + 1] = Nul /\ k + 1 \in DOMAIN chars
  BY <1>1, <1>3, <1>4, <1>5
<1>8. \A i \in nuls : k + 1 <= i /\ i \in Nat
  BY <1>1, <1>4, <1>5, <1>6
<1>9. k + 1 \in nuls
  BY <1>7
<1> HIDE DEF nuls
<1>10. (CHOOSE i \in nuls : \A j \in nuls : i <= j) = k + 1
  <2>1. \A i \in nuls : (\A j \in nuls : i <= j) => i = k + 1
    BY <1>1, <1>8, <1>9
  <2>2. QED
    BY <1>8, <1>9, <2>1
<1>11. Text(chars) = SubSeq(chars, 1, k)
  <2>1. Text(chars) = IF nuls = {} THEN chars
                      ELSE SubSeq(chars, 1, (CHOOSE i \in nuls : \A j \in nuls : i <= j) - 1)
    BY DEF Text, nuls
  <2>2. nuls # {} /\ (k + 1) - 1 = k
    BY <1>1, <1>9
  <2>3. QED
    BY <1>10, <2>1, <2>2
<1>12. SubSeq(chars, 1, k) = received
  <2>1. \A i \in 1 .. k : chars[i] \in S
    BY <1>4, <1>1, ElementOfSeq
  <2>2. /\ SubSeq(chars, 1, k) \in Seq(S)
        /\ Len(SubSeq(chars, 1, k)) = k
        /\ \A i \in 1 .. k : SubSeq(chars, 1, k)[i] = chars[i]
    BY <1>1, <2>1, SubSeqProperties
  <2>3. QED
    BY <1>1, <1>6, <2>2, SeqEqual
<1>13. Fill(received, old) = chars
  BY DEF Fill, chars, head, tail
<1>14. QED
  BY <1>4, <1>11, <1>12, <1>13 DEF S

----------------------------------------------------------------------------
(* What is made of a text. *)

LEMMA UnitIs ==
    ASSUME NEW u \in Units
    PROVE  u = [of |-> u.of, part |-> u.part]
BY DEF Units

LEMMA OneUnit ==
    ASSUME NEW s \in Seq(Units), NEW a \in Units, Len(s) = 1, s[1] = a
    PROVE  s = <<a>>
<1> DEFINE t == <<a>>
<1>1. t \in Seq(Units) /\ Len(t) = 1 /\ t[1] = a
  OBVIOUS
<1> HIDE DEF t
<1>2. Len(s) = Len(t) /\ \A i \in 1 .. Len(s) : s[i] = t[i]
  BY <1>1
<1>3. s = t
  BY <1>1, <1>2, SeqEqual
<1>4. QED
  BY <1>3 DEF t

LEMMA TwoUnits ==
    ASSUME NEW s \in Seq(Units), NEW a \in Units, NEW b \in Units,
           Len(s) = 2, s[1] = a, s[2] = b
    PROVE  s = <<a, b>>
<1> DEFINE t == <<a, b>>
<1>1. t \in Seq(Units) /\ Len(t) = 2 /\ t[1] = a /\ t[2] = b
  OBVIOUS
<1> HIDE DEF t
<1>2. Len(s) = Len(t) /\ \A i \in 1 .. Len(s) : s[i] = t[i]
  BY <1>1
<1>3. s = t
  BY <1>1, <1>2, SeqEqual
<1>4. QED
  BY <1>3 DEF t

LEMMA BeginningOfValue ==
    ASSUME NEW a \in Units, NEW b \in Units
    PROVE  IsPrefix(<<a>>, <<a, b>>) /\ IsPrefix(<<a, b>>, <<a, b>>)
<1>1. <<a>> \in Seq(Units) /\ <<a, b>> \in Seq(Units)
  OBVIOUS
<1>2. Len(<<a>>) = 1 /\ Len(<<a, b>>) = 2
  OBVIOUS
<1>3. SubSeq(<<a>>, 1, 1) = <<a>> /\ SubSeq(<<a, b>>, 1, 2) = <<a, b>>
  BY <1>1, <1>2, SubSeqFull
<1>4. SubSeq(<<a, b>>, 1, 1) = <<a>>
  <2>1. /\ SubSeq(<<a, b>>, 1, 1) \in Seq(Units) /\ Len(SubSeq(<<a, b>>, 1, 1)) = 1
        /\ SubSeq(<<a, b>>, 1, 1)[1] = <<a, b>>[1]
    BY <1>1, <1>2, Taken
  <2>2. <<a, b>>[1] = a
    OBVIOUS
  <2>3. QED
    BY <2>1, <2>2, OneUnit
<1>5. QED
  BY <1>2, <1>3, <1>4 DEF IsPrefix

(* An order parsed is that of one message, with the quantity of that message
   or its beginning. *)
LEMMA Parsed ==
    ASSUME NEW text \in Seq(Units), InOrder(text), Tagged(text), SixTokens(text)
    PROVE  /\ ParseOrderMessage(text) \in Orders
           /\ ParseOrderMessage(text).order = text[3].of
           /\ 3 \in 1 .. Len(text) /\ text[3].part = "fields"
           /\ IsPrefix(ParseOrderMessage(text).quantity, Value(text[3].of))
<1> DEFINE m == text[3].of
           a == [of |-> m, part |-> "value1"]
           b == [of |-> m, part |-> "value2"]
           last == IF Len(text) >= 5 /\ text[5].part = "value2" THEN 5 ELSE 4
<1>1. Len(text) \in Nat /\ Len(text) >= 4 /\ \A i \in 1 .. Len(text) : text[i] \in Units
  BY LenProperties, ElementOfSeq DEF SixTokens
<1>2. text[3].part = "fields" /\ text[4].part = "value1" /\ text[3] \in Units
  BY <1>1 DEF SixTokens
<1>3. m \in Messages
  BY <1>2, UnitFields
<1>4. a \in Units /\ b \in Units
  BY <1>3 DEF Units
<1>5. text[4] = a
  <2>1. Follows(text[4], text[3])
    BY <1>1 DEF InOrder
  <2>2. text[4].of = m
    BY <1>2, <2>1 DEF Follows
  <2>3. text[4] \in Units
    BY <1>1
  <2>4. QED
    BY <1>2, <2>2, <2>3, UnitIs
<1>6. last = 5 => text[5] = b /\ Len(text) >= 5
  <2>1. SUFFICES ASSUME last = 5
                 PROVE  text[5] = b /\ Len(text) >= 5
    OBVIOUS
  <2>2. Len(text) >= 5 /\ text[5].part = "value2"
    BY <2>1
  <2>3. Follows(text[5], text[4])
    BY <1>1, <2>2 DEF InOrder
  <2>4. text[5].of = m
    BY <1>2, <1>5, <2>3 DEF Follows
  <2>5. text[5] \in Units
    BY <1>1, <2>2
  <2>6. QED
    BY <2>2, <2>4, <2>5, UnitIs
<1>7. last \in 4 .. 5
  OBVIOUS
<1> HIDE DEF last
<1>8. /\ SubSeq(text, 4, last) \in Seq(Units)
      /\ Len(SubSeq(text, 4, last)) = last - 3
      /\ \A i \in 1 .. last - 3 : SubSeq(text, 4, last)[i] = text[3 + i]
  <2>1. last \in Int /\ \A i \in 4 .. last : text[i] \in Units
    BY <1>1, <1>6, <1>7
  <2>2. /\ SubSeq(text, 4, last) \in Seq(Units)
        /\ Len(SubSeq(text, 4, last)) = IF 4 <= last THEN last - 4 + 1 ELSE 0
        /\ \A i \in 1 .. last - 4 + 1 : SubSeq(text, 4, last)[i] = text[4 + i - 1]
    BY <2>1, SubSeqProperties
  <2>3. QED
    BY <1>7, <2>2
<1> HIDE DEF m, a, b
<1>9. SubSeq(text, 4, last) = <<a>> \/ SubSeq(text, 4, last) = <<a, b>>
  <2>1. CASE last = 4
    <3>1. /\ Len(SubSeq(text, 4, last)) = 1
          /\ SubSeq(text, 4, last)[1] = a
      BY <1>5, <1>8, <2>1
    <3>2. QED
      BY <1>4, <1>8, <3>1, OneUnit
  <2>2. CASE last = 5
    <3>1. /\ Len(SubSeq(text, 4, last)) = 2
          /\ SubSeq(text, 4, last)[1] = a /\ SubSeq(text, 4, last)[2] = b
      BY <1>5, <1>6, <1>8, <2>2
    <3>2. QED
      BY <1>4, <1>8, <3>1, TwoUnits
  <2>3. QED
    BY <1>7, <2>1, <2>2
<1>10. IsPrefix(SubSeq(text, 4, last), <<a, b>>)
  BY <1>4, <1>9, BeginningOfValue
<1>11. ParseOrderMessage(text) = [order |-> m, quantity |-> SubSeq(text, 4, last)]
  BY DEF ParseOrderMessage, m, last
<1>12. Value(m) = <<a, b>>
  BY DEF Value, a, b
<1>13. ParseOrderMessage(text) \in Orders
  BY <1>3, <1>8, <1>11 DEF Orders
<1> DEFINE quantity == SubSeq(text, 4, last)
<1> HIDE DEF quantity
<1>14. /\ ParseOrderMessage(text).order = m
       /\ ParseOrderMessage(text).quantity = quantity
  <2>1. ParseOrderMessage(text) = [order |-> m, quantity |-> quantity]
    BY <1>11 DEF quantity
  <2>2. QED
    BY ONLY <2>1
<1>15. IsPrefix(ParseOrderMessage(text).quantity, Value(m))
  BY <1>10, <1>12, <1>14 DEF quantity
<1>16. QED
  BY <1>1, <1>2, <1>13, <1>14, <1>15 DEF m

(* A whole order is parsed in full. *)
LEMMA WholeOrderParsed ==
    ASSUME NEW m \in Messages, m # 0
    PROVE  /\ Tagged(Message(m)) /\ SixTokens(Message(m))
           /\ ParseOrderMessage(Message(m)) = [order |-> m, quantity |-> Value(m)]
<1> DEFINE text == Message(m)
           a == [of |-> m, part |-> "value1"]
           b == [of |-> m, part |-> "value2"]
<1>1. /\ text \in Seq(Units) /\ Len(text) = 6
      /\ text[1].part = "tag1" /\ text[2].part = "tag2" /\ text[3].part = "fields"
      /\ text[4].part = "value1" /\ text[5].part = "value2"
      /\ \A i \in 1 .. 6 : text[i].of = m
  BY MessageIs
<1> HIDE DEF text
<1>2. Tagged(text) /\ SixTokens(text)
  BY <1>1 DEF Tagged, SixTokens
<1>3. \A i \in 4 .. 5 : text[i] \in Units
  <2>1. \A i \in 1 .. Len(text) : text[i] \in Units
    BY <1>1, ElementOfSeq
  <2>2. QED
    BY <1>1, <2>1
<1>4. text[4] = a /\ text[5] = b /\ a \in Units /\ b \in Units
  <2>1. text[4] \in Units /\ text[5] \in Units /\ text[4].of = m /\ text[5].of = m
    BY <1>1, <1>3
  <2>2. text[4] = a /\ text[5] = b
    BY <1>1, <2>1, UnitIs
  <2>3. QED
    BY <2>1, <2>2
<1> HIDE DEF a, b
<1>5. SubSeq(text, 4, 5) = <<a, b>>
  <2>1. /\ SubSeq(text, 4, 5) \in Seq(Units) /\ Len(SubSeq(text, 4, 5)) = 2
        /\ \A i \in 1 .. 5 - 4 + 1 : SubSeq(text, 4, 5)[i] = text[4 + i - 1]
    BY <1>3, SubSeqProperties
  <2>2. SubSeq(text, 4, 5)[1] = a /\ SubSeq(text, 4, 5)[2] = b
    BY <1>4, <2>1
  <2>3. QED
    BY <1>4, <2>1, <2>2, TwoUnits
<1>6. ParseOrderMessage(text) = [order |-> m, quantity |-> SubSeq(text, 4, 5)]
  BY <1>1 DEF ParseOrderMessage
<1>7. Value(m) = <<a, b>>
  BY DEF Value, a, b
<1>8. QED
  BY <1>2, <1>5, <1>6, <1>7 DEF text

(* The whole registration gives the name. *)
LEMMA WholeNameRead ==
    ASSUME 0 \in Messages
    PROVE  Tagged(Message(0)) /\ Name(Message(0)) = Range(Value(0))
<1> DEFINE text == Message(0)
           a == [of |-> 0, part |-> "value1"]
           b == [of |-> 0, part |-> "value2"]
           rest == SubSeq(text, 3, 5)
<1>1. /\ text \in Seq(Units) /\ Len(text) = 5
      /\ text[1].part = "tag1" /\ text[2].part = "tag2" /\ text[3].part = "value1"
      /\ text[4].part = "value2" /\ text[5].part = "nl"
      /\ \A i \in 1 .. 5 : text[i].of = 0
  BY MessageIs
<1> HIDE DEF text
<1>2. Tagged(text)
  BY <1>1 DEF Tagged
<1>3. \A i \in 3 .. 5 : text[i] \in Units
  <2>1. \A i \in 1 .. Len(text) : text[i] \in Units
    BY <1>1, ElementOfSeq
  <2>2. QED
    BY <1>1, <2>1
<1>4. text[3] = a /\ text[4] = b
  <2>1. text[3] \in Units /\ text[4] \in Units /\ text[3].of = 0 /\ text[4].of = 0
    BY <1>1, <1>3
  <2>2. QED
    BY <1>1, <2>1, UnitIs
<1>5. a.part # "nl" /\ b.part # "nl"
  OBVIOUS
<1> HIDE DEF a, b
<1>6. /\ rest \in Seq(Units) /\ Len(rest) = 3
      /\ \A i \in 1 .. 3 : rest[i] = text[2 + i]
  <2>1. /\ rest \in Seq(Units) /\ Len(rest) = 3
        /\ \A i \in 1 .. 5 - 3 + 1 : rest[i] = text[3 + i - 1]
    BY <1>3, SubSeqProperties
  <2>2. QED
    BY <2>1
<1> HIDE DEF rest
<1>7. Range(rest) = {rest[i] : i \in 1 .. 3}
  <2>1. DOMAIN rest = 1 .. 3
    BY <1>6, LenProperties
  <2>2. QED
    BY <2>1 DEF Range
<1>8. rest[1] = a /\ rest[2] = b /\ rest[3] = text[5]
  BY <1>4, <1>6
<1>9. Name(text) = {a, b}
  <2>1. Name(text) = {unit \in {rest[i] : i \in 1 .. 3} : unit.part # "nl"}
    BY <1>1, <1>7 DEF Name, rest
  <2>2. {rest[i] : i \in 1 .. 3} = {rest[1], rest[2], rest[3]}
    OBVIOUS
  <2>3. QED
    BY <1>1, <1>5, <1>8, <2>1, <2>2
<1>10. Range(Value(0)) = {a, b}
  <2>1. Value(0) = <<a, b>>
    BY DEF Value, a, b
  <2>2. DOMAIN <<a, b>> = {1, 2} /\ <<a, b>>[1] = a /\ <<a, b>>[2] = b
    OBVIOUS
  <2>3. QED
    BY <2>1, <2>2 DEF Range
<1>11. QED
  BY <1>2, <1>9, <1>10 DEF text

----------------------------------------------------------------------------
(* The inductive invariant. *)

(* What is on its way ends with the last message sent. *)
StreamInv ==
    /\ InOrder(stream)
    /\ \A i \in 1 .. Len(stream) : stream[i].of < sent
    /\ EndsWith(stream, sent - 1)

(* An order is behind all the orders handled, and before all there are in the
   stream; it has the beginning of its quantity. *)
OrderInv ==
    /\ \A i \in 1 .. Len(handled) : handled[i].order < sent
    /\ pc = "submit" =>
          /\ IsPrefix(order.quantity, Value(order.order))
          /\ order.order < sent
          /\ \A i \in 1 .. Len(handled) : handled[i].order < order.order
    /\ \A j \in 1 .. Len(stream) : stream[j].part = "fields" =>
          /\ \A i \in 1 .. Len(handled) : handled[i].order < stream[j].of
          /\ pc = "submit" => order.order < stream[j].of

(* There is no reply to a message that was not sent, and a response for each
   message but the one the client waits for. *)
ReplyInv ==
    /\ \A i \in 1 .. Len(replies) : replies[i].to # None => replies[i].to < sent
    /\ Len(answers) = IF client = "waiting" THEN sent - 1 ELSE sent
    /\ client = "waiting" => sent > 0

HandledInv == TypeOK /\ StreamInv /\ OrderInv /\ ReplyInv /\ HandledAsSent

LEMMA InitHandled == Init => HandledInv
<1>1. SUFFICES ASSUME Init PROVE HandledInv
  OBVIOUS
<1>2. TypeOK
  <2>1. 0 \in 0 .. MaxOrders + 1 /\ 0 \in 0 .. MaxNotices /\ 0 \in 0 .. MaxTimeouts
    BY ProtocolAssumption
  <2>2. /\ << >> \in Seq(Units) /\ << >> \in Seq(Units \cup {Nul})
        /\ << >> \in Seq(Orders) /\ << >> \in Seq(Replies)
        /\ << >> \in Seq(SUBSET Replies)
    OBVIOUS
  <2>3. QED
    BY <1>1, <2>1, <2>2 DEF Init, TypeOK
<1>3. /\ stream = << >> /\ handled = << >> /\ replies = << >> /\ answers = << >>
      /\ sent = 0 /\ pc = "first" /\ client = "idle"
  BY <1>1 DEF Init
<1>4. 1 .. Len(<< >>) = {} /\ 1 .. Len(<< >>) - 1 = {} /\ Len(<< >>) = 0
  OBVIOUS
<1>5. StreamInv
  BY <1>3, <1>4 DEF StreamInv, InOrder, EndsWith
<1>6. OrderInv
  BY <1>3, <1>4 DEF OrderInv
<1>7. ReplyInv
  BY <1>3, <1>4 DEF ReplyInv
<1>8. DOMAIN handled = {}
  BY <1>3
<1>9. HandledAsSent
  BY <1>8 DEF HandledAsSent
<1>10. QED
  BY <1>2, <1>5, <1>6, <1>7, <1>9 DEF HandledInv

(* One recv: the text is a part of what was sent, and all of it was sent
   before what is left. *)
LEMMA Received ==
    ASSUME TypeOK, StreamInv, NEW n \in Ends, Recv(n)
    PROVE  LET text == SubSeq(stream, 1, n) IN
           /\ n \in 1 .. Len(stream)
           /\ text \in Seq(Units) /\ InOrder(text) /\ Text(buffer') = text
           /\ Len(text) = n /\ \A i \in 1 .. n : text[i] = stream[i]
           /\ buffer' \in Seq(Units \cup {Nul})
           /\ stream' \in Seq(Units) /\ InOrder(stream') /\ EndsWith(stream', sent - 1)
           /\ \A i \in 1 .. Len(stream') :
                 /\ stream'[i].of < sent
                 /\ \E j \in n + 1 .. Len(stream) : stream'[i] = stream[j]
           /\ \A i \in 1 .. n : \A j \in 1 .. Len(stream') :
                 text[i].part = stream'[j].part => text[i].of < stream'[j].of
<1> DEFINE text == SubSeq(stream, 1, n)
           rest == SubSeq(stream, n + 1, Len(stream))
<1>1. stream \in Seq(Units) /\ buffer \in Seq(Units \cup {Nul}) /\ Len(stream) \in Nat
  BY LenProperties DEF TypeOK
<1>2. n \in 1 .. Len(stream)
  <2>1. n \in DOMAIN stream
    BY DEF Ends
  <2>2. QED
    BY <1>1, <2>1, LenProperties
<1>3. InOrder(stream) /\ EndsWith(stream, sent - 1)
  BY DEF StreamInv
<1>4. /\ text \in Seq(Units) /\ Len(text) = n
      /\ \A i \in 1 .. n : text[i] = stream[i]
  BY <1>1, <1>2, Taken
<1>5. InOrder(text) /\ InOrder(rest)
  BY <1>1, <1>2, <1>3, InOrderTaken, InOrderLeft
<1>6. stream' = rest /\ buffer' = Fill(text, buffer)
  BY DEF Recv
<1>7. buffer' \in Seq(Units \cup {Nul}) /\ Text(buffer') = text
  BY <1>1, <1>4, <1>6, TextOfFill
<1>8. /\ rest \in Seq(Units) /\ Len(rest) = Len(stream) - n
      /\ \A i \in 1 .. Len(stream) - n : /\ rest[i] = stream[n + i]
                                         /\ n + i \in 1 .. Len(stream)
  BY <1>1, <1>2, LeftOver
<1> HIDE DEF text, rest
<1>9. ASSUME NEW i \in 1 .. Len(rest)
      PROVE  /\ rest[i].of < sent
             /\ \E j \in n + 1 .. Len(stream) : rest[i] = stream[j]
  <2>1. rest[i] = stream[n + i] /\ n + i \in 1 .. Len(stream)
    BY <1>8, <1>9
  <2>2. n + i \in n + 1 .. Len(stream)
    BY <1>2, <2>1
  <2>3. QED
    BY <2>1, <2>2 DEF StreamInv
<1>10. ASSUME NEW i \in 1 .. n, NEW j \in 1 .. Len(rest), text[i].part = rest[j].part
       PROVE  text[i].of < rest[j].of
  <2>1. text[i] = stream[i] /\ i \in 1 .. Len(stream)
    BY <1>1, <1>2, <1>4, <1>10
  <2>2. rest[j] = stream[n + j] /\ n + j \in 1 .. Len(stream)
    BY <1>8, <1>10
  <2>3. i < n + j
    BY <1>2
  <2>4. QED
    BY <1>3, <1>10, <2>1, <2>2, <2>3 DEF InOrder
<1>11. EndsWith(rest, sent - 1)
  <2>1. SUFFICES ASSUME rest # << >>
                 PROVE  rest[Len(rest)].of = sent - 1 /\ rest[Len(rest)].part = "nl"
    BY DEF EndsWith
  <2>2. Len(rest) # 0 /\ Len(rest) \in Nat
    BY <1>8, <2>1, NotEmptyLen, LenProperties
  <2>3. Len(rest) \in 1 .. Len(stream) - n /\ n + Len(rest) = Len(stream)
    BY <1>1, <1>2, <1>8, <2>2
  <2>4. rest[Len(rest)] = stream[Len(stream)]
    BY <1>8, <2>3
  <2>5. stream # << >>
    BY <1>1, <1>2, NotEmptyLen
  <2>6. QED
    BY <1>3, <2>4, <2>5 DEF EndsWith
<1>12. QED
  BY <1>2, <1>4, <1>5, <1>6, <1>7, <1>8, <1>9, <1>10, <1>11 DEF text

LEMMA Replied ==
    ASSUME replies \in Seq(Replies), NEW m \in Messages \cup {None}, NEW what,
           what \in {"REGISTERED", "ORDER_ACCEPTED", "ORDER_REJECTED", "ERROR",
                     "TRADE_EXECUTED"},
           Reply(what, m)
    PROVE  /\ replies' \in Seq(Replies) /\ Len(replies') = Len(replies) + 1
           /\ \A i \in 1 .. Len(replies) : replies'[i] = replies[i]
           /\ replies'[Len(replies) + 1].to = m
<1> DEFINE reply == [what |-> what, to |-> m]
<1>1. reply \in Replies /\ reply.to = m
  BY DEF Replies
<1>2. replies' = Append(replies, reply)
  BY DEF Reply
<1> HIDE DEF reply
<1>3. QED
  BY <1>1, <1>2, AppendProperties

(* A reply to a message that was sent, or to none. *)
LEMMA ReplyStep ==
    ASSUME TypeOK, ReplyInv, NEW m \in Messages \cup {None}, NEW what,
           what \in {"REGISTERED", "ORDER_ACCEPTED", "ORDER_REJECTED", "ERROR",
                     "TRADE_EXECUTED"},
           m # None => m < sent,
           \/ UNCHANGED <<replies, sent, client, answers>>
           \/ Reply(what, m) /\ UNCHANGED <<sent, client, answers>>
    PROVE  replies' \in Seq(Replies) /\ ReplyInv'
<1>1. replies \in Seq(Replies) /\ Len(replies) \in Nat
  BY LenProperties DEF TypeOK
<1>2. CASE UNCHANGED <<replies, sent, client, answers>>
  BY <1>1, <1>2 DEF ReplyInv
<1>3. CASE Reply(what, m) /\ UNCHANGED <<sent, client, answers>>
  <2>1. /\ replies' \in Seq(Replies) /\ Len(replies') = Len(replies) + 1
        /\ \A i \in 1 .. Len(replies) : replies'[i] = replies[i]
        /\ replies'[Len(replies) + 1].to = m
    BY <1>1, <1>3, Replied
  <2>2. ASSUME NEW i \in 1 .. Len(replies'), replies'[i].to # None
        PROVE  replies'[i].to < sent'
    <3>1. CASE i \in 1 .. Len(replies)
      BY <1>3, <2>1, <2>2, <3>1 DEF ReplyInv
    <3>2. CASE i = Len(replies) + 1
      BY <1>3, <2>1, <2>2, <3>2
    <3>3. QED
      BY <1>1, <2>1, <3>1, <3>2
  <2>3. QED
    BY <1>3, <2>1, <2>2 DEF ReplyInv
<1>4. QED
  BY <1>2, <1>3

LEMMA FirstRecvHandled ==
    ASSUME HandledInv, NEW n \in Ends, FirstRecv(n)
    PROVE  HandledInv'
<1>1. /\ TypeOK /\ StreamInv /\ OrderInv /\ ReplyInv /\ HandledAsSent
      /\ pc = "first" /\ Recv(n)
  BY DEF HandledInv, FirstRecv
<1>2. UNCHANGED <<order, handled, sent, client, answers, timeouts, notices>>
  BY DEF FirstRecv, tester
<1>3. pc' \in {"recv", "closed"} /\ registered' \in {"own", "other", None}
  BY <1>1 DEF FirstRecv, TypeOK
<1>4. /\ n \in 1 .. Len(stream) /\ buffer' \in Seq(Units \cup {Nul})
      /\ stream' \in Seq(Units) /\ InOrder(stream') /\ EndsWith(stream', sent - 1)
      /\ \A i \in 1 .. Len(stream') :
            /\ stream'[i].of < sent
            /\ \E j \in n + 1 .. Len(stream) : stream'[i] = stream[j]
  BY <1>1, Received
<1>5. StreamInv'
  BY <1>2, <1>4 DEF StreamInv
<1>6. OrderInv'
  <2>1. ASSUME NEW j \in 1 .. Len(stream'), stream'[j].part = "fields",
               NEW i \in 1 .. Len(handled)
        PROVE  handled[i].order < stream'[j].of
    <3>1. PICK l \in n + 1 .. Len(stream) : stream'[j] = stream[l]
      BY <1>4
    <3>2. l \in 1 .. Len(stream)
      BY <1>4
    <3>3. QED
      BY <1>1, <2>1, <3>1, <3>2 DEF OrderInv
  <2>2. pc' # "submit"
    BY <1>3
  <2>3. \A i \in 1 .. Len(handled') : handled'[i].order < sent'
    BY <1>1, <1>2 DEF OrderInv
  <2>4. QED
    BY <1>2, <2>1, <2>2, <2>3 DEF OrderInv
<1>7. replies' \in Seq(Replies) /\ ReplyInv'
  <2>1. 0 \in Messages /\ 0 < sent
    <3>1. stream[n] \in Units /\ stream[n].of < sent
      BY <1>1, <1>4, ElementOfSeq DEF TypeOK, StreamInv
    <3>2. stream[n].of \in Nat /\ sent \in Nat
      BY <1>1, <3>1, UnitFields, ProtocolAssumption DEF TypeOK
    <3>3. QED
      BY <3>1, <3>2, ProtocolAssumption DEF Messages
  <2>2. \/ UNCHANGED <<replies, sent, client, answers>>
        \/ Reply("REGISTERED", 0) /\ UNCHANGED <<sent, client, answers>>
    BY <1>2 DEF FirstRecv
  <2>3. QED
    BY <1>1, <2>1, <2>2, ReplyStep
<1>8. TypeOK'
  <2>1. cut' \in BOOLEAN
    BY <1>1 DEF TypeOK, Recv
  <2>2. order' \in Orders \cup {None} /\ (order' # None <=> pc' = "submit")
    BY <1>1, <1>2, <1>3 DEF TypeOK
  <2>3. QED
    BY <1>1, <1>2, <1>3, <1>4, <1>7, <2>1, <2>2 DEF TypeOK
<1>9. HandledAsSent'
  BY <1>1, <1>2 DEF HandledAsSent
<1>10. QED
  BY <1>5, <1>6, <1>7, <1>8, <1>9 DEF HandledInv

LEMMA ProcessMessageHandled ==
    ASSUME HandledInv, NEW n \in Ends, ProcessMessage(n)
    PROVE  HandledInv'
<1> DEFINE text == SubSeq(stream, 1, n)
<1>1. /\ TypeOK /\ StreamInv /\ OrderInv /\ ReplyInv /\ HandledAsSent
      /\ pc = "recv" /\ Recv(n)
  BY DEF HandledInv, ProcessMessage
<1>2. UNCHANGED <<registered, handled, sent, client, answers, timeouts, notices>>
  BY DEF ProcessMessage, tester
<1>3. /\ n \in 1 .. Len(stream) /\ buffer' \in Seq(Units \cup {Nul})
      /\ stream' \in Seq(Units) /\ InOrder(stream') /\ EndsWith(stream', sent - 1)
      /\ \A i \in 1 .. Len(stream') :
            /\ stream'[i].of < sent
            /\ \E j \in n + 1 .. Len(stream) : stream'[i] = stream[j]
  BY <1>1, Received
<1>4. /\ text \in Seq(Units) /\ InOrder(text) /\ Text(buffer') = text
      /\ Len(text) = n /\ \A i \in 1 .. n : text[i] = stream[i]
      /\ \A i \in 1 .. n : \A j \in 1 .. Len(stream') :
            text[i].part = stream'[j].part => text[i].of < stream'[j].of
  BY <1>1, Received
<1> HIDE DEF text
<1>5. ASSUME NEW i \in 1 .. n
      PROVE  text[i] \in Units /\ text[i].of < sent /\ i \in 1 .. Len(stream)
  <2>1. i \in 1 .. Len(stream) /\ text[i] = stream[i]
    BY <1>3, <1>4
  <2>2. QED
    BY <1>1, <2>1, ElementOfSeq DEF TypeOK, StreamInv
<1>6. \/ UNCHANGED <<pc, order, replies>>
      \/ /\ Tagged(text) /\ SixTokens(text)
         /\ pc' = "submit" /\ order' = ParseOrderMessage(text) /\ UNCHANGED replies
      \/ Tagged(text) /\ Reply("ERROR", text[1].of) /\ UNCHANGED <<pc, order>>
  BY <1>4 DEF ProcessMessage
<1>7. StreamInv'
  BY <1>2, <1>3 DEF StreamInv
<1>8. ASSUME NEW j \in 1 .. Len(stream'), stream'[j].part = "fields",
             NEW i \in 1 .. Len(handled)
      PROVE  handled[i].order < stream'[j].of
  <2>1. PICK l \in n + 1 .. Len(stream) : stream'[j] = stream[l]
    BY <1>3
  <2>2. l \in 1 .. Len(stream)
    BY <1>3
  <2>3. QED
    BY <1>1, <1>8, <2>1, <2>2 DEF OrderInv
<1>9. \A i \in 1 .. Len(handled') : handled'[i].order < sent'
  BY <1>1, <1>2 DEF OrderInv
<1>10. HandledAsSent'
  BY <1>1, <1>2 DEF HandledAsSent
<1>11. cut' \in BOOLEAN
  BY <1>1 DEF TypeOK, Recv
<1>12. CASE /\ Tagged(text) /\ SixTokens(text)
            /\ pc' = "submit" /\ order' = ParseOrderMessage(text) /\ UNCHANGED replies
  <2>1. /\ order' \in Orders /\ order'.order = text[3].of
        /\ 3 \in 1 .. n /\ text[3].part = "fields"
        /\ IsPrefix(order'.quantity, Value(text[3].of))
    BY <1>4, <1>12, Parsed
  <2>2. text[3].of < sent /\ text[3] = stream[3] /\ 3 \in 1 .. Len(stream)
    BY <1>4, <1>5, <2>1
  <2>3. \A i \in 1 .. Len(handled) : handled[i].order < text[3].of
    BY <1>1, <2>1, <2>2 DEF OrderInv
  <2>4. \A j \in 1 .. Len(stream') :
           stream'[j].part = "fields" => text[3].of < stream'[j].of
    BY <1>4, <2>1
  <2>5. OrderInv'
    <3>1. /\ IsPrefix(order'.quantity, Value(order'.order))
          /\ order'.order < sent'
          /\ \A i \in 1 .. Len(handled') : handled'[i].order < order'.order
      BY <1>2, <2>1, <2>2, <2>3
    <3>2. \A j \in 1 .. Len(stream') : stream'[j].part = "fields" =>
             /\ \A i \in 1 .. Len(handled') : handled'[i].order < stream'[j].of
             /\ order'.order < stream'[j].of
      BY <1>2, <1>8, <2>1, <2>4
    <3>3. QED
      BY <1>9, <3>1, <3>2 DEF OrderInv
  <2>6. ReplyInv'
    BY <1>1, <1>2, <1>12 DEF ReplyInv
  <2>7. order' # None
    BY <2>1, ProtocolAssumption
  <2>8. TypeOK'
    BY <1>1, <1>2, <1>3, <1>11, <1>12, <2>1, <2>7 DEF TypeOK
  <2>9. QED
    BY <1>7, <1>10, <2>5, <2>6, <2>8 DEF HandledInv
<1>13. CASE \/ UNCHANGED <<pc, order, replies>>
            \/ Tagged(text) /\ Reply("ERROR", text[1].of) /\ UNCHANGED <<pc, order>>
  <2>1. UNCHANGED <<pc, order>>
    BY <1>13
  <2>2. OrderInv'
    BY <1>1, <1>2, <1>8, <1>9, <2>1 DEF OrderInv
  <2>3. text[1].of \in Messages /\ text[1].of < sent
    <3>1. 1 \in 1 .. n
      BY <1>3
    <3>2. QED
      BY <1>5, <3>1, UnitFields
  <2>4. replies' \in Seq(Replies) /\ ReplyInv'
    <3>1. \/ UNCHANGED <<replies, sent, client, answers>>
          \/ Reply("ERROR", text[1].of) /\ UNCHANGED <<sent, client, answers>>
      BY <1>2, <1>13
    <3>2. QED
      BY <1>1, <2>3, <3>1, ReplyStep
  <2>5. TypeOK'
    BY <1>1, <1>2, <1>3, <1>11, <2>1, <2>4 DEF TypeOK
  <2>6. QED
    BY <1>7, <1>10, <2>2, <2>4, <2>5 DEF HandledInv
<1>14. QED
  BY <1>6, <1>12, <1>13

LEMMA AnswerHandled ==
    ASSUME HandledInv, Answer
    PROVE  HandledInv'
<1>1. /\ TypeOK /\ StreamInv /\ OrderInv /\ ReplyInv /\ HandledAsSent
      /\ pc = "submit" /\ pc' = "recv" /\ order' = None
  BY DEF HandledInv, Answer
<1>2. UNCHANGED <<stream, buffer, registered, sent, client, answers, timeouts,
                  notices, cut>>
  BY DEF Answer, tester
<1>3. /\ order \in Orders /\ order.order \in Messages /\ order.order < sent
      /\ IsPrefix(order.quantity, Value(order.order))
      /\ \A i \in 1 .. Len(handled) : handled[i].order < order.order
  <2>1. order \in Orders
    BY <1>1 DEF TypeOK
  <2>2. QED
    BY <1>1, <2>1 DEF Orders, OrderInv
<1>4. handled \in Seq(Orders) /\ Len(handled) \in Nat /\ DOMAIN handled = 1 .. Len(handled)
  BY <1>1, LenProperties DEF TypeOK
<1>5. StreamInv'
  BY <1>1, <1>2 DEF StreamInv
<1>6. replies' \in Seq(Replies) /\ ReplyInv'
  <2>1. CASE registered = "own"
    <3>1. Reply("ORDER_ACCEPTED", order.order)
      BY <2>1 DEF Answer
    <3>2. QED
      BY <1>1, <1>2, <1>3, <3>1, ReplyStep
  <2>2. CASE registered # "own"
    <3>1. Reply("ORDER_REJECTED", order.order)
      BY <2>2 DEF Answer
    <3>2. QED
      BY <1>1, <1>2, <1>3, <3>1, ReplyStep
  <2>3. QED
    BY <2>1, <2>2
<1>7. handled' = handled \/ handled' = Append(handled, order)
  BY DEF Answer
<1>8. CASE handled' = handled
  <2>1. OrderInv'
    BY <1>1, <1>2, <1>8 DEF OrderInv
  <2>2. HandledAsSent'
    BY <1>1, <1>8 DEF HandledAsSent
  <2>3. TypeOK'
    BY <1>1, <1>2, <1>6, <1>8 DEF TypeOK
  <2>4. QED
    BY <1>5, <1>6, <2>1, <2>2, <2>3 DEF HandledInv
<1>9. CASE handled' = Append(handled, order)
  <2>1. /\ handled' \in Seq(Orders) /\ Len(handled') = Len(handled) + 1
        /\ \A i \in 1 .. Len(handled) : handled'[i] = handled[i]
        /\ handled'[Len(handled) + 1] = order
        /\ DOMAIN handled' = 1 .. Len(handled) + 1
    BY <1>3, <1>4, <1>9, AppendProperties, LenProperties
  <2>2. \A i \in 1 .. Len(handled) + 1 : i \in 1 .. Len(handled) \/ i = Len(handled) + 1
    BY <1>4
  <2>3. \A i \in 1 .. Len(handled) + 1 : handled'[i].order < sent
    BY <1>1, <1>3, <2>1, <2>2 DEF OrderInv
  <2>4. ASSUME NEW j \in 1 .. Len(stream), stream[j].part = "fields",
               NEW i \in 1 .. Len(handled) + 1
        PROVE  handled'[i].order < stream[j].of
    BY <1>1, <2>1, <2>2, <2>4 DEF OrderInv
  <2>5. OrderInv'
    BY <1>1, <1>2, <2>1, <2>3, <2>4 DEF OrderInv
  <2>6. \A i \in 1 .. Len(handled) + 1 :
           IsPrefix(handled'[i].quantity, Value(handled'[i].order))
    BY <1>1, <1>3, <1>4, <2>1, <2>2 DEF HandledAsSent
  <2>7. ASSUME NEW i \in 1 .. Len(handled) + 1, NEW j \in 1 .. Len(handled) + 1, i < j
        PROVE  handled'[i].order < handled'[j].order
    <3>1. i \in 1 .. Len(handled)
      BY <1>4, <2>7
    <3>2. CASE j \in 1 .. Len(handled)
      BY <1>1, <1>4, <2>1, <2>7, <3>1, <3>2 DEF HandledAsSent
    <3>3. CASE j = Len(handled) + 1
      BY <1>3, <2>1, <3>1, <3>3
    <3>4. QED
      BY <2>2, <3>2, <3>3
  <2>8. HandledAsSent'
    BY <2>1, <2>6, <2>7 DEF HandledAsSent
  <2>9. TypeOK'
    BY <1>1, <1>2, <1>6, <2>1 DEF TypeOK
  <2>10. QED
    BY <1>5, <1>6, <2>5, <2>8, <2>9 DEF HandledInv
<1>10. QED
  BY <1>7, <1>8, <1>9

LEMMA NotifyHandled ==
    ASSUME HandledInv, Notify
    PROVE  HandledInv'
<1>1. TypeOK /\ StreamInv /\ OrderInv /\ ReplyInv /\ HandledAsSent
  BY DEF HandledInv
<1>2. /\ UNCHANGED <<stream, buffer, pc, registered, order, handled, sent, client,
                     answers, timeouts, cut>>
      /\ notices' = notices + 1 /\ notices < MaxNotices
      /\ Reply("TRADE_EXECUTED", None)
  BY DEF Notify, server, tester
<1>3. replies' \in Seq(Replies) /\ ReplyInv'
  BY <1>1, <1>2, ReplyStep
<1>4. notices' \in 0 .. MaxNotices
  BY <1>1, <1>2, ProtocolAssumption DEF TypeOK
<1>5. TypeOK'
  BY <1>1, <1>2, <1>3, <1>4 DEF TypeOK
<1>6. StreamInv' /\ OrderInv' /\ HandledAsSent'
  BY <1>1, <1>2 DEF StreamInv, OrderInv, HandledAsSent
<1>7. QED
  BY <1>3, <1>5, <1>6 DEF HandledInv

LEMMA SendMessageHandled ==
    ASSUME HandledInv, SendMessage
    PROVE  HandledInv'
<1>1. TypeOK /\ StreamInv /\ OrderInv /\ ReplyInv /\ HandledAsSent
  BY DEF HandledInv
<1>2. /\ UNCHANGED <<replies, buffer, pc, registered, order, handled, answers,
                     notices, timeouts, cut>>
      /\ client = "idle" /\ client' = "waiting" /\ sent \in Messages /\ sent' = sent + 1
      /\ stream' = stream \o Message(sent)
  BY DEF SendMessage, server
<1>3. sent \in Nat /\ sent + 1 \in 0 .. MaxOrders + 1
  BY <1>2, ProtocolAssumption DEF Messages
<1>4. stream \in Seq(Units) /\ Len(stream) \in Nat
  BY <1>1, LenProperties DEF TypeOK
<1>5. /\ stream' \in Seq(Units)
      /\ InOrder(stream') /\ EndsWith(stream', sent)
      /\ \A i \in 1 .. Len(stream') : stream'[i].of < sent + 1
  <2>1. /\ InOrder(stream) /\ EndsWith(stream, sent - 1)
        /\ \A i \in 1 .. Len(stream) : stream[i].of < sent
    BY <1>1 DEF StreamInv
  <2>2. QED
    BY <1>2, <1>4, <2>1, InOrderSent
<1>6. StreamInv'
  <2>1. sent' - 1 = sent
    BY <1>2, <1>3
  <2>2. QED
    BY <1>2, <1>5, <2>1 DEF StreamInv
<1>7. \A i \in 1 .. Len(handled) : handled[i].order \in Nat
  <2>1. \A i \in 1 .. Len(handled) : handled[i] \in Orders
    BY <1>1, ElementOfSeq DEF TypeOK
  <2>2. QED
    BY <2>1, MessageFacts DEF Orders
<1>8. pc = "submit" => order.order \in Nat
  BY <1>1, MessageFacts DEF TypeOK, Orders
<1>9. ASSUME NEW j \in 1 .. Len(stream'), stream'[j].part = "fields"
      PROVE  /\ \A i \in 1 .. Len(handled) : handled[i].order < stream'[j].of
             /\ pc = "submit" => order.order < stream'[j].of
  <2>1. CASE j \in 1 .. Len(stream)
    <3>1. stream'[j] = stream[j]
      BY <1>2, <1>4, <2>1, JoinIs, MessageIs
    <3>2. QED
      BY <1>1, <1>9, <2>1, <3>1 DEF OrderInv
  <2>2. CASE j \notin 1 .. Len(stream)
    <3>1. Message(sent) \in Seq(Units) /\ Len(Message(sent)) \in Nat
      BY <1>2, MessageIs, LenProperties
    <3>2. Len(stream') = Len(stream) + Len(Message(sent))
      BY <1>2, <1>4, <3>1, JoinIs
    <3>3. /\ j - Len(stream) \in 1 .. Len(Message(sent))
          /\ j = Len(stream) + (j - Len(stream))
      BY <1>4, <2>2, <3>1, <3>2
    <3>4. stream'[j] = Message(sent)[j - Len(stream)]
      <4>1. \A i \in 1 .. Len(Message(sent)) : stream'[Len(stream) + i] = Message(sent)[i]
        BY <1>2, <1>4, <3>1, JoinIs
      <4>2. QED
        BY <3>3, <4>1
    <3>5. stream'[j].of = sent
      BY <1>2, <3>3, <3>4, MessageIs
    <3>6. QED
      BY <1>1, <3>5 DEF OrderInv
  <2>3. QED
    BY <2>1, <2>2
<1>10. OrderInv'
  <2>1. \A i \in 1 .. Len(handled) : handled[i].order < sent + 1
    BY <1>1, <1>3, <1>7 DEF OrderInv
  <2>2. pc = "submit" => order.order < sent + 1
    BY <1>1, <1>3, <1>8 DEF OrderInv
  <2>3. QED
    BY <1>1, <1>2, <1>9, <2>1, <2>2 DEF OrderInv
<1>11. ReplyInv'
  <2>1. ASSUME NEW i \in 1 .. Len(replies), replies[i].to # None
        PROVE  replies[i].to < sent + 1
    <3>1. replies[i] \in Replies
      BY <1>1, ElementOfSeq DEF TypeOK
    <3>2. replies[i].to \in Nat
      BY <2>1, <3>1, MessageFacts DEF Replies
    <3>3. QED
      BY <1>1, <1>3, <2>1, <3>2 DEF ReplyInv
  <2>2. QED
    BY <1>1, <1>2, <1>3, <2>1 DEF ReplyInv
<1>12. HandledAsSent'
  BY <1>1, <1>2 DEF HandledAsSent
<1>13. TypeOK'
  BY <1>1, <1>2, <1>3, <1>5 DEF TypeOK
<1>14. QED
  BY <1>6, <1>10, <1>11, <1>12, <1>13 DEF HandledInv

(* What the client reads is gone. *)
LEMMA ReadStep ==
    ASSUME TypeOK, NEW n \in DOMAIN replies, Read(n)
    PROVE  /\ replies' \in Seq(Replies)
           /\ \A i \in 1 .. Len(replies') :
                 \E j \in 1 .. Len(replies) : replies'[i] = replies[j]
<1>1. replies \in Seq(Replies) /\ Len(replies) \in Nat /\ n \in 1 .. Len(replies)
  BY LenProperties DEF TypeOK
<1>2. /\ replies' \in Seq(Replies) /\ Len(replies') = Len(replies) - n
      /\ \A i \in 1 .. Len(replies) - n : /\ replies'[i] = replies[n + i]
                                          /\ n + i \in 1 .. Len(replies)
  BY <1>1, LeftOver DEF Read
<1>3. QED
  BY <1>1, <1>2

LEMMA RespondStep ==
    ASSUME TypeOK, ReplyInv, NEW response \in SUBSET Replies, Respond(response)
    PROVE  /\ answers' \in Seq(SUBSET Replies) /\ Len(answers') = Len(answers) + 1
           /\ \A i \in 1 .. Len(answers) : answers'[i] = answers[i]
           /\ answers'[Len(answers) + 1] = response
           /\ Len(answers) = sent - 1 /\ sent \in Nat /\ client' = "idle"
<1>1. answers \in Seq(SUBSET Replies) /\ sent \in Nat
  BY ProtocolAssumption DEF TypeOK
<1>2. answers' = Append(answers, response) /\ client = "waiting" /\ client' = "idle"
  BY DEF Respond
<1>3. QED
  BY <1>1, <1>2, AppendProperties DEF ReplyInv

LEMMA ClientStepHandled ==
    ASSUME HandledInv, HandledAsSent,
           UNCHANGED <<stream, server, sent, notices, cut>>,
           timeouts' \in 0 .. MaxTimeouts,
           replies' \in Seq(Replies),
           \A i \in 1 .. Len(replies') :
              \E j \in 1 .. Len(replies) : replies'[i] = replies[j],
           \/ UNCHANGED <<client, answers>>
           \/ \E response \in SUBSET Replies : Respond(response)
    PROVE  HandledInv'
<1>1. TypeOK /\ StreamInv /\ OrderInv /\ ReplyInv
  BY DEF HandledInv
<1>2. UNCHANGED <<stream, buffer, pc, registered, order, handled, sent, notices, cut>>
  BY DEF server
<1>3. /\ client' \in {"idle", "waiting"} /\ answers' \in Seq(SUBSET Replies)
      /\ Len(answers') = IF client' = "waiting" THEN sent - 1 ELSE sent
      /\ client' = "waiting" => sent > 0
  <2>1. CASE UNCHANGED <<client, answers>>
    BY <1>1, <2>1 DEF TypeOK, ReplyInv
  <2>2. CASE \E response \in SUBSET Replies : Respond(response)
    <3>1. PICK response \in SUBSET Replies : Respond(response)
      BY <2>2
    <3>2. /\ answers' \in Seq(SUBSET Replies) /\ Len(answers') = (sent - 1) + 1
          /\ sent \in Nat /\ client' = "idle"
      BY <1>1, <3>1, RespondStep
    <3>3. QED
      BY <3>2
  <2>3. QED
    BY <2>1, <2>2
<1>4. \A i \in 1 .. Len(replies') : replies'[i].to # None => replies'[i].to < sent
  BY <1>1 DEF ReplyInv
<1>5. ReplyInv'
  BY <1>2, <1>3, <1>4 DEF ReplyInv
<1>6. TypeOK'
  BY <1>1, <1>2, <1>3 DEF TypeOK
<1>7. StreamInv' /\ OrderInv' /\ HandledAsSent'
  BY <1>1, <1>2 DEF StreamInv, OrderInv, HandledAsSent
<1>8. QED
  BY <1>5, <1>6, <1>7 DEF HandledInv

LEMMA ReadResponseHandled ==
    ASSUME HandledInv, NEW n \in DOMAIN replies, ReadResponse(n)
    PROVE  HandledInv'
<1>1. TypeOK /\ HandledAsSent
  BY DEF HandledInv
<1>2. /\ replies' \in Seq(Replies)
      /\ \A i \in 1 .. Len(replies') : \E j \in 1 .. Len(replies) : replies'[i] = replies[j]
  BY <1>1, ReadStep DEF ReadResponse
<1>3. {replies[i] : i \in 1 .. n} \in SUBSET Replies
  <2>1. replies \in Seq(Replies) /\ n \in 1 .. Len(replies) /\ Len(replies) \in Nat
    BY <1>1, LenProperties DEF TypeOK
  <2>2. \A i \in 1 .. n : replies[i] \in Replies
    BY <2>1, ElementOfSeq
  <2>3. QED
    BY <2>2
<1>4. \E response \in SUBSET Replies : Respond(response)
  BY <1>3 DEF ReadResponse
<1>5. timeouts' \in 0 .. MaxTimeouts /\ UNCHANGED <<stream, server, sent, notices, cut>>
  BY <1>1 DEF ReadResponse, TypeOK
<1>6. QED
  BY <1>1, <1>2, <1>4, <1>5, ClientStepHandled

LEMMA TimeOutHandled ==
    ASSUME HandledInv, TimeOut
    PROVE  HandledInv'
<1>1. TypeOK /\ HandledAsSent
  BY DEF HandledInv
<1>2. /\ UNCHANGED <<stream, server, sent, notices, cut, replies>>
      /\ timeouts < MaxTimeouts /\ timeouts' = timeouts + 1
      /\ Respond({})
  BY DEF TimeOut
<1>3. timeouts' \in 0 .. MaxTimeouts
  BY <1>1, <1>2, ProtocolAssumption DEF TypeOK
<1>4. replies' \in Seq(Replies)
  BY <1>1, <1>2 DEF TypeOK
<1>5. \A i \in 1 .. Len(replies') : \E j \in 1 .. Len(replies) : replies'[i] = replies[j]
  BY <1>2
<1>6. \E response \in SUBSET Replies : Respond(response)
  BY <1>2
<1>7. QED
  BY <1>1, <1>2, <1>3, <1>4, <1>5, <1>6, ClientStepHandled

LEMMA ReceiveMessageHandled ==
    ASSUME HandledInv, NEW n \in DOMAIN replies, ReceiveMessage(n)
    PROVE  HandledInv'
<1>1. TypeOK /\ HandledAsSent
  BY DEF HandledInv
<1>2. /\ replies' \in Seq(Replies)
      /\ \A i \in 1 .. Len(replies') : \E j \in 1 .. Len(replies) : replies'[i] = replies[j]
  BY <1>1, ReadStep DEF ReceiveMessage
<1>3. UNCHANGED <<stream, server, sent, notices, cut, client, answers, timeouts>>
  BY DEF ReceiveMessage, tester
<1>4. timeouts' \in 0 .. MaxTimeouts
  BY <1>1, <1>3 DEF TypeOK
<1>5. QED
  BY <1>1, <1>2, <1>3, <1>4, ClientStepHandled

LEMMA StutterHandled ==
    ASSUME HandledInv, UNCHANGED vars
    PROVE  HandledInv'
BY DEF HandledInv, TypeOK, StreamInv, OrderInv, ReplyInv, HandledAsSent,
       vars, server, tester

LEMMA NextHandled ==
    ASSUME HandledInv, [Next]_vars
    PROVE  HandledInv'
<1>1. ASSUME NEW n \in Ends, FirstRecv(n) PROVE HandledInv'
  BY <1>1, FirstRecvHandled
<1>2. ASSUME NEW n \in Ends, ProcessMessage(n) PROVE HandledInv'
  BY <1>2, ProcessMessageHandled
<1>3. CASE Answer
  BY <1>3, AnswerHandled
<1>4. CASE Notify
  BY <1>4, NotifyHandled
<1>5. CASE SendMessage
  BY <1>5, SendMessageHandled
<1>6. ASSUME NEW n \in DOMAIN replies, ReadResponse(n) PROVE HandledInv'
  BY <1>6, ReadResponseHandled
<1>7. CASE TimeOut
  BY <1>7, TimeOutHandled
<1>8. ASSUME NEW n \in DOMAIN replies, ReceiveMessage(n) PROVE HandledInv'
  BY <1>8, ReceiveMessageHandled
<1>9. CASE UNCHANGED vars
  BY <1>9, StutterHandled
<1>10. QED
  BY <1>1, <1>2, <1>3, <1>4, <1>5, <1>6, <1>7, <1>8, <1>9
     DEF Next, HandleClient, GetResponse

(* The invariant holds in every behaviour. *)
LEMMA HandledAlways == Spec => []HandledInv
BY InitHandled, NextHandled, PTL DEF Spec

(* What is on its way stays a sequence of units, the buffer of units and
   terminators, and there is an order exactly while it is in submitOrder. *)
THEOREM ProtocolTypesCorrect == Spec => []TypeOK
<1>1. HandledInv => TypeOK
  BY DEF HandledInv
<1>2. QED
  BY <1>1, HandledAlways, PTL

(* However recv cuts the stream, and whatever the client takes for a response:
   an order is handled at most once and in its turn, and its quantity is the
   quantity sent or the beginning of it. *)
THEOREM OrdersHandledAsSent == Spec => []HandledAsSent
<1>1. HandledInv => HandledAsSent
  BY DEF HandledInv
<1>2. QED
  BY <1>1, HandledAlways, PTL

----------------------------------------------------------------------------
(* A client in step. *)

(* The orders of the messages before m, in full. *)
AllOf(m) == [i \in 1 .. m - 1 |-> [order |-> i, quantity |-> Value(i)]]

Served(m) ==
    IF m = 0 THEN pc = "first" /\ handled = << >>
    ELSE pc = "recv" /\ registered = "own" /\ handled = AllOf(m)

Serving(m) ==
    /\ m > 0 /\ pc = "submit" /\ registered = "own" /\ handled = AllOf(m)
    /\ order = [order |-> m, quantity |-> Value(m)]

Unanswered(m) == \A i \in 1 .. Len(replies) : replies[i].to # m

(* What is on its way and what is handled, when the client is in step: between
   two messages, all; while it waits, all with the last message, or all before
   it, and then there is no reply to it yet. *)
InStep ==
    \/ client = "idle" /\ stream = << >> /\ Served(sent)
    \/ /\ client = "waiting" /\ sent > 0
       /\ \/ stream = << >> /\ Served(sent)
          \/ /\ Unanswered(sent - 1)
             /\ \/ stream = Message(sent - 1) /\ Served(sent - 1)
                \/ stream = << >> /\ Serving(sent - 1)

OrderlyInv == Orderly => InStep

LEMMA AllOfNext ==
    ASSUME NEW m \in Messages, m # 0
    PROVE  /\ AllOf(1) = << >>
           /\ AllOf(m) \in Seq(Orders)
           /\ AllOf(m + 1) = Append(AllOf(m), [order |-> m, quantity |-> Value(m)])
<1> DEFINE T == {[order |-> i, quantity |-> Value(i)] : i \in Messages}
           new == [order |-> m, quantity |-> Value(m)]
<1>1. m \in Nat /\ \A i \in 1 .. m : i \in Messages
  BY ProtocolAssumption DEF Messages
<1>2. T \subseteq Orders /\ new \in T
  <2>1. ASSUME NEW i \in Messages
        PROVE  Value(i) \in Seq(Units)
    <3>1. [of |-> i, part |-> "value1"] \in Units /\ [of |-> i, part |-> "value2"] \in Units
      BY DEF Units
    <3>2. QED
      BY <3>1 DEF Value
  <2>2. QED
    BY <2>1 DEF Orders
<1>3. ASSUME NEW k \in Nat, k <= m + 1, k > 0
      PROVE  /\ AllOf(k) \in Seq(T) /\ Len(AllOf(k)) = k - 1
             /\ \A i \in 1 .. k - 1 : AllOf(k)[i] = [order |-> i, quantity |-> Value(i)]
  <2>1. \A i \in 1 .. k - 1 : [order |-> i, quantity |-> Value(i)] \in T
    <3>1. \A i \in 1 .. k - 1 : i \in Messages
      BY <1>1, <1>3
    <3>2. QED
      BY <3>1
  <2> HIDE DEF T
  <2>2. AllOf(k) \in [1 .. k - 1 -> T]
    BY <2>1 DEF AllOf
  <2>3. k - 1 \in Nat
    BY <1>3
  <2>4. AllOf(k) \in Seq(T)
    BY <2>2, <2>3, SeqDef
  <2>5. Len(AllOf(k)) = k - 1
    BY <2>2, <2>3, <2>4, LenProperties
  <2>6. QED
    BY <2>4, <2>5 DEF AllOf
<1>4. AllOf(1) = << >>
  <2>1. 1 \in Nat /\ 1 <= m + 1 /\ 1 > 0 /\ 1 - 1 = 0
    BY <1>1
  <2> HIDE DEF T
  <2>2. AllOf(1) \in Seq(T) /\ Len(AllOf(1)) = 1 - 1
    BY <1>3, <2>1
  <2>3. QED
    BY <2>1, <2>2, NotEmptyLen
<1>5. /\ AllOf(m) \in Seq(T) /\ Len(AllOf(m)) = m - 1
      /\ \A i \in 1 .. m - 1 : AllOf(m)[i] = [order |-> i, quantity |-> Value(i)]
  BY <1>1, <1>3
<1>6. /\ AllOf(m + 1) \in Seq(T) /\ Len(AllOf(m + 1)) = m
      /\ \A i \in 1 .. m : AllOf(m + 1)[i] = [order |-> i, quantity |-> Value(i)]
  <2>1. m + 1 \in Nat /\ m + 1 <= m + 1 /\ m + 1 > 0 /\ (m + 1) - 1 = m
    BY <1>1
  <2> HIDE DEF T
  <2>2. /\ AllOf(m + 1) \in Seq(T) /\ Len(AllOf(m + 1)) = (m + 1) - 1
        /\ \A i \in 1 .. (m + 1) - 1 :
              AllOf(m + 1)[i] = [order |-> i, quantity |-> Value(i)]
    BY <1>3, <2>1
  <2>3. QED
    BY <2>1, <2>2
<1>7. AllOf(m) \in Seq(Orders)
  BY <1>2, <1>5, SeqMonotonic
<1> HIDE DEF T
<1>8. /\ Append(AllOf(m), new) \in Seq(T) /\ Len(Append(AllOf(m), new)) = m
      /\ \A i \in 1 .. m - 1 : Append(AllOf(m), new)[i] = AllOf(m)[i]
      /\ Append(AllOf(m), new)[m] = new
  BY <1>1, <1>2, <1>5, AppendProperties
<1>9. \A i \in 1 .. m : AllOf(m + 1)[i] = Append(AllOf(m), new)[i]
  <2>1. \A i \in 1 .. m : i \in 1 .. m - 1 \/ i = m
    BY <1>1
  <2>2. QED
    BY <1>5, <1>6, <1>8, <2>1
<1>10. AllOf(m + 1) = Append(AllOf(m), new)
  BY <1>6, <1>8, <1>9, SeqEqual
<1>11. QED
  BY <1>4, <1>7, <1>10

LEMMA InitOrderly == Init => OrderlyInv
BY DEF Init, OrderlyInv, InStep, Served

(* Whoever is in step was in step. *)
LEMMA OrderlyBefore ==
    ASSUME HandledInv, Orderly', cut' = FALSE => cut = FALSE,
           \/ UNCHANGED answers
           \/ \E response \in SUBSET Replies : Respond(response)
    PROVE  Orderly
<1>1. answers \in Seq(SUBSET Replies) /\ TypeOK /\ ReplyInv
  BY DEF HandledInv, TypeOK
<1>2. ~ cut
  BY <1>1 DEF Orderly, TypeOK
<1>3. CASE UNCHANGED answers
  BY <1>2, <1>3 DEF Orderly
<1>4. CASE \E response \in SUBSET Replies : Respond(response)
  <2>1. PICK response \in SUBSET Replies : Respond(response)
    BY <1>4
  <2>2. /\ answers' \in Seq(SUBSET Replies) /\ Len(answers') = Len(answers) + 1
        /\ \A i \in 1 .. Len(answers) : answers'[i] = answers[i]
    BY <1>1, <2>1, RespondStep
  <2>3. /\ DOMAIN answers = 1 .. Len(answers) /\ Len(answers) \in Nat
        /\ DOMAIN answers' = 1 .. Len(answers')
    BY <1>1, <2>2, LenProperties
  <2>4. ASSUME NEW i \in DOMAIN answers
        PROVE  \E reply \in answers[i] : reply.to = i - 1
    <3>1. i \in DOMAIN answers' /\ answers'[i] = answers[i]
      BY <2>2, <2>3
    <3>2. QED
      BY <3>1 DEF Orderly
  <2>5. QED
    BY <1>2, <2>4 DEF Orderly
<1>5. QED
  BY <1>3, <1>4

(* A recv that is a whole message: of a client in step it is the message it
   waits for an answer to. *)
LEMMA WholeMessage ==
    ASSUME HandledInv, InStep, NEW n \in Ends, Recv(n), cut' = FALSE,
           pc = "first" \/ pc = "recv"
    PROVE  /\ client = "waiting" /\ sent > 0 /\ sent - 1 \in Messages
           /\ Unanswered(sent - 1) /\ Served(sent - 1)
           /\ Text(buffer') = Message(sent - 1) /\ stream' = << >>
<1>1. TypeOK /\ StreamInv /\ stream \in Seq(Units)
  BY DEF HandledInv, TypeOK
<1>2. n \in 1 .. Len(stream) /\ Text(buffer') = SubSeq(stream, 1, n)
  BY <1>1, Received
<1>3. stream # << >>
  BY <1>1, <1>2, NotEmptyLen
<1>4. /\ client = "waiting" /\ sent > 0 /\ Unanswered(sent - 1)
      /\ stream = Message(sent - 1) /\ Served(sent - 1)
  BY <1>3 DEF InStep
<1>5. sent - 1 \in Messages
  BY <1>1, <1>4, ProtocolAssumption DEF TypeOK, Messages
<1>6. stream[n].part = "nl"
  BY DEF Recv
<1>7. n = Len(stream) /\ Len(stream) \in Nat
  <2>1. CASE sent - 1 = 0
    BY <1>2, <1>4, <1>5, <1>6, <2>1, MessageIs
  <2>2. CASE sent - 1 # 0
    BY <1>2, <1>4, <1>5, <1>6, <2>2, MessageIs
  <2>3. QED
    BY <2>1, <2>2
<1>8. Text(buffer') = stream
  BY <1>1, <1>2, <1>7, SubSeqFull
<1>9. stream' = << >>
  BY <1>7, SubSeqEmpty DEF Recv
<1>10. QED
  BY <1>4, <1>5, <1>8, <1>9

LEMMA FirstRecvOrderly ==
    ASSUME HandledInv, OrderlyInv, NEW n \in Ends, FirstRecv(n)
    PROVE  OrderlyInv'
<1>1. SUFFICES ASSUME Orderly' PROVE InStep'
  BY DEF OrderlyInv
<1>2. /\ pc = "first" /\ Recv(n) /\ cut' = FALSE
      /\ UNCHANGED <<handled, sent, client, answers>>
  <2>1. cut' \in BOOLEAN
    BY DEF HandledInv, TypeOK, FirstRecv, Recv
  <2>2. QED
    BY <1>1, <2>1 DEF FirstRecv, tester, Orderly
<1>3. cut = FALSE
  BY <1>2 DEF Recv, HandledInv, TypeOK
<1>4. InStep
  BY <1>1, <1>2, <1>3, OrderlyBefore DEF OrderlyInv
<1>5. /\ client = "waiting" /\ sent > 0 /\ sent - 1 \in Messages /\ Served(sent - 1)
      /\ Text(buffer') = Message(sent - 1) /\ stream' = << >>
  BY <1>2, <1>4, WholeMessage
<1>6. sent - 1 = 0 /\ handled = << >>
  BY <1>2, <1>5 DEF Served
<1>7. Tagged(Message(0)) /\ Name(Message(0)) = Range(Value(0))
  BY <1>5, <1>6, WholeNameRead
<1>8. registered' = "own" /\ pc' = "recv"
  BY <1>5, <1>6, <1>7 DEF FirstRecv
<1>9. sent = 1
  BY <1>6 DEF HandledInv, TypeOK
<1>10. AllOf(1) = << >>
  <2>1. 1 - 1 = 0
    OBVIOUS
  <2>2. DOMAIN AllOf(1) = {}
    BY <2>1 DEF AllOf
  <2>3. QED
    BY <2>1 DEF AllOf
<1>11. Served(sent)'
  BY <1>2, <1>6, <1>8, <1>9, <1>10 DEF Served
<1>12. QED
  BY <1>2, <1>5, <1>11 DEF InStep

(* An order of a client in step is parsed as sent. *)
LEMMA OrderRead ==
    ASSUME HandledInv, OrderlyInv, NEW n \in Ends, ProcessMessage(n), Orderly'
    PROVE  /\ client = "waiting" /\ sent > 1 /\ Unanswered(sent - 1)
           /\ registered = "own" /\ handled = AllOf(sent - 1)
           /\ stream' = << >> /\ pc' = "submit"
           /\ order' = [order |-> sent - 1, quantity |-> Value(sent - 1)]
           /\ UNCHANGED <<registered, handled, sent, client, replies>>
<1>1. /\ pc = "recv" /\ Recv(n) /\ cut' = FALSE
      /\ UNCHANGED <<registered, handled, sent, client, answers>>
  <2>1. cut' \in BOOLEAN
    BY DEF HandledInv, TypeOK, ProcessMessage, Recv
  <2>2. QED
    BY <2>1 DEF ProcessMessage, tester, Orderly
<1>2. cut = FALSE
  BY <1>1 DEF Recv, HandledInv, TypeOK
<1>3. InStep
  BY <1>1, <1>2, OrderlyBefore DEF OrderlyInv
<1> DEFINE m == sent - 1
<1>4. /\ client = "waiting" /\ sent > 0 /\ m \in Messages /\ Unanswered(m) /\ Served(m)
      /\ Text(buffer') = Message(m) /\ stream' = << >>
  BY <1>1, <1>3, WholeMessage
<1>5. m # 0 /\ registered = "own" /\ handled = AllOf(m)
  BY <1>1, <1>4 DEF Served
<1> HIDE DEF m
<1>6. /\ Tagged(Message(m)) /\ SixTokens(Message(m))
      /\ ParseOrderMessage(Message(m)) = [order |-> m, quantity |-> Value(m)]
  BY <1>4, <1>5, WholeOrderParsed
<1>7. /\ pc' = "submit" /\ order' = [order |-> m, quantity |-> Value(m)]
      /\ UNCHANGED replies
  BY <1>4, <1>6 DEF ProcessMessage
<1>8. sent > 1
  BY <1>4, <1>5 DEF m, HandledInv, TypeOK
<1>9. QED
  BY <1>1, <1>4, <1>5, <1>7, <1>8 DEF m

LEMMA ProcessMessageOrderly ==
    ASSUME HandledInv, OrderlyInv, NEW n \in Ends, ProcessMessage(n)
    PROVE  OrderlyInv'
<1>1. SUFFICES ASSUME Orderly' PROVE InStep'
  BY DEF OrderlyInv
<1>2. /\ client = "waiting" /\ sent > 1 /\ Unanswered(sent - 1)
      /\ registered = "own" /\ handled = AllOf(sent - 1)
      /\ stream' = << >> /\ pc' = "submit"
      /\ order' = [order |-> sent - 1, quantity |-> Value(sent - 1)]
      /\ UNCHANGED <<registered, handled, sent, client, replies>>
  BY <1>1, OrderRead
<1>3. sent \in Nat /\ sent > 0 /\ sent - 1 > 0
  BY <1>2 DEF HandledInv, TypeOK
<1>4. Serving(sent - 1)'
  BY <1>2, <1>3 DEF Serving
<1>5. Unanswered(sent - 1)'
  BY <1>2 DEF Unanswered
<1>6. QED
  BY <1>2, <1>3, <1>4, <1>5 DEF InStep

LEMMA AnswerOrderly ==
    ASSUME HandledInv, OrderlyInv, Answer
    PROVE  OrderlyInv'
<1>1. SUFFICES ASSUME Orderly' PROVE InStep'
  BY DEF OrderlyInv
<1>2. /\ pc = "submit" /\ pc' = "recv"
      /\ UNCHANGED <<stream, registered, sent, client, answers, cut>>
  BY DEF Answer, tester
<1>3. InStep
  BY <1>1, <1>2, OrderlyBefore DEF OrderlyInv
<1> DEFINE m == sent - 1
<1>4. client = "waiting" /\ sent > 0 /\ stream = << >> /\ Serving(m)
  BY <1>2, <1>3 DEF InStep, Served
<1>5. /\ m > 0 /\ registered = "own" /\ handled = AllOf(m)
      /\ order = [order |-> m, quantity |-> Value(m)]
  BY <1>4 DEF Serving
<1>6. handled' = Append(handled, order)
  BY <1>5 DEF Answer
<1>7. m \in Messages /\ m # 0 /\ m + 1 = sent /\ sent # 0
  BY <1>4, <1>5, ProtocolAssumption DEF HandledInv, TypeOK, Messages
<1>8. handled' = AllOf(sent)
  BY <1>5, <1>6, <1>7, AllOfNext
<1>9. Served(sent)'
  BY <1>2, <1>5, <1>7, <1>8 DEF Served, AllOf
<1>10. QED
  BY <1>2, <1>4, <1>9 DEF InStep

LEMMA NotifyOrderly ==
    ASSUME HandledInv, OrderlyInv, Notify
    PROVE  OrderlyInv'
<1>1. SUFFICES ASSUME Orderly' PROVE InStep'
  BY DEF OrderlyInv
<1>2. /\ UNCHANGED <<stream, pc, registered, order, handled, sent, client, answers, cut>>
      /\ Reply("TRADE_EXECUTED", None)
  BY DEF Notify, server, tester
<1>3. InStep
  BY <1>1, <1>2, OrderlyBefore DEF OrderlyInv
<1>4. ASSUME Unanswered(sent - 1), sent > 0
      PROVE  Unanswered(sent - 1)'
  <2>1. replies \in Seq(Replies) /\ Len(replies) \in Nat /\ sent - 1 # None
    <3>1. replies \in Seq(Replies) /\ sent \in Nat
      BY ProtocolAssumption DEF HandledInv, TypeOK
    <3>2. sent - 1 \in Nat
      BY <1>4, <3>1
    <3>3. QED
      BY <3>1, <3>2, LenProperties, ProtocolAssumption
  <2>2. /\ Len(replies') = Len(replies) + 1
        /\ \A i \in 1 .. Len(replies) : replies'[i] = replies[i]
        /\ replies'[Len(replies) + 1].to = None
    BY <1>2, <2>1, Replied
  <2>3. \A i \in 1 .. Len(replies) + 1 : i \in 1 .. Len(replies) \/ i = Len(replies) + 1
    BY <2>1
  <2>4. QED
    BY <1>2, <1>4, <2>1, <2>2, <2>3 DEF Unanswered
<1>5. Served(sent) => Served(sent)'
  BY <1>2 DEF Served, AllOf
<1>6. Served(sent - 1) => Served(sent - 1)'
  BY <1>2 DEF Served, AllOf
<1>7. Serving(sent - 1) => Serving(sent - 1)'
  BY <1>2 DEF Serving, AllOf
<1>8. QED
  BY <1>2, <1>3, <1>4, <1>5, <1>6, <1>7 DEF InStep

LEMMA SendMessageOrderly ==
    ASSUME HandledInv, OrderlyInv, SendMessage
    PROVE  OrderlyInv'
<1>1. SUFFICES ASSUME Orderly' PROVE InStep'
  BY DEF OrderlyInv
<1>2. /\ UNCHANGED <<replies, pc, registered, order, handled, answers, cut>>
      /\ client = "idle" /\ client' = "waiting" /\ sent \in Messages /\ sent' = sent + 1
      /\ stream' = stream \o Message(sent)
  BY DEF SendMessage, server
<1>3. InStep
  BY <1>1, <1>2, OrderlyBefore DEF OrderlyInv
<1>4. stream = << >> /\ Served(sent)
  BY <1>2, <1>3 DEF InStep
<1>5. sent \in Nat /\ sent' - 1 = sent /\ sent' > 0
  BY <1>2, MessageFacts
<1>6. stream' = Message(sent)
  BY <1>2, <1>4, MessageIs, ConcatEmptySeq
<1>7. ASSUME NEW i \in 1 .. Len(replies)
      PROVE  replies[i].to # sent
  <2>1. replies[i].to # None => replies[i].to < sent
    BY DEF HandledInv, ReplyInv
  <2>2. sent # None
    BY <1>5, ProtocolAssumption
  <2>3. QED
    BY <1>5, <2>1, <2>2
<1>8. Unanswered(sent - 1)'
  BY <1>2, <1>5, <1>7 DEF Unanswered
<1>9. Served(sent - 1)'
  BY <1>2, <1>4, <1>5 DEF Served, AllOf
<1>10. QED
  BY <1>2, <1>5, <1>6, <1>8, <1>9 DEF InStep

LEMMA ReadResponseOrderly ==
    ASSUME HandledInv, OrderlyInv, NEW n \in DOMAIN replies, ReadResponse(n)
    PROVE  OrderlyInv'
<1> DEFINE response == {replies[i] : i \in 1 .. n}
<1>1. SUFFICES ASSUME Orderly' PROVE InStep'
  BY DEF OrderlyInv
<1>2. /\ UNCHANGED <<stream, pc, registered, order, handled, sent, cut>>
      /\ client = "waiting" /\ Respond(response)
  BY DEF ReadResponse, Respond, server
<1>3. /\ replies \in Seq(Replies) /\ n \in 1 .. Len(replies) /\ Len(replies) \in Nat
      /\ TypeOK /\ ReplyInv
  BY LenProperties DEF HandledInv, TypeOK
<1>4. response \in SUBSET Replies
  <2>1. \A i \in 1 .. n : replies[i] \in Replies
    BY <1>3, ElementOfSeq
  <2>2. QED
    BY <2>1
<1> HIDE DEF response
<1>5. InStep
  BY <1>1, <1>2, <1>4, OrderlyBefore DEF OrderlyInv
<1>6. /\ answers' \in Seq(SUBSET Replies) /\ Len(answers') = Len(answers) + 1
      /\ answers'[Len(answers) + 1] = response
      /\ Len(answers) = sent - 1 /\ sent \in Nat /\ client' = "idle"
  BY <1>2, <1>3, <1>4, RespondStep
<1>7. sent > 0
  BY <1>2, <1>3 DEF ReplyInv
<1>8. \E reply \in response : reply.to = sent - 1
  <2>1. sent \in DOMAIN answers' /\ answers'[sent] = response
    BY <1>6, <1>7, LenProperties
  <2>2. QED
    BY <1>1, <2>1 DEF Orderly
<1>9. ~ Unanswered(sent - 1)
  <2>1. PICK i \in 1 .. n : replies[i].to = sent - 1
    BY <1>8 DEF response
  <2>2. i \in 1 .. Len(replies)
    BY <1>3
  <2>3. QED
    BY <2>1, <2>2 DEF Unanswered
<1>10. stream = << >> /\ Served(sent)
  BY <1>2, <1>5, <1>9 DEF InStep
<1>11. Served(sent)'
  BY <1>2, <1>10 DEF Served, AllOf
<1>12. QED
  BY <1>2, <1>6, <1>10, <1>11 DEF InStep

LEMMA TimeOutOrderly ==
    ASSUME HandledInv, OrderlyInv, TimeOut
    PROVE  OrderlyInv'
<1>1. SUFFICES ASSUME Orderly' PROVE FALSE
  BY DEF OrderlyInv
<1>2. Respond({}) /\ {} \in SUBSET Replies /\ TypeOK /\ ReplyInv
  BY DEF TimeOut, HandledInv
<1>3. /\ answers' \in Seq(SUBSET Replies) /\ Len(answers') = Len(answers) + 1
      /\ answers'[Len(answers) + 1] = {}
  BY <1>2, RespondStep
<1>4. Len(answers) + 1 \in DOMAIN answers'
  <2>1. Len(answers) \in Nat
    BY <1>2, LenProperties DEF TypeOK
  <2>2. QED
    BY <1>3, <2>1, LenProperties
<1>5. QED
  BY <1>1, <1>3, <1>4 DEF Orderly

LEMMA ReceiveMessageOrderly ==
    ASSUME HandledInv, OrderlyInv, NEW n \in DOMAIN replies, ReceiveMessage(n)
    PROVE  OrderlyInv'
<1>1. SUFFICES ASSUME Orderly' PROVE InStep'
  BY DEF OrderlyInv
<1>2. /\ UNCHANGED <<stream, pc, registered, order, handled, sent, client, answers, cut>>
      /\ client = "idle"
  BY DEF ReceiveMessage, server, tester
<1>3. InStep
  BY <1>1, <1>2, OrderlyBefore DEF OrderlyInv
<1>4. Served(sent) => Served(sent)'
  BY <1>2 DEF Served, AllOf
<1>5. QED
  BY <1>2, <1>3, <1>4 DEF InStep

LEMMA StutterOrderly ==
    ASSUME OrderlyInv, UNCHANGED vars
    PROVE  OrderlyInv'
<1>1. UNCHANGED <<stream, replies, buffer, pc, registered, order, handled, sent,
                  client, answers, cut>>
  BY DEF vars, server, tester
<1>2. /\ Served(sent) => Served(sent)'
      /\ Served(sent - 1) => Served(sent - 1)'
      /\ Serving(sent - 1) => Serving(sent - 1)'
      /\ Unanswered(sent - 1) => Unanswered(sent - 1)'
  BY <1>1 DEF Served, Serving, Unanswered, AllOf
<1>3. Orderly' => Orderly
  BY <1>1 DEF Orderly
<1>4. InStep => InStep'
  BY <1>1, <1>2 DEF InStep
<1>5. QED
  BY <1>3, <1>4 DEF OrderlyInv

LEMMA NextOrderly ==
    ASSUME HandledInv, OrderlyInv, [Next]_vars
    PROVE  OrderlyInv'
<1>1. ASSUME NEW n \in Ends, FirstRecv(n) PROVE OrderlyInv'
  BY <1>1, FirstRecvOrderly
<1>2. ASSUME NEW n \in Ends, ProcessMessage(n) PROVE OrderlyInv'
  BY <1>2, ProcessMessageOrderly
<1>3. CASE Answer
  BY <1>3, AnswerOrderly
<1>4. CASE Notify
  BY <1>4, NotifyOrderly
<1>5. CASE SendMessage
  BY <1>5, SendMessageOrderly
<1>6. ASSUME NEW n \in DOMAIN replies, ReadResponse(n) PROVE OrderlyInv'
  BY <1>6, ReadResponseOrderly
<1>7. CASE TimeOut
  BY <1>7, TimeOutOrderly
<1>8. ASSUME NEW n \in DOMAIN replies, ReceiveMessage(n) PROVE OrderlyInv'
  BY <1>8, ReceiveMessageOrderly
<1>9. CASE UNCHANGED vars
  BY <1>9, StutterOrderly
<1>10. QED
  BY <1>1, <1>2, <1>3, <1>4, <1>5, <1>6, <1>7, <1>8, <1>9
     DEF Next, HandleClient, GetResponse

(* As long as each recv has been a message and each response had the reply to
   its message in it, no order is lost and none spoilt: between two messages
   all that were sent have been handled, in full, under the client's name. *)
THEOREM InStepServed == Spec => []OrderlyClientServed
<1>1. HandledInv /\ OrderlyInv => OrderlyClientServed
  BY DEF OrderlyClientServed, OrderlyInv, InStep, Served, AllOf, HandledInv, TypeOK
<1>2. Spec => []OrderlyInv
  BY InitOrderly, NextOrderly, HandledAlways, PTL DEF Spec
<1>3. QED
  BY <1>1, <1>2, HandledAlways, PTL

----------------------------------------------------------------------------
(* Liveness. *)

Waits == client = "waiting" /\ Orderly

(* A client in step that waits has its message on the way, or in submitOrder,
   or something to read. *)
ReplyComes ==
    Waits /\ stream = << >> /\ pc # "submit" => replies # << >>

LEMMA ReplyAppended ==
    ASSUME TypeOK, NEW what, NEW m, Reply(what, m)
    PROVE  replies' # << >>
<1>1. replies \in Seq(Replies) /\ replies' = Append(replies, [what |-> what, to |-> m])
  BY DEF TypeOK, Reply
<1>2. Len(replies) \in Nat
  BY <1>1, LenProperties
<1>3. Len(replies') = Len(replies) + 1
  BY <1>1 DEF Replies
<1>4. QED
  BY <1>2, <1>3

LEMMA NextReplyComes ==
    ASSUME HandledInv, OrderlyInv, OrderlyInv', ReplyComes, [Next]_vars
    PROVE  ReplyComes'
<1>1. SUFFICES ASSUME Waits', stream' = << >>, pc' # "submit"
               PROVE  replies' # << >>
  BY DEF ReplyComes
<1>2. TypeOK /\ replies \in Seq(Replies) /\ stream \in Seq(Units)
  BY DEF HandledInv, TypeOK
<1>3. ASSUME NEW n \in Ends, FirstRecv(n)
      PROVE  replies' # << >>
  <2>1. InStep' /\ client' = "waiting"
    BY <1>1 DEF OrderlyInv, Waits
  <2>2. pc' # "closed"
    BY <1>1, <2>1 DEF InStep, Served, Serving
  <2>3. QED
    BY <1>2, <1>3, <2>2, ReplyAppended DEF FirstRecv
<1>4. ASSUME NEW n \in Ends, ProcessMessage(n)
      PROVE  FALSE
  BY <1>1, <1>4, OrderRead DEF Waits
<1>5. CASE Answer
  BY <1>2, <1>5, ReplyAppended DEF Answer
<1>6. CASE Notify
  BY <1>2, <1>6, ReplyAppended DEF Notify
<1>7. ASSUME SendMessage
      PROVE  FALSE
  <2>1. sent \in Messages /\ stream' = stream \o Message(sent)
    BY <1>7 DEF SendMessage
  <2>2. Message(sent) \in Seq(Units) /\ Len(Message(sent)) > 0
    BY <2>1, MessageIs
  <2>3. Len(stream') = Len(stream) + Len(Message(sent))
    BY <1>2, <2>1, <2>2, ConcatProperties
  <2>4. Len(stream) \in Nat /\ Len(Message(sent)) \in Nat
    BY <1>2, <2>2, LenProperties
  <2>5. QED
    BY <1>1, <2>2, <2>3, <2>4
<1>8. ASSUME NEW n \in DOMAIN replies, ReadResponse(n) \/ TimeOut \/ ReceiveMessage(n)
      PROVE  FALSE
  BY <1>1, <1>8 DEF ReadResponse, TimeOut, ReceiveMessage, Respond, tester, Waits
<1>9. CASE TimeOut
  BY <1>1, <1>9 DEF TimeOut, Respond, Waits
<1>10. CASE UNCHANGED vars
  BY <1>1, <1>10 DEF vars, server, tester, ReplyComes, Waits, Orderly
<1>11. QED
  BY <1>3, <1>4, <1>5, <1>6, <1>7, <1>8, <1>9, <1>10 DEF Next, HandleClient, GetResponse

LEMMA RepliesAlways == Spec => [](HandledInv /\ OrderlyInv /\ ReplyComes)
<1>1. Init => ReplyComes
  BY DEF Init, ReplyComes, Waits
<1>2. HandledInv /\ HandledInv' /\ OrderlyInv /\ ReplyComes /\ [Next]_vars => ReplyComes'
  BY NextReplyComes, NextOrderly
<1>3. QED
  BY <1>1, <1>2, InitOrderly, NextOrderly, HandledAlways, PTL DEF Spec

OnTheWay == Waits /\ stream # << >>

Submitted == Waits /\ stream = << >> /\ pc = "submit"

Answered == Waits /\ replies # << >>

(* While the client waits nothing is sent. *)
LEMMA NothingSent ==
    ASSUME HandledInv, OrderlyInv, OrderlyInv', Waits, Waits', [Next]_vars, stream = << >>
    PROVE  stream' = << >>
<1>1. Ends = {}
  BY DEF Ends
<1>2. QED
  BY <1>1 DEF Next, HandleClient, Answer, Notify, SendMessage, GetResponse, ReadResponse, TimeOut,
     ReceiveMessage, vars, Waits

(* Replies stay until the client reads them. *)
LEMMA RepliesStay ==
    ASSUME HandledInv, Waits, Waits', [Next]_vars, replies # << >>
    PROVE  replies' # << >>
<1>1. TypeOK
  BY DEF HandledInv
<1>2. ASSUME NEW n \in Ends, FirstRecv(n) \/ ProcessMessage(n)
      PROVE  replies' # << >>
  BY <1>1, <1>2, ReplyAppended DEF FirstRecv, ProcessMessage
<1>3. CASE Answer
  BY <1>1, <1>3, ReplyAppended DEF Answer
<1>4. CASE Notify
  BY <1>1, <1>4, ReplyAppended DEF Notify
<1>5. QED
  BY <1>2, <1>3, <1>4 DEF Next, HandleClient, SendMessage, GetResponse, ReadResponse,
     TimeOut, ReceiveMessage, Respond, vars, Waits

(* A client in step that waits for a response gets one: handleClient reads its
   message, submitOrder answers it, and the client reads. *)
THEOREM InStepAnswered == Spec /\ []GuardsEnabled => OrderlyClientAnswered
<1> DEFINE Inv == HandledInv /\ OrderlyInv /\ ReplyComes
<1>1. Inv /\ Waits => OnTheWay \/ Submitted \/ Answered
  BY DEF ReplyComes, OnTheWay, Submitted, Answered
<1>2. Inv /\ Inv' /\ Answered /\ [Next]_vars => (Answered \/ ~ Waits)'
  BY RepliesStay DEF Answered
<1>3. Inv /\ Inv' /\ Submitted /\ [Next]_vars => (Submitted \/ Answered \/ ~ Waits)'
  <2>1. SUFFICES ASSUME Inv, Inv', Submitted, [Next]_vars, Waits'
                 PROVE  (Submitted \/ Answered)'
    OBVIOUS
  <2>2. stream' = << >>
    BY <2>1, NothingSent DEF Submitted
  <2>3. QED
    BY <2>1, <2>2 DEF Submitted, Answered, ReplyComes
<1>4. Inv /\ Submitted /\ <<HandleClient>>_vars => (~ Submitted)'
  BY DEF HandleClient, FirstRecv, ProcessMessage, Answer, Submitted
<1>5. Inv /\ Inv' /\ OnTheWay /\ <<HandleClient>>_vars => (~ OnTheWay)'
  <2>1. SUFFICES ASSUME Inv, Inv', OnTheWay, HandleClient, Waits'
                 PROVE  stream' = << >>
    BY DEF OnTheWay
  <2>2. InStep /\ client = "waiting" /\ Orderly'
    BY <2>1 DEF OnTheWay, Waits, OrderlyInv
  <2>3. ASSUME NEW n \in Ends, FirstRecv(n) \/ ProcessMessage(n)
        PROVE  stream' = << >>
    <3>1. Recv(n) /\ (pc = "first" \/ pc = "recv")
      BY <2>3 DEF FirstRecv, ProcessMessage
    <3>2. cut' = FALSE
      BY <2>1, <2>2 DEF HandledInv, TypeOK, Orderly
    <3>3. QED
      BY <2>1, <2>2, <3>1, <3>2, WholeMessage
  <2>4. ~ Answer
    BY <2>1, <2>2 DEF InStep, OnTheWay, Served, Answer
  <2>5. QED
    BY <2>1, <2>3, <2>4 DEF HandleClient
<1>6. Inv /\ OnTheWay => CanHandleClient
  <2>1. SUFFICES ASSUME Inv, OnTheWay
                 PROVE  CanHandleClient
    OBVIOUS
  <2>2. stream = Message(sent - 1) /\ Served(sent - 1) /\ sent > 0
    BY <2>1 DEF OnTheWay, Waits, OrderlyInv, InStep
  <2>3. sent - 1 \in Messages
    BY <2>1, <2>2, ProtocolAssumption DEF HandledInv, TypeOK, Messages
  <2>4. Len(stream) \in DOMAIN stream /\ stream[Len(stream)].part = "nl"
    <3>1. CASE sent - 1 = 0
      BY <2>2, <2>3, <3>1, MessageIs, LenProperties
    <3>2. CASE sent - 1 # 0
      BY <2>2, <2>3, <3>2, MessageIs, LenProperties
    <3>3. QED
      BY <3>1, <3>2
  <2>5. Len(stream) \in Ends
    BY <2>4 DEF Ends
  <2>6. QED
    BY <2>2, <2>5 DEF CanHandleClient, Served
<1>7. Submitted => CanHandleClient
  BY DEF Submitted, CanHandleClient
<1>8. Answered => CanGetResponse
  BY DEF Answered, Waits, CanGetResponse
<1>9. <<GetResponse>>_vars => (~ Waits)'
  BY DEF GetResponse, ReadResponse, Respond, Waits
<1>10. GuardsEnabled =>
          /\ CanHandleClient => ENABLED <<HandleClient>>_vars
          /\ CanGetResponse => ENABLED <<GetResponse>>_vars
  BY DEF GuardsEnabled
<1>11. Waits <=> client = "waiting" /\ Orderly
  BY DEF Waits
<1>12. HandledInv => client = "idle" \/ client = "waiting"
  BY DEF HandledInv, TypeOK
<1>13. client = "waiting" => ~ client = "idle"
  OBVIOUS
<1>14. QED
  BY <1>1, <1>2, <1>3, <1>4, <1>5, <1>6, <1>7, <1>8, <1>9, <1>10, <1>11, <1>12, <1>13,
     RepliesAlways, PTL DEF Spec, OrderlyClientAnswered
=============================================================================
