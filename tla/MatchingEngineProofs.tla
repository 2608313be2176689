------------------------ MODULE MatchingEngineProofs -------------------------
(***************************************************************************)
(* Theorems about MatchingEngine, for every set of threads, symbols,       *)
(* prices and quantities and every bound on the number of orders, in two   *)
(* parts.                                                                  *)
(*                                                                         *)
(* The first part keeps to the layout of a book: what the operations of    *)
(* OrderBook do to its levels and its index; types; the agreement of index *)
(* and levels as long as the orders of a symbol do not overlap.            *)
(*                                                                         *)
(* The second part treats a book as the set of the orders on its two       *)
(* sides: what orders trade; that the engine implements Exchange; what     *)
(* WebView shows of the books; that the loop and the announcement of its   *)
(* trades come to an end.                                                  *)
(***************************************************************************)
EXTENDS WebView, SequenceTheorems, WellFoundedInduction, TLAPS


----------------------------------------------------------------------------
(* Maps. *)

LEMMA PutIsMap ==
    ASSUME NEW K, NEW V, NEW map, IsMap(map, K, V), NEW key \in K, NEW value \in V
    PROVE  /\ IsMap(Put(map, key, value), K, V)
           /\ DOMAIN Put(map, key, value) = DOMAIN map \cup {key}
           /\ \A k \in DOMAIN map \cup {key} :
                Put(map, key, value)[k] = IF k = key THEN value ELSE map[k]
BY DEF Put, IsMap

LEMMA DropIsMap ==
    ASSUME NEW K, NEW V, NEW map, IsMap(map, K, V), NEW key
    PROVE  /\ IsMap(Drop(map, key), K, V)
           /\ DOMAIN Drop(map, key) = DOMAIN map \ {key}
           /\ \A k \in DOMAIN map \ {key} : Drop(map, key)[k] = map[k]
BY DEF Drop, Restrict, IsMap

(* Sequences: what erase leaves of a vector. *)
LEMMA RemoveAtProperties ==
    ASSUME NEW S, NEW s \in Seq(S), NEW i \in 1 .. Len(s)
    PROVE  /\ RemoveAt(s, i) \in Seq(S)
           /\ Len(RemoveAt(s, i)) = Len(s) - 1
           /\ \A j \in 1 .. Len(s) - 1 :
                RemoveAt(s, i)[j] = IF j < i THEN s[j] ELSE s[j + 1]
<1> DEFINE front == SubSeq(s, 1, i - 1)
           back == SubSeq(s, i + 1, Len(s))
<1>1. Len(s) \in Nat
  BY LenProperties
<1>2. /\ front \in Seq(S) /\ Len(front) = i - 1
      /\ \A j \in 1 .. i - 1 : front[j] = s[j]
  BY <1>1, SubSeqProperties
<1>3. /\ back \in Seq(S) /\ Len(back) = Len(s) - i
      /\ \A j \in 1 .. Len(s) - i : back[j] = s[i + j]
  BY <1>1, SubSeqProperties
<1> HIDE DEF front, back
<1>a. Len(front) + Len(back) = Len(s) - 1
  BY <1>1, <1>2, <1>3
<1>b. /\ front \o back \in Seq(S)
      /\ Len(front \o back) = Len(front) + Len(back)
      /\ \A j \in 1 .. Len(front) + Len(back) :
           (front \o back)[j] = IF j <= Len(front) THEN front[j]
                                 ELSE back[j - Len(front)]
  BY <1>2, <1>3, ConcatProperties
<1>4. /\ front \o back \in Seq(S)
      /\ Len(front \o back) = Len(s) - 1
      /\ \A j \in 1 .. Len(s) - 1 :
           (front \o back)[j] = IF j <= i - 1 THEN front[j]
                                 ELSE back[j - (i - 1)]
  BY <1>1, <1>2, <1>a, <1>b
<1>5. \A j \in 1 .. Len(s) - 1 :
        (front \o back)[j] = IF j < i THEN s[j] ELSE s[j + 1]
  BY <1>1, <1>2, <1>3, <1>4
<1>6. QED
  BY <1>4, <1>5 DEF RemoveAt, front, back

----------------------------------------------------------------------------
(* The operations keep a book a book. *)

LEMMA LevelInBook ==
    ASSUME NEW P, NEW I, NEW O, NEW book, IsBook(book, P, I, O),
           NEW side \in Sides, NEW p \in DOMAIN book.levels[side]
    PROVE  /\ p \in P
           /\ book.levels[side][p] \in Seq(O)
BY DEF IsBook, IsMap

LEMMA OrderInBook ==
    ASSUME NEW P, NEW I, NEW O, NEW book, IsBook(book, P, I, O),
           NEW at, at.side \in Sides, InBounds(book, at)
    PROVE  /\ at.price \in P
           /\ at.pos \in Nat \ {0}
           /\ OrderAt(book, at) \in O
<1>1. /\ at.price \in P /\ book.levels[at.side][at.price] \in Seq(O)
  BY LevelInBook DEF InBounds
<1>2. QED
  BY <1>1, LenProperties, ElementOfSeq DEF InBounds, OrderAt

LEMMA GetOrderAddress ==
    ASSUME NEW P, NEW I, NEW O, NEW book, IsBook(book, P, I, O),
           NEW id, HasOrder(book, id)
    PROVE  /\ GetOrder(book, id) \in [side : Sides, price : P, pos : Nat \ {0}]
           /\ InBounds(book, GetOrder(book, id))
           /\ OrderAt(book, GetOrder(book, id)).id = id
           /\ id \in I
<1> DEFINE side == IF "BUY" \in FoundOn(book, id) THEN "BUY" ELSE "SELL"
<1>1. side \in FoundOn(book, id)
  BY DEF HasOrder, FoundOn, Sides
<1>2. /\ side \in Sides
      /\ id \in DOMAIN book.index
      /\ InBounds(book, Indexed(book, id, side))
      /\ OrderAt(book, Indexed(book, id, side)).id = id
  BY <1>1 DEF FoundOn
<1>3. GetOrder(book, id) = Indexed(book, id, side)
  BY DEF GetOrder
<1>4. id \in I /\ book.index[id] \in P \X (Nat \ {0})
  BY <1>2 DEF IsBook, IsMap
<1>5. GetOrder(book, id) \in [side : Sides, price : P, pos : Nat \ {0}]
  BY <1>2, <1>3, <1>4 DEF Indexed
<1>6. QED
  BY <1>2, <1>3, <1>4, <1>5

LEMMA LevelIsSequence ==
    ASSUME NEW P, NEW I, NEW O, NEW book, IsBook(book, P, I, O),
           NEW side \in Sides, NEW p
    PROVE  Level(book, side, p) \in Seq(O)
BY LevelInBook, EmptySeq DEF Level

(* A book with the levels of one side and the index replaced. *)
LEMMA BookUpdate ==
    ASSUME NEW P, NEW I, NEW O, NEW book, IsBook(book, P, I, O),
           NEW side \in Sides, NEW levels, IsMap(levels, P, Seq(O)),
           NEW index, IsMap(index, I, P \X (Nat \ {0}))
    PROVE  IsBook([levels |-> [book.levels EXCEPT ![side] = levels],
                   index |-> index], P, I, O)
BY DEF IsBook

LEMMA AddOrderIsBook ==
    ASSUME NEW P, NEW I, NEW O, NEW book, IsBook(book, P, I, O),
           NEW o \in O, o.side \in Sides, o.price \in P, o.id \in I
    PROVE  IsBook(AddOrder(book, o), P, I, O)
<1> DEFINE level == Append(Level(book, o.side, o.price), o)
<1>1. level \in Seq(O) /\ Len(level) \in Nat \ {0}
  BY LevelIsSequence, AppendProperties, LenProperties
<1>2. IsMap(Put(book.levels[o.side], o.price, level), P, Seq(O))
  BY <1>1, PutIsMap DEF IsBook
<1>3. IsMap(Put(book.index, o.id, <<o.price, Len(level)>>), I, P \X (Nat \ {0}))
  <2>1. <<o.price, Len(level)>> \in P \X (Nat \ {0})
    BY <1>1
  <2>2. IsMap(book.index, I, P \X (Nat \ {0}))
    BY DEF IsBook
  <2> HIDE DEF level
  <2>3. QED
    BY <2>1, <2>2, PutIsMap
<1>4. QED
  BY <1>2, <1>3, BookUpdate DEF AddOrder

LEMMA WriteThroughIsBook ==
    ASSUME NEW P, NEW I, NEW O, NEW book, IsBook(book, P, I, O),
           NEW at, at.side \in Sides, InBounds(book, at), NEW o \in O
    PROVE  IsBook(WriteThrough(book, at, o), P, I, O)
<1> DEFINE level == book.levels[at.side][at.price]
           levels == [book.levels[at.side] EXCEPT
                        ![at.price] = [level EXCEPT ![at.pos] = o]]
<1>1. level \in Seq(O) /\ at.price \in P
  BY LevelInBook DEF InBounds
<1>2. [level EXCEPT ![at.pos] = o] \in Seq(O)
  BY <1>1, ExceptSeq DEF InBounds
<1>3. IsMap(levels, P, Seq(O))
  BY <1>2 DEF IsBook, IsMap
<1>4. WriteThrough(book, at, o) =
        [levels |-> [book.levels EXCEPT ![at.side] = levels],
         index |-> book.index]
  BY DEF WriteThrough, IsBook
<1>5. IsMap(book.index, I, P \X (Nat \ {0}))
  BY DEF IsBook
<1>6. ASSUME NEW new, IsMap(new, P, Seq(O))
      PROVE  IsBook([levels |-> [book.levels EXCEPT ![at.side] = new],
                     index |-> book.index], P, I, O)
  BY <1>5, <1>6, BookUpdate
<1>7. QED
  BY <1>3, <1>4, <1>6

LEMMA EraseIsBook ==
    ASSUME NEW P, NEW I, NEW O, NEW book, IsBook(book, P, I, O),
           \A o \in O : o.id \in I,
           NEW id, NEW at, at.side \in Sides, InBounds(book, at)
    PROVE  IsBook(Erase(book, id, at), P, I, O)
<1> DEFINE level == book.levels[at.side][at.price]
           rest == RemoveAt(level, at.pos)
           levels == IF rest = << >>
                     THEN Drop(book.levels[at.side], at.price)
                     ELSE Put(book.levels[at.side], at.price, rest)
           moved == { rest[i].id : i \in at.pos .. Len(rest) }
           index == Reindex(book.index, at.price, at.pos, rest)
<1>1. level \in Seq(O) /\ at.price \in P /\ at.pos \in 1 .. Len(level)
  BY LevelInBook DEF InBounds
<1>2. rest \in Seq(O) /\ Len(rest) \in Nat
  BY <1>1, RemoveAtProperties, LenProperties
<1>3. IsMap(levels, P, Seq(O))
  <2>1. IsMap(book.levels[at.side], P, Seq(O))
    BY DEF IsBook
  <2>2. QED
    BY <1>1, <1>2, <2>1, PutIsMap, DropIsMap
<1>4. IsMap(index, I, P \X (Nat \ {0}))
  <2>1. moved \subseteq I
    BY <1>1, <1>2, ElementOfSeq, LenProperties
  <2> DEFINE place(k) == CHOOSE i \in at.pos .. Len(rest) : rest[i].id = k
  <2>2. ASSUME NEW k \in moved
        PROVE  place(k) \in Nat \ {0}
    <3>1. \E i \in at.pos .. Len(rest) : rest[i].id = k
      OBVIOUS
    <3>2. place(k) \in at.pos .. Len(rest)
      BY <3>1
    <3>3. at.pos \in Nat \ {0}
      BY <1>1, LenProperties
    <3> HIDE DEF place
    <3>4. QED
      BY <1>2, <3>2, <3>3
  <2>3. IsMap(book.index, I, P \X (Nat \ {0}))
    BY DEF IsBook
  <2> HIDE DEF rest, level
  <2>4. index = [k \in DOMAIN book.index \cup moved |->
                   IF k \in moved
                   THEN <<at.price, place(k)>> ELSE book.index[k]]
    BY DEF Reindex
  <2> HIDE DEF moved, index, place
  <2>5. DOMAIN index = DOMAIN book.index \cup moved
    BY <2>4
  <2>6. ASSUME NEW k \in DOMAIN index
        PROVE  index[k] \in P \X (Nat \ {0})
    BY <1>1, <2>2, <2>3, <2>4, <2>5 DEF IsMap
  <2>7. index = [k \in DOMAIN index |-> index[k]]
    BY <2>4
  <2>8. QED
    BY <2>1, <2>3, <2>5, <2>6, <2>7 DEF IsMap
<1>5. IsMap(Drop(index, id), I, P \X (Nat \ {0}))
  BY <1>4, DropIsMap
<1>6. QED
  BY <1>3, <1>5, BookUpdate DEF Erase

LEMMA RemoveOrderIsBook ==
    ASSUME NEW P, NEW I, NEW O, NEW book, IsBook(book, P, I, O),
           \A o \in O : o.id \in I, NEW id
    PROVE  IsBook(RemoveOrder(book, id), P, I, O)
<1>1. CASE HasOrder(book, id)
  <2>1. GetOrder(book, id).side \in Sides /\ InBounds(book, GetOrder(book, id))
    BY <1>1, GetOrderAddress
  <2>2. QED
    BY <1>1, <2>1, EraseIsBook DEF RemoveOrder
<1>2. CASE ~ HasOrder(book, id)
  BY <1>2 DEF RemoveOrder
<1>3. QED
  BY <1>1, <1>2

----------------------------------------------------------------------------
(* The index and the levels. *)

(* There is an order at position i of a price level; the order there. *)
In(book, side, p, i) ==
    p \in DOMAIN book.levels[side] /\ i \in 1 .. Len(book.levels[side][p])

At(book, side, p, i) == book.levels[side][p][i]

NoEmptyLevel(book) ==
    \A side \in Sides : \A p \in DOMAIN book.levels[side] :
        book.levels[side][p] # << >>

(* The index and the levels agree, and no order is on both sides. *)
WellIndexed(book) ==
    /\ NoEmptyLevel(book)
    /\ \A side \in Sides : \A p, i : In(book, side, p, i) =>
            /\ At(book, side, p, i).id \in DOMAIN book.index
            /\ book.index[At(book, side, p, i).id] = <<p, i>>
    /\ \A side \in Sides : \A p, i, j :
            In(book, side, p, i) /\ In(book, side, p, j) /\ i < j =>
                At(book, side, p, i).id < At(book, side, p, j).id
    /\ \A id \in DOMAIN book.index : \E side \in Sides : \E p, i :
            /\ book.index[id] = <<p, i>>
            /\ In(book, side, p, i) /\ At(book, side, p, i).id = id
    /\ \A p, i : In(book, "BUY", p, i) /\ In(book, "SELL", p, i) =>
            At(book, "BUY", p, i).id # At(book, "SELL", p, i).id

(* Every order is one that may rest where it is. *)
AllRest(book, symbol) ==
    \A side \in Sides : \A p, i :
        In(book, side, p, i) => RestsAt(At(book, side, p, i), symbol, side, p)

----------------------------------------------------------------------------
(* Reading a book. *)

LEMMA OrderThere ==
    ASSUME NEW P, NEW I, NEW O, NEW book, IsBook(book, P, I, O),
           NEW side \in Sides, NEW p, NEW i, In(book, side, p, i)
    PROVE  /\ p \in P /\ i \in Nat \ {0} /\ At(book, side, p, i) \in O
           /\ book.levels[side][p] \in Seq(O)
           /\ Len(book.levels[side][p]) \in Nat
BY LevelInBook, LenProperties, ElementOfSeq DEF In, At

LEMMA WellIndexedIsConsistent ==
    ASSUME NEW P, NEW I, NEW O, NEW book, IsBook(book, P, I, O), NEW symbol,
           WellIndexed(book), AllRest(book, symbol)
    PROVE  Consistent(book, symbol)
<1>1. ASSUME NEW side \in Sides, NEW p \in DOMAIN book.levels[side]
      PROVE  LET level == book.levels[side][p] IN
             /\ level # << >>
             /\ \A i \in DOMAIN level :
                  /\ RestsAt(level[i], symbol, side, p)
                  /\ level[i].id \in DOMAIN book.index
                  /\ book.index[level[i].id] = <<p, i>>
             /\ \A i, j \in DOMAIN level : i < j => level[i].id < level[j].id
  <2>1. \A i \in DOMAIN book.levels[side][p] :
            In(book, side, p, i) /\ At(book, side, p, i) = book.levels[side][p][i]
    BY LevelInBook, LenProperties DEF In, At
  <2>2. book.levels[side][p] # << >>
    BY DEF WellIndexed, NoEmptyLevel
  <2>3. QED
    BY <2>1, <2>2 DEF WellIndexed, AllRest
<1>2. ASSUME NEW id \in DOMAIN book.index PROVE HasOrder(book, id)
  <2>1. PICK side \in Sides : \E p, i :
            /\ book.index[id] = <<p, i>>
            /\ In(book, side, p, i) /\ At(book, side, p, i).id = id
    BY DEF WellIndexed
  <2>2. side \in FoundOn(book, id)
    BY <2>1 DEF FoundOn, Indexed, InBounds, OrderAt, In, At
  <2>3. QED
    BY <2>2 DEF HasOrder
<1>3. QED
  BY <1>1, <1>2 DEF Consistent

(* getOrder leads to the place an order is at. *)
LEMMA GetOrderFinds ==
    ASSUME NEW book, WellIndexed(book), NEW side \in Sides, NEW p, NEW i,
           In(book, side, p, i)
    PROVE  /\ HasOrder(book, At(book, side, p, i).id)
           /\ GetOrder(book, At(book, side, p, i).id)
                = [side |-> side, price |-> p, pos |-> i]
<1> DEFINE id == At(book, side, p, i).id
<1>1. id \in DOMAIN book.index /\ book.index[id] = <<p, i>>
  BY DEF WellIndexed
<1> HIDE DEF id
<1>2. \A s \in Sides : Indexed(book, id, s) = [side |-> s, price |-> p, pos |-> i]
  BY <1>1 DEF Indexed
<1>3. \A s \in Sides : s \in FoundOn(book, id) <=>
                          In(book, s, p, i) /\ At(book, s, p, i).id = id
  BY <1>1, <1>2 DEF FoundOn, InBounds, OrderAt, In, At
<1>4. FoundOn(book, id) = {side}
  BY <1>3 DEF WellIndexed, Sides, FoundOn, id
<1>5. GetOrder(book, id) = [side |-> side, price |-> p, pos |-> i]
  BY <1>2, <1>4 DEF GetOrder, Sides
<1>6. QED
  BY <1>4, <1>5 DEF HasOrder, id

(* Every order of the book came before n. *)
Below(book, n) ==
    \A side \in Sides : \A p, i :
        In(book, side, p, i) => At(book, side, p, i).id < n

----------------------------------------------------------------------------
(* A write through a pointer: one order changes, and no place. *)

LEMMA WriteThroughPlaces ==
    ASSUME NEW P, NEW I, NEW O, NEW book, IsBook(book, P, I, O),
           NEW at, at.side \in Sides, InBounds(book, at), NEW o
    PROVE  LET new == WriteThrough(book, at, o) IN
           /\ new.index = book.index
           /\ \A side \in Sides : DOMAIN new.levels[side] = DOMAIN book.levels[side]
           /\ \A side \in Sides : \A p, i :
                In(new, side, p, i) <=> In(book, side, p, i)
           /\ \A side \in Sides : \A p, i : In(book, side, p, i) =>
                At(new, side, p, i) =
                    IF side = at.side /\ p = at.price /\ i = at.pos
                    THEN o ELSE At(book, side, p, i)
           /\ NoEmptyLevel(book) => NoEmptyLevel(new)
<1> DEFINE new == WriteThrough(book, at, o)
           level == book.levels[at.side][at.price]
           newLevel == [level EXCEPT ![at.pos] = o]
           levels == [book.levels[at.side] EXCEPT ![at.price] = newLevel]
<1>1. new = [levels |-> [book.levels EXCEPT ![at.side] = levels],
             index |-> book.index]
  BY DEF WriteThrough, IsBook
<1>2. /\ level \in Seq(O) /\ at.pos \in 1 .. Len(level)
      /\ at.price \in DOMAIN book.levels[at.side]
  BY LevelInBook DEF InBounds
<1>3. /\ Len(newLevel) = Len(level)
      /\ \A i \in 1 .. Len(level) :
            newLevel[i] = IF i = at.pos THEN o ELSE level[i]
  <2>1. DOMAIN level = 1 .. Len(level) /\ Len(level) \in Nat
    BY <1>2, LenProperties
  <2>2. level \in [1 .. Len(level) -> O \cup {o}]
    BY <1>2, <2>1, ElementOfSeq
  <2>3. /\ newLevel \in [1 .. Len(level) -> O \cup {o}]
        /\ \A i \in 1 .. Len(level) :
              newLevel[i] = IF i = at.pos THEN o ELSE level[i]
    BY <1>2, <2>2
  <2>4. QED
    BY <2>1, <2>3
<1>4. \A side \in Sides : \A p \in DOMAIN book.levels[side] :
        /\ DOMAIN new.levels[side] = DOMAIN book.levels[side]
        /\ new.levels[side][p] = IF side = at.side /\ p = at.price
                                 THEN newLevel ELSE book.levels[side][p]
  <2>1. /\ book.levels = [side \in Sides |-> book.levels[side]]
        /\ book.levels[at.side] =
             [p \in DOMAIN book.levels[at.side] |-> book.levels[at.side][p]]
    BY DEF IsBook, IsMap
  <2> HIDE DEF newLevel, new
  <2>2. QED
    BY <1>1, <1>2, <2>1
<1>5. \A side \in Sides : DOMAIN new.levels[side] = DOMAIN book.levels[side]
  <2>1. book.levels = [side \in Sides |-> book.levels[side]]
    BY DEF IsBook
  <2> HIDE DEF newLevel, new
  <2>2. QED
    BY <1>1, <2>1
<1>6. new.index = book.index
  BY <1>1
<1> HIDE DEF new, newLevel
<1>7. \A side \in Sides : \A p, i :
        In(new, side, p, i) <=> In(book, side, p, i)
  BY <1>3, <1>4, <1>5 DEF In
<1>8. \A side \in Sides : \A p, i : In(book, side, p, i) =>
        At(new, side, p, i) = IF side = at.side /\ p = at.price /\ i = at.pos
                              THEN o ELSE At(book, side, p, i)
  BY <1>3, <1>4 DEF In, At
<1>9. NoEmptyLevel(book) => NoEmptyLevel(new)
  <2>1. ASSUME NoEmptyLevel(book), NEW side \in Sides,
               NEW p \in DOMAIN new.levels[side]
        PROVE  new.levels[side][p] # << >>
    <3>1. newLevel # << >>
      BY <1>2, <1>3, LenProperties, EmptySeq
    <3>2. p \in DOMAIN book.levels[side]
      BY <1>5
    <3>3. QED
      BY <2>1, <3>1, <3>2, <1>4 DEF NoEmptyLevel
  <2>2. QED
    BY <2>1 DEF NoEmptyLevel
<1>10. QED
  BY <1>5, <1>6, <1>7, <1>8, <1>9 DEF new

LEMMA WriteThroughWellIndexed ==
    ASSUME NEW P, NEW I, NEW O, NEW book, IsBook(book, P, I, O),
           WellIndexed(book),
           NEW at, at.side \in Sides, InBounds(book, at),
           NEW o, o.id = OrderAt(book, at).id
    PROVE  /\ WellIndexed(WriteThrough(book, at, o))
           /\ \A side \in Sides : \A p, i : In(book, side, p, i) =>
                At(WriteThrough(book, at, o), side, p, i).id
                  = At(book, side, p, i).id
<1> DEFINE new == WriteThrough(book, at, o)
<1>1. /\ new.index = book.index
      /\ \A side \in Sides : \A p, i :
            In(new, side, p, i) <=> In(book, side, p, i)
      /\ \A side \in Sides : \A p, i : In(book, side, p, i) =>
            At(new, side, p, i) =
                IF side = at.side /\ p = at.price /\ i = at.pos
                THEN o ELSE At(book, side, p, i)
      /\ NoEmptyLevel(book) => NoEmptyLevel(new)
  BY WriteThroughPlaces
<1> HIDE DEF new
<1>2. \A side \in Sides : \A p, i : In(book, side, p, i) =>
            At(new, side, p, i).id = At(book, side, p, i).id
  <2>1. At(book, at.side, at.price, at.pos).id = o.id
    BY DEF OrderAt, At
  <2>2. ASSUME NEW side \in Sides, NEW p, NEW i, In(book, side, p, i)
        PROVE  At(new, side, p, i).id = At(book, side, p, i).id
    <3>1. CASE side = at.side /\ p = at.price /\ i = at.pos
      BY <1>1, <2>1, <2>2, <3>1
    <3>2. CASE ~ (side = at.side /\ p = at.price /\ i = at.pos)
      BY <1>1, <2>2, <3>2
    <3>3. QED
      BY <3>1, <3>2
  <2>3. QED
    BY <2>2
<1>s. "BUY" \in Sides /\ "SELL" \in Sides
  BY DEF Sides
<1>3. WellIndexed(new)
  BY <1>1, <1>2, <1>s DEF WellIndexed
<1>4. QED
  BY <1>2, <1>3 DEF new

----------------------------------------------------------------------------
(* An erasure: the orders behind the erased one move one place forward.  *)

(* Where the order now at position i was before the order at `at` went. *)
Before(at, side, p, i) ==
    IF side = at.side /\ p = at.price /\ i >= at.pos THEN i + 1 ELSE i

LEMMA ErasePlaces ==
    ASSUME NEW P, NEW I, NEW O, NEW book, IsBook(book, P, I, O),
           NEW at, at.side \in Sides, InBounds(book, at), NEW id,
           NoEmptyLevel(book)
    PROVE  LET new == Erase(book, id, at)
               last == Len(book.levels[at.side][at.price]) IN
           /\ \A side \in Sides : \A p, i :
                In(new, side, p, i) <=>
                    IF side = at.side /\ p = at.price THEN i \in 1 .. last - 1
                    ELSE In(book, side, p, i)
           /\ \A side \in Sides : \A p, i : In(new, side, p, i) =>
                /\ In(book, side, p, Before(at, side, p, i))
                /\ At(new, side, p, i)
                     = At(book, side, p, Before(at, side, p, i))
           /\ NoEmptyLevel(new)
<1> DEFINE new == Erase(book, id, at)
           level == book.levels[at.side][at.price]
           rest == RemoveAt(level, at.pos)
           levels == IF rest = << >>
                     THEN Drop(book.levels[at.side], at.price)
                     ELSE Put(book.levels[at.side], at.price, rest)
           map == book.levels[at.side]
<1>1. /\ level \in Seq(O) /\ at.pos \in 1 .. Len(level) /\ Len(level) \in Nat
      /\ at.price \in DOMAIN map /\ at.price \in P
  BY LevelInBook, LenProperties DEF InBounds
<1>2. /\ rest \in Seq(O)
      /\ Len(rest) = Len(level) - 1
      /\ \A j \in 1 .. Len(level) - 1 :
            rest[j] = IF j < at.pos THEN level[j] ELSE level[j + 1]
  BY <1>1, RemoveAtProperties
<1>3. rest = << >> <=> Len(level) = 1
  <2>1. \A s \in Seq(O) : Len(s) = 0 <=> s = << >>
    OBVIOUS
  <2> HIDE DEF rest, level
  <2>2. QED
    BY <1>1, <1>2, <2>1
<1> HIDE DEF rest, map, level
<1>5. /\ DOMAIN levels = IF rest = << >> THEN DOMAIN map \ {at.price}
                         ELSE DOMAIN map
      /\ \A p \in DOMAIN levels :
            levels[p] = IF p = at.price THEN rest ELSE map[p]
  <2>1. CASE rest = << >>
    <3>1. /\ DOMAIN Drop(map, at.price) = DOMAIN map \ {at.price}
          /\ \A p \in DOMAIN map \ {at.price} : Drop(map, at.price)[p] = map[p]
      BY DEF Drop, Restrict
    <3>2. QED
      BY <2>1, <3>1 DEF map
  <2>2. CASE rest # << >>
    <3>1. /\ DOMAIN Put(map, at.price, rest) = DOMAIN map \cup {at.price}
          /\ \A p \in DOMAIN map \cup {at.price} :
                Put(map, at.price, rest)[p]
                  = IF p = at.price THEN rest ELSE map[p]
      BY DEF Put
    <3>2. QED
      BY <1>1, <2>2, <3>1 DEF map
  <2>3. QED
    BY <2>1, <2>2
<1>6. new.levels = [book.levels EXCEPT ![at.side] = levels]
  BY DEF Erase, rest, level
<1> HIDE DEF new, levels
<1>7. /\ new.levels[at.side] = levels
      /\ \A side \in Sides : side # at.side =>
            new.levels[side] = book.levels[side]
  <2>1. book.levels = [side \in Sides |-> book.levels[side]]
    BY DEF IsBook
  <2>2. QED
    BY <1>6, <2>1
<1>8. \A side \in Sides : \A p, i :
        In(new, side, p, i) <=>
            IF side = at.side /\ p = at.price THEN i \in 1 .. Len(level) - 1
            ELSE In(book, side, p, i)
  <2>1. ASSUME NEW p, NEW i
        PROVE  In(new, at.side, p, i) <=>
                 IF p = at.price THEN i \in 1 .. Len(level) - 1
                 ELSE In(book, at.side, p, i)
    <3>1. CASE p = at.price
      BY <1>1, <1>2, <1>3, <1>5, <1>7, <3>1 DEF In
    <3>2. CASE p # at.price
      BY <1>5, <1>7, <3>2 DEF In, map
    <3>3. QED
      BY <3>1, <3>2
  <2>2. \A side \in Sides : side # at.side => \A p, i :
            In(new, side, p, i) <=> In(book, side, p, i)
    BY <1>7 DEF In
  <2>3. QED
    BY <2>1, <2>2
<1>9. ASSUME NEW side \in Sides, NEW p, NEW i, In(new, side, p, i)
      PROVE  /\ In(book, side, p, Before(at, side, p, i))
             /\ At(new, side, p, i) = At(book, side, p, Before(at, side, p, i))
  <2>1. CASE side = at.side /\ p = at.price
    <3>1. /\ i \in 1 .. Len(level) - 1 /\ p \in DOMAIN levels
      BY <1>7, <1>8, <1>9, <2>1 DEF In
    <3>2. At(new, side, p, i) = rest[i]
      BY <1>5, <1>7, <2>1, <3>1 DEF At
    <3>3. QED
      BY <1>1, <1>2, <2>1, <3>1, <3>2 DEF In, At, Before, level, map
  <2>2. CASE ~ (side = at.side /\ p = at.price)
    <3>1. In(book, side, p, i) /\ Before(at, side, p, i) = i
      BY <1>8, <1>9, <2>2 DEF Before
    <3>2. new.levels[side][p] = book.levels[side][p]
      BY <1>5, <1>7, <1>9, <2>2 DEF In, map
    <3>3. QED
      BY <3>1, <3>2 DEF At
  <2>3. QED
    BY <2>1, <2>2
<1>10. NoEmptyLevel(new)
  <2>1. \A p \in DOMAIN levels : levels[p] # << >>
    BY <1>5 DEF NoEmptyLevel, map
  <2>2. QED
    BY <1>7, <2>1 DEF NoEmptyLevel
<1>11. QED
  BY <1>8, <1>9, <1>10 DEF new, level

LEMMA EraseIndex ==
    ASSUME NEW P, NEW I, NEW O, NEW book, IsBook(book, P, I, O),
           \A o \in O : o.id \in Nat, WellIndexed(book),
           NEW at, at.side \in Sides, InBounds(book, at), NEW id
    PROVE  LET new == Erase(book, id, at)
               last == Len(book.levels[at.side][at.price]) IN
           /\ DOMAIN new.index = DOMAIN book.index \ {id}
           /\ \A k \in DOMAIN new.index :
                /\ \A i \in at.pos .. last - 1 :
                     At(book, at.side, at.price, i + 1).id = k =>
                         new.index[k] = <<at.price, i>>
                /\ (\A i \in at.pos .. last - 1 :
                      At(book, at.side, at.price, i + 1).id # k) =>
                         new.index[k] = book.index[k]
<1> DEFINE new == Erase(book, id, at)
           level == book.levels[at.side][at.price]
           rest == RemoveAt(level, at.pos)
           last == Len(level)
           place(k) == CHOOSE i \in at.pos .. Len(rest) : rest[i].id = k
           moved == { rest[i].id : i \in at.pos .. Len(rest) }
           index == Reindex(book.index, at.price, at.pos, rest)
<1>1. /\ level \in Seq(O) /\ at.pos \in 1 .. last /\ last \in Nat
      /\ at.price \in DOMAIN book.levels[at.side] /\ at.price \in P
  BY LevelInBook, LenProperties DEF InBounds
<1>2. /\ Len(rest) = last - 1
      /\ \A i \in at.pos .. last - 1 :
            rest[i] = At(book, at.side, at.price, i + 1)
  <2>1. /\ Len(rest) = last - 1
        /\ \A i \in 1 .. last - 1 :
              rest[i] = IF i < at.pos THEN level[i] ELSE level[i + 1]
    BY <1>1, RemoveAtProperties
  <2>2. \A i : level[i + 1] = At(book, at.side, at.price, i + 1)
    BY DEF At
  <2> HIDE DEF rest, level, last
  <2>3. ASSUME NEW i \in at.pos .. last - 1
        PROVE  i \in 1 .. last - 1 /\ ~ (i < at.pos)
    BY <1>1
  <2>4. QED
    BY <2>1, <2>2, <2>3
<1>3. \A i \in 1 .. last : In(book, at.side, at.price, i)
  BY <1>1 DEF In
<1>4. \A i \in 1 .. last : At(book, at.side, at.price, i).id \in Nat
  BY <1>3, OrderThere
<1>5. index = [k \in DOMAIN book.index \cup moved |->
                 IF k \in moved THEN <<at.price, place(k)>> ELSE book.index[k]]
  BY DEF Reindex
<1>6. new.index = Drop(index, id)
  BY DEF Erase
<1> HIDE DEF rest, level, last, index, new
<1>7. ASSUME NEW i \in at.pos .. last - 1
      PROVE  place(rest[i].id) = i
  <2>1. i \in at.pos .. Len(rest) /\ rest[i].id = rest[i].id
    BY <1>2
  <2>2. \A j \in at.pos .. Len(rest) : rest[j].id = rest[i].id => j = i
    <3>1. ASSUME NEW j \in at.pos .. Len(rest), rest[j].id = rest[i].id
          PROVE  j = i
      <4>1. /\ At(book, at.side, at.price, j + 1).id
                 = At(book, at.side, at.price, i + 1).id
            /\ i + 1 \in 1 .. last /\ j + 1 \in 1 .. last
        BY <1>1, <1>2, <3>1
      <4>2. /\ book.index[At(book, at.side, at.price, i + 1).id]
                  = <<at.price, i + 1>>
            /\ book.index[At(book, at.side, at.price, j + 1).id]
                  = <<at.price, j + 1>>
        BY <1>3, <4>1 DEF WellIndexed
      <4>3. i + 1 = j + 1
        BY <4>1, <4>2
      <4>4. QED
        BY <1>1, <4>3
    <3>2. QED
      BY <3>1
  <2>3. QED
    BY <2>1, <2>2
<1>8. moved \subseteq DOMAIN book.index
  <2>1. ASSUME NEW i \in at.pos .. Len(rest)
        PROVE  rest[i].id \in DOMAIN book.index
    <3>1. i + 1 \in 1 .. last /\ rest[i] = At(book, at.side, at.price, i + 1)
      BY <1>1, <1>2
    <3>2. QED
      BY <1>3, <3>1 DEF WellIndexed
  <2>2. QED
    BY <2>1
<1>9. \A k : k \in moved <=> \E i \in at.pos .. last - 1 :
                                At(book, at.side, at.price, i + 1).id = k
  BY <1>2
<1> HIDE DEF place, moved
<1>10. /\ DOMAIN index = DOMAIN book.index
       /\ \A k \in DOMAIN book.index : index[k] =
             IF k \in moved THEN <<at.price, place(k)>> ELSE book.index[k]
  BY <1>5, <1>8
<1>11. /\ DOMAIN new.index = DOMAIN book.index \ {id}
       /\ \A k \in DOMAIN book.index \ {id} : new.index[k] = index[k]
  BY <1>6, <1>10 DEF Drop, Restrict
<1>12. ASSUME NEW k \in DOMAIN new.index
       PROVE  /\ \A i \in at.pos .. last - 1 :
                   At(book, at.side, at.price, i + 1).id = k =>
                       new.index[k] = <<at.price, i>>
              /\ (\A i \in at.pos .. last - 1 :
                    At(book, at.side, at.price, i + 1).id # k) =>
                       new.index[k] = book.index[k]
  <2>1. new.index[k] =
          IF k \in moved THEN <<at.price, place(k)>> ELSE book.index[k]
    BY <1>10, <1>11
  <2>2. \A i \in at.pos .. last - 1 :
          At(book, at.side, at.price, i + 1).id = k => place(k) = i
    BY <1>2, <1>7
  <2>3. QED
    BY <1>9, <2>1, <2>2
<1>13. QED
  BY <1>11, <1>12 DEF new, last, level

(* Every order of `new` is one of `book`, at another place than `at`. *)
FromTheRest(new, book, at) ==
    \A side \in Sides : \A p, i : In(new, side, p, i) =>
        \E j : /\ In(book, side, p, j)
               /\ ~ (side = at.side /\ p = at.price /\ j = at.pos)
               /\ At(new, side, p, i) = At(book, side, p, j)

(* The order at `at` is erased under its own id: the index and the levels
   still agree, and every order left was in the book, at another place. *)
LEMMA EraseWellIndexed ==
    ASSUME NEW P, NEW I, NEW O, NEW book, IsBook(book, P, I, O),
           \A o \in O : o.id \in Nat, WellIndexed(book),
           NEW at, at.side \in Sides, InBounds(book, at),
           NEW id, id = OrderAt(book, at).id
    PROVE  /\ WellIndexed(Erase(book, id, at))
           /\ FromTheRest(Erase(book, id, at), book, at)
<1> DEFINE new == Erase(book, id, at)
           last == Len(book.levels[at.side][at.price])
<1>s. "BUY" \in Sides /\ "SELL" \in Sides /\ Sides = {"BUY", "SELL"}
  BY DEF Sides
<1>1. /\ at.pos \in 1 .. last /\ last \in Nat
      /\ \A i \in 1 .. last : In(book, at.side, at.price, i)
      /\ id = At(book, at.side, at.price, at.pos).id
      /\ \A i : In(book, at.side, at.price, i) => i \in 1 .. last
  BY LevelInBook, LenProperties DEF InBounds, In, At, OrderAt
<1>2. /\ \A side \in Sides : \A p, i :
            In(new, side, p, i) <=>
                IF side = at.side /\ p = at.price THEN i \in 1 .. last - 1
                ELSE In(book, side, p, i)
      /\ \A side \in Sides : \A p, i : In(new, side, p, i) =>
            /\ In(book, side, p, Before(at, side, p, i))
            /\ At(new, side, p, i) = At(book, side, p, Before(at, side, p, i))
      /\ NoEmptyLevel(new)
  BY ErasePlaces DEF WellIndexed
<1>3. /\ DOMAIN new.index = DOMAIN book.index \ {id}
      /\ \A k \in DOMAIN new.index :
            /\ \A i \in at.pos .. last - 1 :
                 At(book, at.side, at.price, i + 1).id = k =>
                     new.index[k] = <<at.price, i>>
            /\ (\A i \in at.pos .. last - 1 :
                  At(book, at.side, at.price, i + 1).id # k) =>
                     new.index[k] = book.index[k]
  BY EraseIndex
<1>4. \A side \in Sides : \A p, i : In(book, side, p, i) =>
        /\ i \in Nat \ {0}
        /\ At(book, side, p, i).id \in DOMAIN book.index
        /\ book.index[At(book, side, p, i).id] = <<p, i>>
  BY OrderThere DEF WellIndexed
<1>5. \A s, r \in Sides : \A p, i :
        /\ In(book, s, p, i) /\ In(book, r, p, i)
        /\ At(book, s, p, i).id = At(book, r, p, i).id
        => s = r
  BY <1>s DEF WellIndexed
<1> HIDE DEF new, last
(* No two places hold the same id. *)
<1>6. \A s, r \in Sides : \A p, q, i, j :
        /\ In(book, s, p, i) /\ In(book, r, q, j)
        /\ At(book, s, p, i).id = At(book, r, q, j).id
        => s = r /\ p = q /\ i = j
  <2>1. ASSUME NEW s \in Sides, NEW r \in Sides, NEW p, NEW q, NEW i, NEW j,
               In(book, s, p, i), In(book, r, q, j),
               At(book, s, p, i).id = At(book, r, q, j).id
        PROVE  s = r /\ p = q /\ i = j
    <3>1. <<p, i>> = <<q, j>>
      BY <1>4, <2>1
    <3>2. QED
      BY <1>5, <2>1, <3>1
  <2>2. QED
    BY <2>1
<1>7. \A side \in Sides : \A p, i : In(new, side, p, i) =>
        /\ i \in Nat \ {0}
        /\ In(book, side, p, Before(at, side, p, i))
        /\ At(new, side, p, i) = At(book, side, p, Before(at, side, p, i))
        /\ ~ (side = at.side /\ p = at.price /\ Before(at, side, p, i) = at.pos)
  BY <1>1, <1>2, <1>4 DEF Before
<1>8. ASSUME NEW side \in Sides, NEW p, NEW i, In(new, side, p, i)
      PROVE  /\ At(new, side, p, i).id \in DOMAIN new.index
             /\ new.index[At(new, side, p, i).id] = <<p, i>>
  <2> DEFINE j == Before(at, side, p, i)
             k == At(book, side, p, j).id
  <2>1. /\ In(book, side, p, j) /\ At(new, side, p, i) = At(book, side, p, j)
        /\ ~ (side = at.side /\ p = at.price /\ j = at.pos)
    BY <1>7, <1>8
  <2>2. k \in DOMAIN new.index
    BY <1>1, <1>3, <1>4, <1>6, <2>1
  <2>3. CASE side = at.side /\ p = at.price /\ i >= at.pos
    <3>1. i \in at.pos .. last - 1 /\ j = i + 1
      BY <1>1, <1>2, <1>8, <2>3 DEF Before
    <3>2. QED
      BY <1>3, <2>1, <2>2, <2>3, <3>1
  <2>4. CASE ~ (side = at.side /\ p = at.price /\ i >= at.pos)
    <3>1. j = i
      BY <2>4 DEF Before
    <3>2. ASSUME NEW n \in at.pos .. last - 1
          PROVE  At(book, at.side, at.price, n + 1).id # k
      <4>1. n + 1 \in 1 .. last /\ n + 1 > at.pos
        BY <1>1
      <4>2. In(book, at.side, at.price, n + 1)
        BY <1>1, <4>1
      <4>3. SUFFICES ASSUME At(book, at.side, at.price, n + 1).id = k
                     PROVE  FALSE
        OBVIOUS
      <4>4. side = at.side /\ p = at.price /\ i = n + 1
        BY <1>6, <2>1, <3>1, <4>2, <4>3
      <4>5. QED
        BY <1>1, <2>4, <4>1, <4>4
    <3>3. QED
      BY <1>3, <1>4, <2>1, <2>2, <3>1, <3>2
  <2>5. QED
    BY <2>3, <2>4
<1>9. \A side \in Sides : \A p, i, j :
        In(new, side, p, i) /\ In(new, side, p, j) /\ i < j =>
            At(new, side, p, i).id < At(new, side, p, j).id
  <2>1. ASSUME NEW side \in Sides, NEW p, NEW i, NEW j,
               In(new, side, p, i), In(new, side, p, j), i < j
        PROVE  Before(at, side, p, i) < Before(at, side, p, j)
    BY <1>1, <1>7, <2>1 DEF Before
  <2>2. QED
    BY <1>7, <2>1 DEF WellIndexed
<1>10. ASSUME NEW k \in DOMAIN new.index
       PROVE  \E side \in Sides : \E p, i :
                /\ new.index[k] = <<p, i>>
                /\ In(new, side, p, i) /\ At(new, side, p, i).id = k
  <2>1. PICK side \in Sides : \E p, i :
            In(book, side, p, i) /\ At(book, side, p, i).id = k
    BY <1>3 DEF WellIndexed
  <2>2. PICK p, i : In(book, side, p, i) /\ At(book, side, p, i).id = k
    BY <2>1
  <2>3. ~ (side = at.side /\ p = at.price /\ i = at.pos)
    BY <1>1, <1>3, <2>2
  <2>4. PICK n : In(new, side, p, n) /\ Before(at, side, p, n) = i
    <3>1. CASE side = at.side /\ p = at.price
      <4>1. i \in 1 .. last /\ i # at.pos
        BY <1>1, <2>2, <2>3, <3>1
      <4>2. CASE i < at.pos
        <5>1. In(new, side, p, i) /\ Before(at, side, p, i) = i
          BY <1>1, <1>2, <3>1, <4>1, <4>2 DEF Before
        <5>2. QED
          BY <5>1
      <4>3. CASE i > at.pos
        <5>1. In(new, side, p, i - 1) /\ Before(at, side, p, i - 1) = i
          BY <1>1, <1>2, <3>1, <4>1, <4>3 DEF Before
        <5>2. QED
          BY <5>1
      <4>4. QED
        BY <1>1, <4>1, <4>2, <4>3
    <3>2. CASE ~ (side = at.side /\ p = at.price)
      BY <1>2, <2>2, <3>2 DEF Before
    <3>3. QED
      BY <3>1, <3>2
  <2>5. At(new, side, p, n).id = k /\ new.index[k] = <<p, n>>
    BY <1>7, <1>8, <2>2, <2>4
  <2>6. QED
    BY <2>4, <2>5
<1>11. ASSUME NEW p, NEW i, In(new, "BUY", p, i), In(new, "SELL", p, i)
       PROVE  At(new, "BUY", p, i).id # At(new, "SELL", p, i).id
  BY <1>6, <1>7, <1>11, <1>s
<1>12. WellIndexed(new)
  BY <1>2, <1>8, <1>9, <1>10, <1>11 DEF WellIndexed
<1>13. FromTheRest(new, book, at)
  BY <1>7 DEF FromTheRest
<1>14. QED
  BY <1>12, <1>13 DEF new

----------------------------------------------------------------------------
(* An order is added: it is the last of its level. *)

LEMMA AddOrderPlaces ==
    ASSUME NEW P, NEW I, NEW O, NEW book, IsBook(book, P, I, O),
           NEW o \in O, o.side \in Sides
    PROVE  LET new == AddOrder(book, o)
               last == Len(Level(book, o.side, o.price)) + 1
               added(side, p, i) == side = o.side /\ p = o.price /\ i = last IN
           /\ last \in Nat \ {0} /\ ~ In(book, o.side, o.price, last)
           /\ \A i : In(book, o.side, o.price, i) => i < last
           /\ \A side \in Sides : \A p, i :
                In(new, side, p, i) <=>
                    In(book, side, p, i) \/ added(side, p, i)
           /\ \A side \in Sides : \A p, i : In(new, side, p, i) =>
                At(new, side, p, i) =
                    IF added(side, p, i) THEN o ELSE At(book, side, p, i)
           /\ NoEmptyLevel(book) => NoEmptyLevel(new)
           /\ new.index = Put(book.index, o.id, <<o.price, last>>)
<1> DEFINE new == AddOrder(book, o)
           old == Level(book, o.side, o.price)
           level == Append(old, o)
           last == Len(old) + 1
           map == book.levels[o.side]
           levels == Put(map, o.price, level)
<1>1. /\ old \in Seq(O) /\ Len(old) \in Nat
      /\ level \in Seq(O) /\ Len(level) = last
      /\ \A i \in 1 .. last : level[i] = IF i = last THEN o ELSE old[i]
  <2>1. old \in Seq(O)
    BY LevelIsSequence
  <2> HIDE DEF old
  <2>2. QED
    BY <2>1, AppendProperties, LenProperties
<1>2. /\ new.levels = [book.levels EXCEPT ![o.side] = levels]
      /\ new.index = Put(book.index, o.id, <<o.price, Len(level)>>)
  BY DEF AddOrder
<1>3. /\ \A i : In(book, o.side, o.price, i) <=> i \in 1 .. Len(old)
      /\ \A i \in 1 .. Len(old) : old[i] = At(book, o.side, o.price, i)
  BY <1>1, EmptySeq DEF In, At, Level
<1>4. level # << >>
  <2>1. \A s \in Seq(O) : Len(s) # 0 => s # << >>
    OBVIOUS
  <2> HIDE DEF level, old
  <2>2. QED
    BY <1>1, <2>1
<1> HIDE DEF new, level, old
<1>5. /\ DOMAIN levels = DOMAIN map \cup {o.price}
      /\ \A p \in DOMAIN levels :
            levels[p] = IF p = o.price THEN level ELSE map[p]
  BY DEF Put
<1> HIDE DEF levels, map
<1>6. /\ new.levels[o.side] = levels
      /\ \A side \in Sides : side # o.side =>
            new.levels[side] = book.levels[side]
  <2>1. book.levels = [side \in Sides |-> book.levels[side]]
    BY DEF IsBook
  <2>2. QED
    BY <1>2, <2>1
<1>7. \A side \in Sides : \A p, i :
        /\ In(new, side, p, i) <=>
              \/ In(book, side, p, i)
              \/ side = o.side /\ p = o.price /\ i = last
        /\ In(new, side, p, i) => At(new, side, p, i) =
              IF side = o.side /\ p = o.price /\ i = last
              THEN o ELSE At(book, side, p, i)
  <2>1. ASSUME NEW side \in Sides, NEW p, NEW i
        PROVE  /\ In(new, side, p, i) <=>
                     \/ In(book, side, p, i)
                     \/ side = o.side /\ p = o.price /\ i = last
               /\ In(new, side, p, i) => At(new, side, p, i) =
                     IF side = o.side /\ p = o.price /\ i = last
                     THEN o ELSE At(book, side, p, i)
    <3>1. CASE side = o.side /\ p = o.price
      <4>1. /\ p \in DOMAIN new.levels[side]
            /\ new.levels[side][p] = level
        BY <1>5, <1>6, <3>1
      <4>2. In(new, side, p, i) <=> i \in 1 .. last
        BY <1>1, <4>1 DEF In
      <4>3. i \in 1 .. last <=> i \in 1 .. Len(old) \/ i = last
        BY <1>1
      <4>4. At(new, side, p, i) = level[i]
        BY <4>1 DEF At
      <4>5. QED
        BY <1>1, <1>3, <3>1, <4>2, <4>3, <4>4
    <3>2. CASE ~ (side = o.side /\ p = o.price)
      BY <1>5, <1>6, <3>2 DEF In, At, map
    <3>3. QED
      BY <3>1, <3>2
  <2>2. QED
    BY <2>1
<1>8. NoEmptyLevel(book) => NoEmptyLevel(new)
  <2>1. ASSUME NoEmptyLevel(book)
        PROVE  \A p \in DOMAIN levels : levels[p] # << >>
    BY <1>4, <1>5, <2>1 DEF NoEmptyLevel, map
  <2>2. QED
    BY <1>6, <2>1 DEF NoEmptyLevel
<1>9. /\ last \in Nat \ {0} /\ ~ In(book, o.side, o.price, last)
      /\ \A i : In(book, o.side, o.price, i) => i < last
  BY <1>1, <1>3
<1>10. new.index = Put(book.index, o.id, <<o.price, last>>)
  BY <1>1, <1>2
<1>11. QED
  BY <1>7, <1>8, <1>9, <1>10 DEF new, old

(* An order that came after all of the book is added. *)
LEMMA AddOrderWellIndexed ==
    ASSUME NEW P, NEW I, NEW O, NEW book, IsBook(book, P, I, O),
           \A x \in O : x.id \in Nat, WellIndexed(book),
           NEW o \in O, o.side \in Sides, Below(book, o.id)
    PROVE  /\ WellIndexed(AddOrder(book, o))
           /\ \A side \in Sides : \A p, i : In(AddOrder(book, o), side, p, i) =>
                \/ /\ In(book, side, p, i)
                   /\ At(AddOrder(book, o), side, p, i) = At(book, side, p, i)
                \/ /\ side = o.side /\ p = o.price
                   /\ At(AddOrder(book, o), side, p, i) = o
<1> DEFINE new == AddOrder(book, o)
           last == Len(Level(book, o.side, o.price)) + 1
           added(side, p, i) == side = o.side /\ p = o.price /\ i = last
<1>s. Sides = {"BUY", "SELL"}
  BY DEF Sides
<1>1. /\ last \in Nat \ {0} /\ ~ In(book, o.side, o.price, last)
      /\ \A i : In(book, o.side, o.price, i) => i < last
      /\ \A side \in Sides : \A p, i :
            In(new, side, p, i) <=> In(book, side, p, i) \/ added(side, p, i)
      /\ \A side \in Sides : \A p, i : In(new, side, p, i) =>
            At(new, side, p, i) =
                IF added(side, p, i) THEN o ELSE At(book, side, p, i)
      /\ NoEmptyLevel(book) => NoEmptyLevel(new)
      /\ new.index = Put(book.index, o.id, <<o.price, last>>)
  BY AddOrderPlaces
<1> HIDE DEF new, last
<1>2. /\ DOMAIN new.index = DOMAIN book.index \cup {o.id}
      /\ \A k \in DOMAIN new.index : new.index[k] =
            IF k = o.id THEN <<o.price, last>> ELSE book.index[k]
  BY <1>1 DEF Put
<1>3. \A side \in Sides : \A p, i : In(book, side, p, i) =>
        /\ At(book, side, p, i).id # o.id /\ At(book, side, p, i).id < o.id
        /\ At(book, side, p, i).id \in DOMAIN book.index
        /\ book.index[At(book, side, p, i).id] = <<p, i>>
        /\ ~ added(side, p, i)
  <2>1. ASSUME NEW side \in Sides, NEW p, NEW i, In(book, side, p, i)
        PROVE  At(book, side, p, i).id \in Nat /\ At(book, side, p, i).id < o.id
    BY <2>1, OrderThere DEF Below
  <2>2. o.id \in Nat
    OBVIOUS
  <2>3. QED
    BY <1>1, <2>1, <2>2 DEF WellIndexed
<1>4. \A side \in Sides : \A p, i : In(new, side, p, i) =>
        /\ At(new, side, p, i).id \in DOMAIN new.index
        /\ new.index[At(new, side, p, i).id] = <<p, i>>
  BY <1>1, <1>2, <1>3
<1>5. \A side \in Sides : \A p, i, j :
        In(new, side, p, i) /\ In(new, side, p, j) /\ i < j =>
            At(new, side, p, i).id < At(new, side, p, j).id
  <2>1. ASSUME NEW side \in Sides, NEW p, NEW i, NEW j,
               In(new, side, p, i), In(new, side, p, j), i < j
        PROVE  At(new, side, p, i).id < At(new, side, p, j).id
    <3>1. ~ added(side, p, i)
      <4>1. SUFFICES ASSUME added(side, p, i) PROVE FALSE
        OBVIOUS
      <4>2. j < last \/ j = last
        BY <1>1, <2>1, <4>1
      <4>3. j \in Nat
        BY <1>1, <2>1, OrderThere
      <4>4. QED
        BY <1>1, <2>1, <4>1, <4>2, <4>3
    <3>2. QED
      BY <1>1, <1>3, <2>1, <3>1 DEF WellIndexed
  <2>2. QED
    BY <2>1
<1>6. ASSUME NEW k \in DOMAIN new.index
      PROVE  \E side \in Sides : \E p, i :
                /\ new.index[k] = <<p, i>>
                /\ In(new, side, p, i) /\ At(new, side, p, i).id = k
  <2>1. CASE k = o.id
    <3>1. /\ In(new, o.side, o.price, last)
          /\ At(new, o.side, o.price, last) = o
          /\ new.index[k] = <<o.price, last>>
      BY <1>1, <1>2, <2>1
    <3>2. QED
      BY <2>1, <3>1
  <2>2. CASE k # o.id
    <3>1. k \in DOMAIN book.index /\ new.index[k] = book.index[k]
      BY <1>2, <2>2
    <3>2. PICK side \in Sides : \E p, i :
              /\ book.index[k] = <<p, i>>
              /\ In(book, side, p, i) /\ At(book, side, p, i).id = k
      BY <3>1 DEF WellIndexed
    <3>3. PICK p, i :
              /\ book.index[k] = <<p, i>>
              /\ In(book, side, p, i) /\ At(book, side, p, i).id = k
      BY <3>2
    <3>4. In(new, side, p, i) /\ At(new, side, p, i).id = k
      BY <1>1, <1>3, <3>3
    <3>5. QED
      BY <3>1, <3>3, <3>4
  <2>3. QED
    BY <2>1, <2>2
<1>7. ASSUME NEW p, NEW i, In(new, "BUY", p, i), In(new, "SELL", p, i)
      PROVE  At(new, "BUY", p, i).id # At(new, "SELL", p, i).id
  <2>1. \A side \in Sides : added(side, p, i) => side = o.side
    OBVIOUS
  <2>2. CASE In(book, "BUY", p, i) /\ In(book, "SELL", p, i)
    BY <1>1, <1>3, <2>2, <1>s DEF WellIndexed
  <2>3. CASE ~ (In(book, "BUY", p, i) /\ In(book, "SELL", p, i))
    BY <1>1, <1>3, <1>7, <2>3, <1>s
  <2>4. QED
    BY <2>2, <2>3
<1>8. WellIndexed(new)
  BY <1>1, <1>4, <1>5, <1>6, <1>7 DEF WellIndexed
<1>9. QED
  BY <1>1, <1>8 DEF new

----------------------------------------------------------------------------
(* The engine. *)

(* Without the fairness that safety does not need. *)
LEMMA SerialStep == SerialNext => Next
BY DEF SerialNext, Next, SerialSubmit, Submit

----------------------------------------------------------------------------
(* Types of what the loop computes. *)

LEMMA OrderFields ==
    ASSUME NEW o \in OrderValues
    PROVE  /\ o.id \in OrderIds /\ o.symbol \in Symbols /\ o.side \in Sides
           /\ o.type \in Types /\ o.price \in Prices \cup {0}
           /\ o.quantity \in Quantities /\ o.filledQuantity \in Int
           /\ o.status \in Statuses
           /\ o.price \in Int /\ o.quantity \in Int
           /\ o.id \in Nat
           /\ o.type = "LIMIT" => o.price \in Prices
<1>1. /\ o \in [id : OrderIds, symbol : Symbols, side : Sides, type : Types,
               price : Prices \cup {0}, quantity : Quantities,
               filledQuantity : Int, status : Statuses]
      /\ o.type = "LIMIT" => o.price \in Prices
  BY DEF OrderValues
<1>2. /\ \A p \in Prices \cup {0} : p \in Int
      /\ \A q \in Quantities : q \in Int
      /\ \A id \in OrderIds : id \in Nat
  BY ConstantsAssumption DEF OrderIds
<1>3. QED
  BY <1>1, <1>2

LEMMA FillType ==
    ASSUME NEW o \in OrderValues, NEW q \in Int
    PROVE  /\ Fill(o, q) \in OrderValues
           /\ Fill(o, q).id = o.id
           /\ Fill(o, q).side = o.side
<1> DEFINE filled == o.filledQuantity + q
           status == IF filled >= o.quantity THEN "FILLED"
                     ELSE "PARTIALLY_FILLED"
<1>1. /\ o \in [id : OrderIds, symbol : Symbols, side : Sides, type : Types,
               price : Prices \cup {0}, quantity : Quantities,
               filledQuantity : Int, status : Statuses]
      /\ o.type = "LIMIT" => o.price \in Prices
  BY DEF OrderValues
<1>2. filled \in Int /\ status \in Statuses
  BY <1>1 DEF Statuses
<1>3. Fill(o, q) = [o EXCEPT !.filledQuantity = filled, !.status = status]
  BY DEF Fill
<1> HIDE DEF filled, status
<1>4. QED
  BY <1>1, <1>2, <1>3 DEF OrderValues

LEMMA CopiesOfBook ==
    ASSUME NEW book, IsBook(book, Prices, OrderIds, OrderValues),
           NEW side \in Sides
    PROVE  GetOrders(book, side) \subseteq Copies
<1> SUFFICES ASSUME NEW p \in DOMAIN book.levels[side],
                    NEW i \in 1 .. Len(book.levels[side][p])
             PROVE  [pos |-> i, order |-> book.levels[side][p][i]] \in Copies
  BY DEF GetOrders
<1>1. book.levels[side][p] \in Seq(OrderValues)
  BY LevelInBook
<1>2. QED
  BY <1>1, LenProperties, ElementOfSeq DEF Copies

LEMMA FillRestingIsBook ==
    ASSUME NEW book, IsBook(book, Prices, OrderIds, OrderValues),
           NEW at, at.side \in Sides, InBounds(book, at),
           NEW id, NEW o \in OrderValues
    PROVE  IsBook(FillResting(book, at, id, o), Prices, OrderIds, OrderValues)
<1>1. IsBook(WriteThrough(book, at, o), Prices, OrderIds, OrderValues)
  BY WriteThroughIsBook
<1>2. \A x \in OrderValues : x.id \in OrderIds
  BY OrderFields
<1>3. IsBook(RemoveOrder(WriteThrough(book, at, o), id),
             Prices, OrderIds, OrderValues)
  BY <1>1, <1>2, RemoveOrderIsBook
<1>4. QED
  BY <1>1, <1>3 DEF FillResting

LEMMA NotNone ==
    /\ \A a \in Addresses : a # None
    /\ \A o \in OrderValues : o # None
BY DEF Addresses, OrderValues, None

LEMMA TradeType ==
    ASSUME NEW o \in OrderValues, NEW resting \in OrderValues,
           NEW c \in Copies, NEW tradeId \in Nat, NEW q \in Int
    PROVE  CreateTrade(tradeId, o, resting, MatchPrice(o, c), q) \in Trades
<1>1. c.order \in OrderValues
  BY DEF Copies
<1>2. MatchPrice(o, c) \in Prices \cup {0}
  BY <1>1, OrderFields DEF MatchPrice, Lesser
<1>3. QED
  BY <1>2, OrderFields DEF CreateTrade, Trades

LEMMA NewOrderType ==
    ASSUME NEW id \in OrderIds, NEW o \in NewOrders(id)
    PROVE  o \in OrderValues /\ o.id = id /\ o.symbol \in Symbols
           /\ o.side \in Sides
BY DEF NewOrders, OrderValues, Statuses, Types

----------------------------------------------------------------------------
(* Type correctness. *)

LEMMA InitTypeOK == Init => TypeOK
<1> SUFFICES ASSUME Init PROVE TypeOK
  OBVIOUS
<1>1. IsBook(EmptyBook, Prices, OrderIds, OrderValues)
  BY DEF IsBook, IsMap, EmptyBook, EmptyMap
<1>2. /\ << >> \in Seq(OrderValues) /\ << >> \in Seq(Int) /\ << >> \in Seq(Trades)
      /\ Len(<< >>) = 0
  OBVIOUS
<1>3. QED
  BY <1>1, <1>2, ConstantsAssumption DEF Init, TypeOK

LEMMA SubmitTypeOK ==
    ASSUME TypeOK, NEW t \in Threads, Submit(t)
    PROVE  TypeOK'
<1>1. PICK o \in NewOrders(Len(submitted) + 1) : SubmitOrder(t, o)
  BY DEF Submit
<1>2. Len(submitted) \in Nat /\ Len(submitted) + 1 \in OrderIds
  BY LenProperties, ConstantsAssumption DEF TypeOK, Submit, OrderIds
<1>3. o \in OrderValues /\ o.symbol \in Symbols /\ o.side \in Sides
  BY <1>2, NewOrderType
<1>4. GetOrders(books[o.symbol], Opposite(o.side)) \subseteq Copies
  BY <1>3, CopiesOfBook DEF TypeOK, Opposite, Sides
<1>5. candidates' \in [Threads -> SUBSET Copies]
  BY <1>1, <1>4 DEF SubmitOrder, TypeOK
<1>6. order' \in [Threads -> OrderValues \cup {None}]
  BY <1>1, <1>3 DEF SubmitOrder, TypeOK
<1>7. pc' \in [Threads -> {"idle", "match", "trade", "notify"}]
  BY <1>1 DEF SubmitOrder, TypeOK
<1>8. /\ submitted' \in Seq(OrderValues) /\ Len(submitted') <= MaxOrders
      /\ traded' \in Seq(Int) /\ Len(traded') = Len(submitted')
  BY <1>1, <1>2, <1>3, AppendProperties, ConstantsAssumption
  DEF SubmitOrder, TypeOK, OrderIds
<1>9. o # None
  BY <1>3, NotNone
<1>10. \A u \in Threads : /\ pc'[u] # "idle" => order'[u] # None
                          /\ pc'[u] = "trade" => pointer'[u] # None
  BY <1>1, <1>9 DEF SubmitOrder, TypeOK
<1>11. QED
  BY <1>1, <1>5, <1>6, <1>7, <1>8, <1>10 DEF SubmitOrder, TypeOK, shared

LEMMA ConsiderNextTypeOK ==
    ASSUME TypeOK, NEW t \in Threads, ConsiderNext(t)
    PROVE  TypeOK'
<1>1. PICK c \in candidates[t] :
        LET book == books[order[t].symbol]
        IN  IF HasOrder(book, c.order.id) /\ Available(c) > 0
            THEN /\ pc' = [pc EXCEPT ![t] = "trade"]
                 /\ pointer' = [pointer EXCEPT ![t] = GetOrder(book, c.order.id)]
                 /\ loadedId' = [loadedId EXCEPT ![t] = tradeIdCounter]
                 /\ UNCHANGED candidates
            ELSE /\ candidates' = [candidates EXCEPT ![t] = @ \ {c}]
                 /\ UNCHANGED <<pc, pointer, loadedId>>
  BY DEF ConsiderNext
<1>2. order[t] \in OrderValues
  BY DEF ConsiderNext, TypeOK
<1> DEFINE book == books[order[t].symbol]
<1>3. IsBook(book, Prices, OrderIds, OrderValues)
  BY <1>2, OrderFields DEF TypeOK
<1>4. CASE HasOrder(book, c.order.id) /\ Available(c) > 0
  <2>1. GetOrder(book, c.order.id) \in Addresses
    BY <1>3, <1>4, GetOrderAddress DEF Addresses
  <2>2. GetOrder(book, c.order.id) # None
    BY <2>1, NotNone
  <2>3. /\ pointer' \in [Threads -> Addresses \cup {None}]
        /\ pc' \in [Threads -> {"idle", "match", "trade", "notify"}]
        /\ loadedId' \in [Threads -> Nat]
    BY <1>1, <1>4, <2>1 DEF TypeOK
  <2>4. \A u \in Threads : /\ pc'[u] # "idle" => order'[u] # None
                           /\ pc'[u] = "trade" => pointer'[u] # None
    <3>1. /\ pc' = [pc EXCEPT ![t] = "trade"]
          /\ pointer' = [pointer EXCEPT ![t] = GetOrder(book, c.order.id)]
          /\ order' = order /\ pc[t] = "match"
      BY <1>1, <1>4 DEF ConsiderNext
    <3> HIDE DEF book
    <3>2. QED
      BY <2>2, <3>1 DEF TypeOK
  <2>5. QED
    BY <1>1, <1>4, <2>3, <2>4 DEF ConsiderNext, TypeOK, shared, history
<1>5. CASE ~ (HasOrder(book, c.order.id) /\ Available(c) > 0)
  <2>1. candidates' \in [Threads -> SUBSET Copies]
    BY <1>1, <1>5 DEF TypeOK
  <2>2. QED
    BY <1>1, <1>5, <2>1 DEF ConsiderNext, TypeOK, shared, history
<1>6. QED
  BY <1>4, <1>5

LEMMA ExecuteTradeTypeOK ==
    ASSUME TypeOK, NEW t \in Threads, ExecuteTrade(t)
    PROVE  TypeOK'
<1> DEFINE o == order[t]
           book == books[o.symbol]
           resting == OrderAt(book, pointer[t])
           quantity(c) == Lesser(Remaining(o), Available(c))
           trade(c) == CreateTrade(loadedId[t], o, resting, MatchPrice(o, c),
                                   quantity(c))
<1>1. PICK c \in candidates[t] :
        /\ trades' = [trades EXCEPT ![t] = Append(@, trade(c))]
        /\ tape' = Append(tape, trade(c))
        /\ order' = [order EXCEPT ![t] = Fill(o, quantity(c))]
        /\ books' = [books EXCEPT ![o.symbol] =
              FillResting(book, pointer[t], c.order.id, Fill(resting, quantity(c)))]
        /\ traded' = [id \in DOMAIN traded |->
              IF id \in {o.id, resting.id} THEN traded[id] + quantity(c)
              ELSE traded[id]]
        /\ candidates' = [candidates EXCEPT ![t] = @ \ {c}]
  BY DEF ExecuteTrade
<1>2. /\ o \in OrderValues /\ pointer[t] \in Addresses /\ c \in Copies
      /\ InBounds(book, pointer[t]) /\ pointer[t].side \in Sides
      /\ IsBook(book, Prices, OrderIds, OrderValues)
      /\ loadedId[t] \in Nat
  BY OrderFields DEF ExecuteTrade, TypeOK, Addresses
<1>3. resting \in OrderValues /\ c.order \in OrderValues
  BY <1>2, OrderInBook DEF Copies
<1>4. quantity(c) \in Int
  BY <1>2, <1>3, OrderFields DEF Lesser, Remaining, Available
<1>5. trade(c) \in Trades
  BY <1>2, <1>3, <1>4, TradeType
<1>6. Fill(o, quantity(c)) \in OrderValues /\ Fill(resting, quantity(c)) \in OrderValues
  BY <1>2, <1>3, <1>4, FillType
<1> HIDE DEF quantity, trade, resting
<1>7. IsBook(FillResting(book, pointer[t], c.order.id, Fill(resting, quantity(c))),
             Prices, OrderIds, OrderValues)
  BY <1>2, <1>6, FillRestingIsBook
<1>8. /\ books' = [s \in Symbols |-> books'[s]]
      /\ \A s \in Symbols : IsBook(books'[s], Prices, OrderIds, OrderValues)
  BY <1>1, <1>7 DEF TypeOK
<1>9. /\ traded' \in Seq(Int) /\ Len(traded') = Len(traded)
  <2>1. /\ traded \in Seq(Int) /\ Len(traded) \in Nat
        /\ DOMAIN traded = 1 .. Len(traded)
        /\ \A k \in 1 .. Len(traded) : traded[k] \in Int
    BY LenProperties, ElementOfSeq DEF TypeOK
  <2>2. traded' \in [1 .. Len(traded) -> Int]
    BY <1>1, <1>4, <2>1
  <2>3. QED
    BY <2>1, <2>2
<1>10. /\ order' \in [Threads -> OrderValues \cup {None}]
       /\ candidates' \in [Threads -> SUBSET Copies]
       /\ trades' \in [Threads -> Seq(Trades)]
       /\ tape' \in Seq(Trades)
  BY <1>1, <1>5, <1>6, AppendProperties DEF TypeOK
<1>11. /\ pc' \in [Threads -> {"idle", "match", "trade", "notify"}]
       /\ pointer' \in [Threads -> Addresses \cup {None}]
       /\ loadedId' \in [Threads -> Nat]
       /\ tradeIdCounter' \in Nat
  BY <1>2 DEF ExecuteTrade, TypeOK, NextTradeId
<1>12. Fill(o, quantity(c)) # None
  BY <1>6, NotNone
<1>13. \A u \in Threads : /\ pc'[u] # "idle" => order'[u] # None
                          /\ pc'[u] = "trade" => pointer'[u] # None
  BY <1>1, <1>12 DEF ExecuteTrade, TypeOK
<1>14. QED
  BY <1>8, <1>9, <1>10, <1>11, <1>13 DEF ExecuteTrade, TypeOK

LEMMA FinishMatchingTypeOK ==
    ASSUME TypeOK, NEW t \in Threads, FinishMatching(t)
    PROVE  TypeOK'
<1> DEFINE o == order[t]
           resting == [o EXCEPT !.status = "PENDING"]
<1>1. o \in OrderValues /\ o \in [id : OrderIds, symbol : Symbols, side : Sides,
        type : Types, price : Prices \cup {0}, quantity : Quantities,
        filledQuantity : Int, status : Statuses]
  BY DEF FinishMatching, TypeOK, OrderValues
<1>2. /\ candidates' \in [Threads -> SUBSET Copies]
      /\ pc' \in [Threads -> {"idle", "match", "trade", "notify"}]
  BY DEF FinishMatching, TypeOK
<1>3. CASE Rests(o)
  <2>1. resting \in OrderValues
    BY <1>1 DEF OrderValues, Statuses
  <2>2. /\ resting.side \in Sides /\ resting.price \in Prices
        /\ resting.id \in OrderIds /\ resting.symbol = o.symbol
        /\ o.symbol \in Symbols
    BY <1>1, <1>3, <2>1, OrderFields DEF Rests
  <2>3. /\ books' = [books EXCEPT ![o.symbol] = AddOrder(@, resting)]
        /\ order' = [order EXCEPT ![t] = resting]
    BY <1>3 DEF FinishMatching
  <2> HIDE DEF resting
  <2>4. IsBook(AddOrder(books[o.symbol], resting), Prices, OrderIds, OrderValues)
    BY <2>1, <2>2, AddOrderIsBook DEF TypeOK
  <2>5. /\ books' = [s \in Symbols |-> books'[s]]
        /\ \A s \in Symbols : IsBook(books'[s], Prices, OrderIds, OrderValues)
    BY <2>3, <2>4 DEF TypeOK
  <2>6. order' \in [Threads -> OrderValues \cup {None}]
    BY <2>1, <2>3 DEF TypeOK
  <2>7. \A u \in Threads : /\ pc'[u] # "idle" => order'[u] # None
                           /\ pc'[u] = "trade" => pointer'[u] # None
    BY <2>1, <2>3, NotNone DEF FinishMatching, TypeOK
  <2>8. QED
    BY <1>2, <2>5, <2>6, <2>7 DEF FinishMatching, TypeOK, history
<1>4. CASE ~ Rests(o)
  <2>1. UNCHANGED <<order, books>>
    BY <1>4 DEF FinishMatching
  <2>2. \A u \in Threads : /\ pc'[u] # "idle" => order'[u] # None
                           /\ pc'[u] = "trade" => pointer'[u] # None
    BY <2>1 DEF FinishMatching, TypeOK
  <2>3. QED
    BY <1>2, <2>1, <2>2 DEF FinishMatching, TypeOK, history
<1>5. QED
  BY <1>3, <1>4

LEMMA NotifyTradeTypeOK ==
    ASSUME TypeOK, NEW t \in Threads, NotifyTrade(t)
    PROVE  TypeOK'
<1>1. /\ trades[t] \in Seq(Trades) /\ trades[t] # << >>
  BY DEF NotifyTrade, TypeOK
<1>2. Head(trades[t]) \in Trades /\ Tail(trades[t]) \in Seq(Trades)
  BY <1>1, HeadTailProperties
<1>3. /\ announced' \in Seq(Trades)
      /\ trades' \in [Threads -> Seq(Trades)]
  BY <1>2, AppendProperties DEF NotifyTrade, TypeOK
<1>4. QED
  BY <1>3 DEF NotifyTrade, TypeOK, shared

LEMMA ReturnTypeOK ==
    ASSUME TypeOK, NEW t \in Threads, Return(t)
    PROVE  TypeOK'
<1>1. /\ pc' \in [Threads -> {"idle", "match", "trade", "notify"}]
      /\ order' \in [Threads -> OrderValues \cup {None}]
      /\ \A u \in Threads : /\ pc'[u] # "idle" => order'[u] # None
                            /\ pc'[u] = "trade" => pointer'[u] # None
  BY DEF Return, TypeOK
<1>2. QED
  BY <1>1 DEF Return, TypeOK, shared, history

(* A step, overlapping orders or not, keeps the types. *)
LEMMA NextTypeOK == TypeOK /\ [Next]_vars => TypeOK'
<1> SUFFICES ASSUME TypeOK, [Next]_vars PROVE TypeOK'
  OBVIOUS
<1>1. ASSUME NEW t \in Threads, Submit(t) PROVE TypeOK'
  BY <1>1, SubmitTypeOK
<1>2. ASSUME NEW t \in Threads, Continue(t) PROVE TypeOK'
  BY <1>2, ConsiderNextTypeOK, ExecuteTradeTypeOK, FinishMatchingTypeOK,
     NotifyTradeTypeOK, ReturnTypeOK DEF Continue, Loop
<1>3. CASE UNCHANGED vars
  BY <1>3 DEF TypeOK, vars, shared, local, history
<1>4. QED
  BY <1>1, <1>2, <1>3 DEF Next

(* However the client threads overlap inside submitOrder, with no lock
   between them, every variable stays of its type: in particular every book
   stays a pair of price maps and an index into them. *)
THEOREM TypeCorrect == Spec => []TypeOK
<1>1. Spec => Init /\ [][Next]_vars
  BY DEF Spec
<1>2. QED
  BY <1>1, InitTypeOK, NextTypeOK, PTL

(* The same of orders that do not overlap on a symbol. *)
THEOREM SerialTypeCorrect == SerialSpec => []TypeOK
<1>1. TypeOK /\ [SerialNext]_vars => TypeOK'
  BY NextTypeOK, SerialStep
<1>2. SerialSpec => Init /\ [][SerialNext]_vars
  BY DEF SerialSpec
<1>3. QED
  BY <1>1, <1>2, InitTypeOK, PTL

----------------------------------------------------------------------------
(* A trade with the order at `at`: it stays with its new quantity, or is
   full and goes. *)

LEMMA FillKeepsRest ==
    ASSUME NEW symbol, NEW side, NEW p, NEW o \in OrderValues,
           RestsAt(o, symbol, side, p), NEW q \in Nat \ {0},
           Fill(o, q).status # "FILLED"
    PROVE  RestsAt(Fill(o, q), symbol, side, p)
<1>1. o \in [id : OrderIds, symbol : Symbols, side : Sides, type : Types,
             price : Prices \cup {0}, quantity : Quantities,
             filledQuantity : Int, status : Statuses]
  BY DEF OrderValues
<1>2. o.quantity \in Int /\ o.filledQuantity \in 0 .. o.quantity - 1
  BY OrderFields DEF RestsAt
<1> DEFINE filled == o.filledQuantity + q
           new == [o EXCEPT !.filledQuantity = filled,
                            !.status = IF filled >= o.quantity THEN "FILLED"
                                       ELSE "PARTIALLY_FILLED"]
<1>3. Fill(o, q) = new
  BY DEF Fill
<1>4. /\ new.filledQuantity = filled /\ new.quantity = o.quantity
      /\ new.side = o.side /\ new.price = o.price /\ new.symbol = o.symbol
      /\ new.type = o.type
      /\ new.status = IF filled >= o.quantity THEN "FILLED"
                      ELSE "PARTIALLY_FILLED"
  BY <1>1
<1> HIDE DEF new
<1>5. filled < o.quantity /\ filled >= 0
  BY <1>2, <1>3, <1>4
<1>6. QED
  BY <1>2, <1>3, <1>4, <1>5 DEF RestsAt

LEMMA FillRestingKeeps ==
    ASSUME NEW book, IsBook(book, Prices, OrderIds, OrderValues),
           WellIndexed(book), NEW symbol, AllRest(book, symbol),
           NEW at, at.side \in Sides, InBounds(book, at), NEW q \in Nat \ {0}
    PROVE  LET o == OrderAt(book, at)
               new == FillResting(book, at, o.id, Fill(o, q)) IN
           /\ WellIndexed(new)
           /\ AllRest(new, symbol)
           /\ \A n : Below(book, n) => Below(new, n)
<1> DEFINE o == OrderAt(book, at)
           filled == Fill(o, q)
           written == WriteThrough(book, at, filled)
           new == FillResting(book, at, o.id, filled)
<1>1. /\ o \in OrderValues /\ filled \in OrderValues /\ filled.id = o.id
      /\ In(book, at.side, at.price, at.pos)
      /\ At(book, at.side, at.price, at.pos) = o
  BY OrderInBook, FillType DEF InBounds, OrderAt, In, At
<1>2. \A x \in OrderValues : x.id \in Nat
  BY OrderFields
<1>3. IsBook(written, Prices, OrderIds, OrderValues)
  BY <1>1, WriteThroughIsBook
<1>4. /\ \A side \in Sides : \A p, i :
            In(written, side, p, i) <=> In(book, side, p, i)
      /\ \A side \in Sides : \A p, i : In(book, side, p, i) =>
            At(written, side, p, i) =
                IF side = at.side /\ p = at.price /\ i = at.pos
                THEN filled ELSE At(book, side, p, i)
  BY WriteThroughPlaces
<1>5. /\ WellIndexed(written)
      /\ \A side \in Sides : \A p, i : In(book, side, p, i) =>
            At(written, side, p, i).id = At(book, side, p, i).id
  BY <1>1, WriteThroughWellIndexed
<1> HIDE DEF written, filled, o
<1>6. \A n : Below(book, n) => Below(written, n)
  BY <1>4, <1>5 DEF Below
<1>7. CASE filled.status # "FILLED"
  <2>1. new = written
    BY <1>7 DEF FillResting, written
  <2>2. RestsAt(filled, symbol, at.side, at.price)
    BY <1>1, <1>7, FillKeepsRest DEF AllRest, filled
  <2>3. AllRest(written, symbol)
    BY <1>4, <2>2 DEF AllRest
  <2> HIDE DEF new
  <2>4. QED
    BY <1>5, <1>6, <2>1, <2>3 DEF new, o, filled
<1>8. CASE filled.status = "FILLED"
  <2> DEFINE a == [side |-> at.side, price |-> at.price, pos |-> at.pos]
  <2>1. /\ In(written, at.side, at.price, at.pos)
        /\ At(written, at.side, at.price, at.pos) = filled
    BY <1>1, <1>4
  <2>2. HasOrder(written, o.id) /\ GetOrder(written, o.id) = a
    BY <1>1, <1>5, <2>1, GetOrderFinds
  <2>3. new = Erase(written, o.id, a)
    BY <1>8, <2>2 DEF FillResting, RemoveOrder, written
  <2>4. /\ a.side \in Sides /\ InBounds(written, a)
        /\ o.id = OrderAt(written, a).id
        /\ a.side = at.side /\ a.price = at.price /\ a.pos = at.pos
    BY <1>1, <2>1 DEF In, At, InBounds, OrderAt
  <2> HIDE DEF a, new
  <2>5. WellIndexed(new) /\ FromTheRest(new, written, a)
    BY <1>2, <1>3, <1>5, <2>3, <2>4, EraseWellIndexed
  <2>6. AllRest(new, symbol)
    BY <1>4, <2>4, <2>5 DEF AllRest, FromTheRest
  <2>7. \A n : Below(written, n) => Below(new, n)
    BY <2>5 DEF Below, FromTheRest
  <2>8. QED
    BY <1>6, <2>5, <2>6, <2>7 DEF new, o, filled
<1>9. QED
  BY <1>7, <1>8

----------------------------------------------------------------------------
(* The inductive invariant of orders that do not overlap on a symbol.  The
   books agree with their indexes; an order being matched came after all of
   its book, which no other thread is in; and a thread about to trade has a
   pointer to the very order its next copy is a copy of. *)

BooksInv ==
    \A s \in Symbols : /\ WellIndexed(books[s]) /\ AllRest(books[s], s)
                       /\ Below(books[s], Len(submitted) + 1)

OrderInv(t) ==
    t \in Matching =>
        /\ order[t].id <= Len(submitted)
        /\ order[t].filledQuantity >= 0
        /\ Below(books[order[t].symbol], order[t].id)

AloneInv ==
    \A t, u \in Matching : t # u => order[t].symbol # order[u].symbol

PointerInv(t) ==
    pc[t] = "trade" =>
        /\ Remaining(order[t]) > 0
        /\ \A c \in candidates[t] : IsNext(t, c) =>
             /\ Available(c) > 0
             /\ InBounds(books[order[t].symbol], pointer[t])
             /\ OrderAt(books[order[t].symbol], pointer[t]).id = c.order.id

SerialInv ==
    /\ BooksInv
    /\ AloneInv
    /\ \A t \in Threads : OrderInv(t) /\ PointerInv(t)

LEMMA SerialInvIsConsistent == TypeOK /\ SerialInv => BookConsistent
BY WellIndexedIsConsistent DEF TypeOK, SerialInv, BooksInv, BookConsistent

LEMMA BelowMore ==
    ASSUME NEW book, IsBook(book, Prices, OrderIds, OrderValues),
           NEW m \in Int, NEW n \in Int, m <= n, Below(book, m)
    PROVE  Below(book, n)
<1>1. ASSUME NEW side \in Sides, NEW p, NEW i, In(book, side, p, i)
      PROVE  At(book, side, p, i).id < n
  <2>1. At(book, side, p, i).id \in Nat
    BY <1>1, OrderThere, OrderFields
  <2>2. At(book, side, p, i).id < m
    BY <1>1 DEF Below
  <2>3. QED
    BY <2>1, <2>2
<1>2. QED
  BY <1>1 DEF Below

(* Two copies cannot both come first. *)
LEMMA NextIsUnique ==
    ASSUME TypeOK, NEW t \in Threads, pc[t] \in {"match", "trade"},
           NEW c, IsNext(t, c), NEW d, IsNext(t, d)
    PROVE  c = d
<1> SUFFICES ASSUME c # d PROVE FALSE
  OBVIOUS
<1> DEFINE side == Opposite(order[t].side)
<1>1. c \in candidates[t] /\ d \in candidates[t]
  BY DEF IsNext
<1>2. c \in Copies /\ d \in Copies
  BY <1>1 DEF TypeOK
<1>3. /\ c.pos \in Nat /\ d.pos \in Nat
      /\ c.order.price \in Int /\ d.order.price \in Int
  BY <1>2, OrderFields DEF Copies
<1>4. /\ \/ BetterPrice(side, c.order.price, d.order.price)
         \/ c.order.price = d.order.price /\ c.pos < d.pos
      /\ \/ BetterPrice(side, d.order.price, c.order.price)
         \/ d.order.price = c.order.price /\ d.pos < c.pos
  BY <1>1 DEF IsNext, IsFirst
<1>5. QED
  BY <1>3, <1>4 DEF BetterPrice

(* What a step of another thread leaves of a thread's part. *)
LEMMA OthersKeep ==
    ASSUME TypeOK, NEW u \in Threads, OrderInv(u), PointerInv(u),
           pc'[u] = pc[u], order'[u] = order[u],
           candidates'[u] = candidates[u], pointer'[u] = pointer[u],
           u \in Matching => books'[order[u].symbol] = books[order[u].symbol],
           Len(submitted') \in Nat, Len(submitted) <= Len(submitted')
    PROVE  OrderInv(u)' /\ PointerInv(u)'
<1>1. u \in Matching' <=> u \in Matching
  BY DEF Matching
<1>2. pc[u] = "trade" => u \in Matching
  BY DEF Matching
<1>3. u \in Matching => order[u].id \in Int
  BY OrderFields DEF TypeOK, Matching
<1>4. Len(submitted) \in Nat
  BY LenProperties DEF TypeOK
<1>5. OrderInv(u)'
  BY <1>1, <1>3, <1>4 DEF OrderInv
<1>6. PointerInv(u)'
  BY <1>2 DEF PointerInv, IsNext
<1>7. QED
  BY <1>5, <1>6

LEMMA InitSerialInv == Init => SerialInv
<1> SUFFICES ASSUME Init PROVE SerialInv
  OBVIOUS
<1>1. /\ \A side \in Sides : DOMAIN EmptyBook.levels[side] = {}
      /\ DOMAIN EmptyBook.index = {}
  BY DEF EmptyBook, EmptyMap
<1>2. \A side \in Sides : \A p, i : ~ In(EmptyBook, side, p, i)
  BY <1>1 DEF In
<1>3. /\ WellIndexed(EmptyBook)
      /\ \A s : AllRest(EmptyBook, s)
      /\ \A n : Below(EmptyBook, n)
  <2>1. "BUY" \in Sides
    BY DEF Sides
  <2>2. QED
    BY <1>1, <1>2, <2>1 DEF WellIndexed, NoEmptyLevel, AllRest, Below
<1>4. BooksInv
  BY <1>3 DEF Init, BooksInv
<1>5. Matching = {} /\ \A t \in Threads : pc[t] # "trade"
  BY DEF Init, Matching
<1>6. QED
  BY <1>4, <1>5 DEF SerialInv, AloneInv, OrderInv, PointerInv

----------------------------------------------------------------------------
(* Every step keeps the invariant. *)

LEMMA SubmitSerialInv ==
    ASSUME TypeOK, SerialInv, NEW t \in Threads, SerialSubmit(t)
    PROVE  SerialInv'
<1>1. PICK o \in NewOrders(Len(submitted) + 1) :
          BookFree(o.symbol) /\ SubmitOrder(t, o)
  BY DEF SerialSubmit
<1>2. Len(submitted) \in Nat /\ Len(submitted) + 1 \in OrderIds
  BY LenProperties, ConstantsAssumption DEF TypeOK, SerialSubmit, OrderIds
<1>3. /\ o \in OrderValues /\ o.id = Len(submitted) + 1 /\ o.symbol \in Symbols
      /\ o.filledQuantity = 0
  BY <1>2, NewOrderType DEF NewOrders
<1>4. Len(submitted') = Len(submitted) + 1
  BY <1>1, <1>3, AppendProperties DEF SubmitOrder, TypeOK
<1>5. /\ books' = books /\ pointer' = pointer
      /\ t \notin Matching /\ pc'[t] = "match" /\ order'[t] = o
      /\ \A u \in Threads \ {t} :
            pc'[u] = pc[u] /\ order'[u] = order[u] /\ candidates'[u] = candidates[u]
  BY <1>1 DEF SubmitOrder, TypeOK, shared, Matching
<1>6. BooksInv'
  <2>1. ASSUME NEW s \in Symbols
        PROVE  Below(books[s], Len(submitted) + 1 + 1)
    <3> DEFINE m == Len(submitted) + 1
               n == Len(submitted) + 1 + 1
    <3>1. m \in Int /\ n \in Int /\ m <= n
      BY <1>2
    <3>2. IsBook(books[s], Prices, OrderIds, OrderValues) /\ Below(books[s], m)
      BY DEF TypeOK, SerialInv, BooksInv
    <3> HIDE DEF m, n
    <3>3. Below(books[s], n)
      BY <3>1, <3>2, BelowMore
    <3>4. QED
      BY <3>3 DEF n
  <2>2. QED
    BY <1>4, <1>5, <2>1 DEF SerialInv, BooksInv
<1>7. AloneInv'
  <2>1. Matching' = Matching \cup {t}
    BY <1>5 DEF Matching
  <2>2. \A u \in Matching : order[u].symbol # o.symbol
    BY <1>1 DEF BookFree, Matching
  <2>3. \A u \in Matching : u \in Threads \ {t}
    BY <1>5 DEF Matching
  <2>4. QED
    BY <1>5, <2>1, <2>2, <2>3 DEF SerialInv, AloneInv
<1>8. OrderInv(t)' /\ PointerInv(t)'
  BY <1>2, <1>3, <1>4, <1>5 DEF SerialInv, BooksInv, OrderInv, PointerInv
<1>9. ASSUME NEW u \in Threads \ {t}
      PROVE  OrderInv(u)' /\ PointerInv(u)'
  <2>1. OrderInv(u) /\ PointerInv(u)
    BY DEF SerialInv
  <2>2. QED
    BY <1>2, <1>4, <1>5, <2>1, OthersKeep
<1>10. QED
  BY <1>6, <1>7, <1>8, <1>9 DEF SerialInv

LEMMA ConsiderNextSerialInv ==
    ASSUME TypeOK, SerialInv, NEW t \in Threads, ConsiderNext(t)
    PROVE  SerialInv'
<1> DEFINE book == books[order[t].symbol]
<1>1. PICK c \in candidates[t] :
        /\ IsNext(t, c)
        /\ IF HasOrder(book, c.order.id) /\ Available(c) > 0
           THEN /\ pc' = [pc EXCEPT ![t] = "trade"]
                /\ pointer' = [pointer EXCEPT ![t] = GetOrder(book, c.order.id)]
                /\ UNCHANGED candidates
           ELSE /\ candidates' = [candidates EXCEPT ![t] = @ \ {c}]
                /\ UNCHANGED <<pc, pointer>>
  BY DEF ConsiderNext
<1>2. /\ books' = books /\ order' = order /\ submitted' = submitted
      /\ pc[t] = "match"
  BY DEF ConsiderNext, shared, history
<1>3. order[t] \in OrderValues /\ Remaining(order[t]) > 0
  <2>1. order[t] \in OrderValues
    BY <1>2 DEF TypeOK
  <2>2. ~ (Remaining(order[t]) <= 0)
    BY DEF ConsiderNext, LoopEnds
  <2>3. QED
    BY <2>1, <2>2, OrderFields DEF Remaining
<1>4. /\ \A u \in Threads \ {t} : /\ pc'[u] = pc[u] /\ pointer'[u] = pointer[u]
                                 /\ candidates'[u] = candidates[u]
      /\ pc'[t] \in {"match", "trade"}
  BY <1>1, <1>2 DEF TypeOK
<1>5. Matching' = Matching
  BY <1>2, <1>4 DEF Matching
<1>6. BooksInv' /\ AloneInv'
  BY <1>2, <1>5 DEF SerialInv, BooksInv, AloneInv
<1>7. OrderInv(t)'
  BY <1>2, <1>5 DEF SerialInv, OrderInv
<1>8. PointerInv(t)'
  <2>1. CASE HasOrder(book, c.order.id) /\ Available(c) > 0
    <3>1. /\ pointer'[t] = GetOrder(book, c.order.id)
          /\ candidates'[t] = candidates[t]
      BY <1>1, <2>1 DEF TypeOK
    <3>2. /\ InBounds(book, GetOrder(book, c.order.id))
          /\ OrderAt(book, GetOrder(book, c.order.id)).id = c.order.id
      <4>1. IsBook(book, Prices, OrderIds, OrderValues)
        BY <1>3, OrderFields DEF TypeOK
      <4> HIDE DEF book
      <4>2. QED
        BY <2>1, <4>1, GetOrderAddress
    <3>3. \A d : IsNext(t, d)' => d = c
      <4>1. \A d : IsNext(t, d)' => IsNext(t, d)
        BY <1>2, <3>1 DEF IsNext
      <4>2. QED
        BY <1>1, <1>2, <4>1, NextIsUnique
    <3>4. QED
      BY <1>2, <1>3, <2>1, <3>1, <3>2, <3>3 DEF PointerInv
  <2>2. CASE ~ (HasOrder(book, c.order.id) /\ Available(c) > 0)
    BY <1>1, <1>2, <2>2 DEF PointerInv
  <2>3. QED
    BY <2>1, <2>2
<1>9. ASSUME NEW u \in Threads \ {t}
      PROVE  OrderInv(u)' /\ PointerInv(u)'
  <2>1. OrderInv(u) /\ PointerInv(u) /\ Len(submitted) \in Nat
    BY LenProperties DEF SerialInv, TypeOK
  <2>2. QED
    BY <1>2, <1>4, <2>1, OthersKeep
<1>10. QED
  BY <1>6, <1>7, <1>8, <1>9 DEF SerialInv

LEMMA ExecuteTradeSerialInv ==
    ASSUME TypeOK, SerialInv, NEW t \in Threads, ExecuteTrade(t)
    PROVE  SerialInv'
<1> DEFINE o == order[t]
           at == pointer[t]
           quantity(c) == Lesser(Remaining(o), Available(c))
<1>1. PICK c \in candidates[t] :
        /\ IsNext(t, c)
        /\ order' = [order EXCEPT ![t] = Fill(o, quantity(c))]
        /\ books' = [books EXCEPT ![o.symbol] =
              FillResting(books[o.symbol], at, c.order.id,
                          Fill(OrderAt(books[o.symbol], at), quantity(c)))]
        /\ candidates' = [candidates EXCEPT ![t] = @ \ {c}]
  BY DEF ExecuteTrade
<1> DEFINE q == quantity(c)
           book == books[o.symbol]
           resting == OrderAt(book, at)
           new == FillResting(book, at, resting.id, Fill(resting, q))
<1>2. /\ o \in OrderValues /\ at \in Addresses /\ at.side \in Sides
      /\ c \in Copies /\ c.order \in OrderValues /\ o.symbol \in Symbols
      /\ IsBook(book, Prices, OrderIds, OrderValues)
      /\ pc[t] = "trade" /\ t \in Matching
  BY OrderFields DEF ExecuteTrade, TypeOK, Addresses, Copies, Matching
<1>3. /\ Remaining(o) > 0 /\ Available(c) > 0
      /\ InBounds(book, at) /\ resting.id = c.order.id
  BY <1>1, <1>2 DEF SerialInv, PointerInv
<1>4. q \in Nat \ {0}
  <2>1. Remaining(o) \in Int /\ Available(c) \in Int
    BY <1>2, OrderFields DEF Remaining, Available
  <2>2. QED
    BY <1>3, <2>1 DEF Lesser
<1>5. /\ order' = [order EXCEPT ![t] = Fill(o, q)]
      /\ books' = [books EXCEPT ![o.symbol] = new]
      /\ submitted' = submitted
      /\ pc' = [pc EXCEPT ![t] = "match"]
      /\ pointer' = [pointer EXCEPT ![t] = None]
  BY <1>1, <1>3 DEF ExecuteTrade
<1>6. /\ WellIndexed(new) /\ AllRest(new, o.symbol)
      /\ \A n : Below(book, n) => Below(new, n)
  <2>1. WellIndexed(book) /\ AllRest(book, o.symbol)
    BY <1>2 DEF SerialInv, BooksInv
  <2> HIDE DEF q, book, at, o
  <2>2. QED
    BY <1>2, <1>3, <1>4, <2>1, FillRestingKeeps
<1>7. /\ Fill(o, q).id = o.id /\ Fill(o, q).symbol = o.symbol
      /\ Fill(o, q).filledQuantity = o.filledQuantity + q
  <2>1. o \in [id : OrderIds, symbol : Symbols, side : Sides, type : Types,
               price : Prices \cup {0}, quantity : Quantities,
               filledQuantity : Int, status : Statuses]
    BY <1>2 DEF OrderValues
  <2> HIDE DEF q, o
  <2>2. QED
    BY <2>1 DEF Fill
<1> HIDE DEF new, q, book, at, o
<1>8. /\ \A s \in Symbols : books'[s] = IF s = o.symbol THEN new ELSE books[s]
      /\ order'[t] = Fill(o, q) /\ pc'[t] = "match"
      /\ \A u \in Threads \ {t} :
            /\ pc'[u] = pc[u] /\ order'[u] = order[u]
            /\ pointer'[u] = pointer[u] /\ candidates'[u] = candidates[u]
  <2>1. books = [s \in Symbols |-> books[s]]
    BY DEF TypeOK
  <2>2. QED
    BY <1>1, <1>2, <1>5, <2>1 DEF TypeOK
<1>9. Matching' = Matching
  BY <1>2, <1>8 DEF Matching
<1>10. order'[t].symbol = o.symbol /\ order'[t].id = o.id
  BY <1>7, <1>8
<1>11. BooksInv'
  <2>1. Below(book, Len(submitted) + 1)
    BY <1>2 DEF SerialInv, BooksInv, book
  <2>2. QED
    BY <1>5, <1>6, <1>8, <2>1 DEF SerialInv, BooksInv
<1>12. AloneInv'
  <2>1. \A u \in Matching : order'[u].symbol = order[u].symbol
    BY <1>8, <1>10 DEF Matching, o
  <2>2. QED
    BY <1>9, <2>1 DEF SerialInv, AloneInv
<1>13. OrderInv(t)'
  <2>1. o.id <= Len(submitted) /\ o.filledQuantity >= 0 /\ Below(book, o.id)
    BY <1>2 DEF SerialInv, OrderInv, o, book
  <2>2. o.filledQuantity + q >= 0
    BY <1>2, <1>4, <2>1, OrderFields
  <2>3. books'[o.symbol] = new
    BY <1>2, <1>8
  <2>4. QED
    BY <1>5, <1>6, <1>7, <1>8, <1>10, <2>1, <2>2, <2>3 DEF OrderInv
<1>14. PointerInv(t)'
  BY <1>8 DEF PointerInv
<1>15. ASSUME NEW u \in Threads \ {t}
       PROVE  OrderInv(u)' /\ PointerInv(u)'
  <2>1. OrderInv(u) /\ PointerInv(u) /\ Len(submitted) \in Nat
    BY LenProperties DEF SerialInv, TypeOK
  <2>2. u \in Matching => books'[order[u].symbol] = books[order[u].symbol]
    <3>1. u \in Matching => order[u].symbol \in Symbols /\ order[u].symbol # o.symbol
      BY <1>2, OrderFields DEF SerialInv, AloneInv, Matching, TypeOK, o
    <3>2. QED
      BY <1>8, <3>1
  <2>3. QED
    BY <1>5, <1>8, <2>1, <2>2, OthersKeep
<1>16. QED
  BY <1>11, <1>12, <1>13, <1>14, <1>15 DEF SerialInv

LEMMA FinishMatchingSerialInv ==
    ASSUME TypeOK, SerialInv, NEW t \in Threads, FinishMatching(t)
    PROVE  SerialInv'
<1> DEFINE o == order[t]
           resting == [o EXCEPT !.status = "PENDING"]
           book == books[o.symbol]
<1>1. /\ o \in OrderValues /\ o.symbol \in Symbols
      /\ IsBook(book, Prices, OrderIds, OrderValues)
      /\ pc[t] = "match" /\ t \in Matching /\ pc'[t] = "notify"
      /\ submitted' = submitted /\ Len(submitted) \in Nat
      /\ pointer' = pointer
  BY OrderFields, LenProperties DEF FinishMatching, TypeOK, Matching, history
<1>2. \A u \in Threads \ {t} :
        pc'[u] = pc[u] /\ order'[u] = order[u] /\ candidates'[u] = candidates[u]
  BY DEF FinishMatching, TypeOK
<1>3. Matching' = Matching \ {t}
  BY <1>1, <1>2 DEF Matching
<1>4. PICK new :
        /\ \A s \in Symbols : books'[s] = IF s = o.symbol THEN new ELSE books[s]
        /\ WellIndexed(new) /\ AllRest(new, o.symbol)
        /\ Below(new, Len(submitted) + 1)
  <2>1. /\ WellIndexed(book) /\ AllRest(book, o.symbol)
        /\ Below(book, Len(submitted) + 1) /\ Below(book, o.id)
        /\ o.id <= Len(submitted) /\ o.filledQuantity >= 0
    BY <1>1 DEF SerialInv, BooksInv, OrderInv
  <2>2. CASE Rests(o)
    <3>1. books' = [books EXCEPT ![o.symbol] = AddOrder(book, resting)]
      BY <2>2 DEF FinishMatching
    <3>2. /\ resting \in OrderValues /\ resting.id = o.id
          /\ resting.side = o.side /\ resting.price = o.price
          /\ RestsAt(resting, o.symbol, o.side, o.price)
      <4>1. o \in [id : OrderIds, symbol : Symbols, side : Sides, type : Types,
                   price : Prices \cup {0}, quantity : Quantities,
                   filledQuantity : Int, status : Statuses]
            /\ (o.type = "LIMIT" => o.price \in Prices)
        BY <1>1 DEF OrderValues
      <4>2. o.type = "LIMIT" /\ o.filledQuantity \in 0 .. o.quantity - 1
        BY <1>1, <2>1, <2>2, OrderFields DEF Rests
      <4>3. resting \in OrderValues
        BY <4>1 DEF OrderValues, Statuses
      <4>4. QED
        BY <4>1, <4>2, <4>3 DEF RestsAt
    <3> DEFINE new == AddOrder(book, resting)
    <3>3. \A s \in Symbols : books'[s] = IF s = o.symbol THEN new ELSE books[s]
      <4>1. books = [s \in Symbols |-> books[s]]
        BY DEF TypeOK
      <4> HIDE DEF new
      <4>2. QED
        BY <1>1, <3>1, <4>1 DEF new
    <3>4. /\ WellIndexed(new)
          /\ \A side \in Sides : \A p, i : In(new, side, p, i) =>
                \/ /\ In(book, side, p, i)
                   /\ At(new, side, p, i) = At(book, side, p, i)
                \/ /\ side = resting.side /\ p = resting.price
                   /\ At(new, side, p, i) = resting
      <4>1. \A x \in OrderValues : x.id \in Nat
        BY OrderFields
      <4>2. resting.side \in Sides /\ Below(book, resting.id)
        BY <1>1, <2>1, <3>2, OrderFields
      <4> HIDE DEF resting, book
      <4>3. QED
        BY <1>1, <2>1, <3>2, <4>1, <4>2, AddOrderWellIndexed
    <3> HIDE DEF new, resting, book, o
    <3>5. AllRest(new, o.symbol)
      BY <2>1, <3>2, <3>4 DEF AllRest
    <3>6. Below(new, Len(submitted) + 1)
      <4>1. resting.id < Len(submitted) + 1
        BY <1>1, <2>1, <3>2, OrderFields
      <4>2. QED
        BY <2>1, <3>4, <4>1 DEF Below
    <3>7. QED
      BY <3>3, <3>4, <3>5, <3>6
  <2>3. CASE ~ Rests(o)
    <3>1. books' = books
      BY <2>3 DEF FinishMatching
    <3>2. QED
      BY <2>1, <3>1
  <2>4. QED
    BY <2>2, <2>3
<1> HIDE DEF o
<1>5. BooksInv'
  BY <1>1, <1>4 DEF SerialInv, BooksInv
<1>6. AloneInv'
  <2>1. \A u \in Matching' : u \in Matching /\ order'[u] = order[u]
    BY <1>2, <1>3 DEF Matching
  <2>2. QED
    BY <2>1 DEF SerialInv, AloneInv
<1>7. OrderInv(t)' /\ PointerInv(t)'
  BY <1>1, <1>3 DEF OrderInv, PointerInv
<1>8. ASSUME NEW u \in Threads \ {t}
      PROVE  OrderInv(u)' /\ PointerInv(u)'
  <2>1. OrderInv(u) /\ PointerInv(u)
    BY DEF SerialInv
  <2>2. u \in Matching => books'[order[u].symbol] = books[order[u].symbol]
    <3>1. u \in Matching => order[u].symbol \in Symbols /\ order[u].symbol # o.symbol
      BY <1>1, OrderFields DEF SerialInv, AloneInv, Matching, TypeOK, o
    <3>2. QED
      BY <1>4, <3>1
  <2>3. QED
    BY <1>1, <1>2, <2>1, <2>2, OthersKeep
<1>9. QED
  BY <1>5, <1>6, <1>7, <1>8 DEF SerialInv

(* The steps of a thread that is done with its book. *)
LEMMA TailSerialInv ==
    ASSUME TypeOK, SerialInv, NEW t \in Threads, NotifyTrade(t) \/ Return(t)
    PROVE  SerialInv'
<1>1. /\ books' = books /\ submitted' = submitted /\ candidates' = candidates
      /\ pointer' = pointer /\ t \notin Matching
      /\ pc'[t] \notin {"match", "trade"}
      /\ \A u \in Threads \ {t} : pc'[u] = pc[u] /\ order'[u] = order[u]
  BY DEF NotifyTrade, Return, TypeOK, shared, history, Matching
<1>2. Matching' = Matching /\ \A u \in Matching : order'[u] = order[u]
  BY <1>1 DEF Matching
<1>3. BooksInv' /\ AloneInv'
  BY <1>1, <1>2 DEF SerialInv, BooksInv, AloneInv
<1>4. OrderInv(t)' /\ PointerInv(t)'
  BY <1>1, <1>2 DEF OrderInv, PointerInv
<1>5. ASSUME NEW u \in Threads \ {t}
      PROVE  OrderInv(u)' /\ PointerInv(u)'
  <2>1. OrderInv(u) /\ PointerInv(u) /\ Len(submitted) \in Nat
    BY LenProperties DEF SerialInv, TypeOK
  <2>2. QED
    BY <1>1, <2>1, OthersKeep
<1>6. QED
  BY <1>3, <1>4, <1>5 DEF SerialInv

LEMMA NextSerialInv == TypeOK /\ SerialInv /\ [SerialNext]_vars => SerialInv'
<1> SUFFICES ASSUME TypeOK, SerialInv, [SerialNext]_vars PROVE SerialInv'
  OBVIOUS
<1>1. ASSUME NEW t \in Threads, SerialSubmit(t) PROVE SerialInv'
  BY <1>1, SubmitSerialInv
<1>2. ASSUME NEW t \in Threads, Continue(t) PROVE SerialInv'
  BY <1>2, ConsiderNextSerialInv, ExecuteTradeSerialInv,
     FinishMatchingSerialInv, TailSerialInv DEF Continue, Loop
<1>3. CASE UNCHANGED vars
  BY <1>3 DEF vars, shared, local, history, SerialInv, BooksInv, AloneInv,
     OrderInv, PointerInv, Matching, IsNext
<1>4. QED
  BY <1>1, <1>2, <1>3 DEF SerialNext

(* As long as no two orders of one symbol overlap inside submitOrder, each
   book and its index agree in every state: addOrder, the fills through
   getOrder's pointer and removeOrder leave the index naming exactly the
   orders of the book at exactly their places, every level in arrival order,
   nothing full and no market order resting. *)
THEOREM BooksStayConsistent == SerialSpec => []BookConsistent
<1>1. TypeOK /\ [SerialNext]_vars => TypeOK'
  BY NextTypeOK, SerialStep
<1>2. SerialSpec => Init /\ [][SerialNext]_vars
  BY DEF SerialSpec
<1>3. QED
  BY <1>1, <1>2, InitTypeOK, InitSerialInv, NextSerialInv,
     SerialInvIsConsistent, PTL

----------------------------------------------------------------------------
(* Part two: what orders trade. *)

(* A book as a set of orders. *)

LEMMA CopiesAt ==
    ASSUME NEW book, NEW side \in Sides, NEW c
    PROVE  c \in GetOrders(book, side) <=>
             \E p, i : /\ In(book, side, p, i)
                       /\ c = [pos |-> i, order |-> At(book, side, p, i)]
BY DEF GetOrders, In, At

LEMMA OrdersOnAt ==
    ASSUME NEW book, NEW side \in Sides, NEW o
    PROVE  o \in OrdersOn(book, side) <=>
             \E p, i : In(book, side, p, i) /\ o = At(book, side, p, i)
<1>1. ASSUME NEW c \in GetOrders(book, side)
      PROVE  \E p, i : In(book, side, p, i) /\ c.order = At(book, side, p, i)
  <2>1. PICK p, i : /\ In(book, side, p, i)
                    /\ c = [pos |-> i, order |-> At(book, side, p, i)]
    BY CopiesAt
  <2>2. QED
    BY <2>1
<1>2. ASSUME NEW p, NEW i, In(book, side, p, i)
      PROVE  At(book, side, p, i) \in OrdersOn(book, side)
  <2>1. [pos |-> i, order |-> At(book, side, p, i)] \in GetOrders(book, side)
    BY <1>2, CopiesAt
  <2>2. [pos |-> i, order |-> At(book, side, p, i)].order = At(book, side, p, i)
    OBVIOUS
  <2>3. QED
    BY <2>1, <2>2, Zenon DEF OrdersOn
<1>3. QED
  BY <1>1, <1>2 DEF OrdersOn

(* An id is at one place of a book. *)
LEMMA OnePlace ==
    ASSUME NEW book, WellIndexed(book),
           NEW s1 \in Sides, NEW p1, NEW i1, In(book, s1, p1, i1),
           NEW s2 \in Sides, NEW p2, NEW i2, In(book, s2, p2, i2),
           At(book, s1, p1, i1).id = At(book, s2, p2, i2).id
    PROVE  s1 = s2 /\ p1 = p2 /\ i1 = i2
<1>1. <<p1, i1>> = <<p2, i2>>
  BY DEF WellIndexed
<1>2. p1 = p2 /\ i1 = i2
  BY <1>1
<1>3. s1 = s2
  BY <1>2 DEF WellIndexed, Sides
<1>4. QED
  BY <1>2, <1>3

LEMMA OneOrderPerId ==
    ASSUME NEW book, WellIndexed(book),
           NEW s1 \in Sides, NEW a \in OrdersOn(book, s1),
           NEW s2 \in Sides, NEW b \in OrdersOn(book, s2), a.id = b.id
    PROVE  a = b /\ s1 = s2
<1>1. PICK p1, i1 : In(book, s1, p1, i1) /\ a = At(book, s1, p1, i1)
  BY OrdersOnAt
<1>2. PICK p2, i2 : In(book, s2, p2, i2) /\ b = At(book, s2, p2, i2)
  BY OrdersOnAt
<1>3. s1 = s2 /\ p1 = p2 /\ i1 = i2
  BY <1>1, <1>2, OnePlace
<1>4. QED
  BY <1>1, <1>2, <1>3

(* What every order in a book is. *)
LEMMA OrdersOnRest ==
    ASSUME NEW book, IsBook(book, Prices, OrderIds, OrderValues),
           NEW symbol, AllRest(book, symbol),
           NEW side \in Sides, NEW o \in OrdersOn(book, side)
    PROVE  /\ o \in OrderValues
           /\ o.side = side /\ o.symbol = symbol /\ o.type = "LIMIT"
           /\ o.filledQuantity \in Nat /\ o.quantity \in Int
           /\ o.filledQuantity < o.quantity
           /\ o.price \in Int /\ o.id \in Nat
<1>1. PICK p, i : In(book, side, p, i) /\ o = At(book, side, p, i)
  BY OrdersOnAt
<1>2. o \in OrderValues /\ RestsAt(o, symbol, side, p)
  BY <1>1, OrderThere DEF AllRest
<1>3. QED
  BY <1>2, OrderFields DEF RestsAt

(* getOrder finds the orders of a book and no others. *)
LEMMA HasOrderOn ==
    ASSUME NEW book, IsBook(book, Prices, OrderIds, OrderValues),
           WellIndexed(book), NEW id
    PROVE  /\ HasOrder(book, id) <=>
                \E side \in Sides : \E o \in OrdersOn(book, side) : o.id = id
           /\ \A side \in Sides : \A o \in OrdersOn(book, side) : o.id = id =>
                OrderAt(book, GetOrder(book, id)) = o
<1>1. ASSUME NEW side \in Sides, NEW o \in OrdersOn(book, side), o.id = id
      PROVE  HasOrder(book, id) /\ OrderAt(book, GetOrder(book, id)) = o
  <2>1. PICK p, i : In(book, side, p, i) /\ o = At(book, side, p, i)
    BY OrdersOnAt
  <2>2. /\ HasOrder(book, At(book, side, p, i).id)
        /\ GetOrder(book, At(book, side, p, i).id)
             = [side |-> side, price |-> p, pos |-> i]
    BY <2>1, GetOrderFinds
  <2>3. QED
    BY <1>1, <2>1, <2>2 DEF OrderAt, At
<1>2. ASSUME HasOrder(book, id)
      PROVE  \E side \in Sides : \E o \in OrdersOn(book, side) : o.id = id
  <2> DEFINE at == GetOrder(book, id)
  <2>1. /\ at.side \in Sides /\ InBounds(book, at)
        /\ OrderAt(book, at).id = id
    BY <1>2, GetOrderAddress
  <2>2. In(book, at.side, at.price, at.pos)
        /\ OrderAt(book, at) = At(book, at.side, at.price, at.pos)
    BY <2>1 DEF InBounds, In, OrderAt, At
  <2>3. OrderAt(book, at) \in OrdersOn(book, at.side)
    BY <2>1, <2>2, OrdersOnAt
  <2>4. QED
    BY <2>1, <2>3
<1>3. QED
  BY <1>1, <1>2

LEMMA OrdersOnAdded ==
    ASSUME NEW P, NEW I, NEW O, NEW book, IsBook(book, P, I, O),
           NEW o \in O, o.side \in Sides
    PROVE  \A side \in Sides :
             OrdersOn(AddOrder(book, o), side) =
               OrdersOn(book, side) \cup (IF side = o.side THEN {o} ELSE {})
<1> DEFINE new == AddOrder(book, o)
           last == Len(Level(book, o.side, o.price)) + 1
           added(side, p, i) == side = o.side /\ p = o.price /\ i = last
<1>1. /\ last \in Nat \ {0} /\ ~ In(book, o.side, o.price, last)
      /\ \A i : In(book, o.side, o.price, i) => i < last
      /\ \A side \in Sides : \A p, i :
            In(new, side, p, i) <=> In(book, side, p, i) \/ added(side, p, i)
      /\ \A side \in Sides : \A p, i : In(new, side, p, i) =>
            At(new, side, p, i) =
                IF added(side, p, i) THEN o ELSE At(book, side, p, i)
      /\ NoEmptyLevel(book) => NoEmptyLevel(new)
      /\ new.index = Put(book.index, o.id, <<o.price, last>>)
  BY AddOrderPlaces
<1> HIDE DEF new, last
<1>2. ASSUME NEW side \in Sides, NEW x
      PROVE  x \in OrdersOn(new, side) <=>
               x \in OrdersOn(book, side) \/ (side = o.side /\ x = o)
  <2>1. ASSUME NEW p, NEW i, In(new, side, p, i), x = At(new, side, p, i)
        PROVE  x \in OrdersOn(book, side) \/ (side = o.side /\ x = o)
    BY <1>1, <2>1, OrdersOnAt
  <2>2. ASSUME NEW p, NEW i, In(book, side, p, i), x = At(book, side, p, i)
        PROVE  x \in OrdersOn(new, side)
    <3>1. In(new, side, p, i) /\ ~ added(side, p, i)
      BY <1>1, <2>2
    <3>2. QED
      BY <1>1, <2>2, <3>1, OrdersOnAt
  <2>3. ASSUME side = o.side, x = o
        PROVE  x \in OrdersOn(new, side)
    <3>1. In(new, o.side, o.price, last) /\ At(new, o.side, o.price, last) = o
      BY <1>1
    <3>2. QED
      BY <2>3, <3>1, OrdersOnAt
  <2>4. QED
    BY <2>1, <2>2, <2>3, OrdersOnAt
<1>3. QED
  BY <1>2 DEF new

(* The order at `at` is written anew, and no other. *)
LEMMA OrdersOnWritten ==
    ASSUME NEW P, NEW I, NEW O, NEW book, IsBook(book, P, I, O),
           WellIndexed(book),
           NEW at, at.side \in Sides, InBounds(book, at),
           NEW x, x.id = OrderAt(book, at).id
    PROVE  \A side \in Sides :
             OrdersOn(WriteThrough(book, at, x), side) =
               IF side = at.side
               THEN (OrdersOn(book, side) \ {OrderAt(book, at)}) \cup {x}
               ELSE OrdersOn(book, side)
<1> DEFINE new == WriteThrough(book, at, x)
           o == OrderAt(book, at)
<1>1. /\ new.index = book.index
      /\ \A side \in Sides : DOMAIN new.levels[side] = DOMAIN book.levels[side]
      /\ \A side \in Sides : \A p, i :
            In(new, side, p, i) <=> In(book, side, p, i)
      /\ \A side \in Sides : \A p, i : In(book, side, p, i) =>
            At(new, side, p, i) =
                IF side = at.side /\ p = at.price /\ i = at.pos
                THEN x ELSE At(book, side, p, i)
      /\ NoEmptyLevel(book) => NoEmptyLevel(new)
  BY WriteThroughPlaces
<1>2. /\ In(book, at.side, at.price, at.pos)
      /\ o = At(book, at.side, at.price, at.pos)
  BY DEF InBounds, OrderAt, In, At
<1> HIDE DEF new, o
<1>3. ASSUME NEW side \in Sides, NEW y
      PROVE  y \in OrdersOn(new, side) <=>
               \/ y \in OrdersOn(book, side) /\ ~ (side = at.side /\ y = o)
               \/ side = at.side /\ y = x
  <2>1. ASSUME NEW p, NEW i, In(new, side, p, i), y = At(new, side, p, i)
        PROVE  \/ y \in OrdersOn(book, side) /\ ~ (side = at.side /\ y = o)
               \/ side = at.side /\ y = x
    <3>1. CASE side = at.side /\ p = at.price /\ i = at.pos
      BY <1>1, <1>2, <2>1, <3>1
    <3>2. CASE ~ (side = at.side /\ p = at.price /\ i = at.pos)
      <4>1. In(book, side, p, i) /\ y = At(book, side, p, i)
        BY <1>1, <2>1, <3>2
      <4>2. ~ (side = at.side /\ y = o)
        BY <1>2, <3>2, <4>1, OnePlace
      <4>3. QED
        BY <4>1, <4>2, OrdersOnAt
    <3>3. QED
      BY <3>1, <3>2
  <2>2. ASSUME NEW p, NEW i, In(book, side, p, i), y = At(book, side, p, i),
               ~ (side = at.side /\ y = o)
        PROVE  y \in OrdersOn(new, side)
    <3>1. ~ (side = at.side /\ p = at.price /\ i = at.pos)
      BY <1>2, <2>2
    <3>2. In(new, side, p, i) /\ y = At(new, side, p, i)
      BY <1>1, <2>2, <3>1
    <3>3. QED
      BY <3>2, OrdersOnAt
  <2>3. ASSUME side = at.side, y = x
        PROVE  y \in OrdersOn(new, side)
    <3>1. In(new, at.side, at.price, at.pos)
          /\ At(new, at.side, at.price, at.pos) = x
      BY <1>1, <1>2
    <3>2. QED
      BY <2>3, <3>1, OrdersOnAt
  <2>4. QED
    BY <2>1, <2>2, <2>3, OrdersOnAt
<1>4. QED
  BY <1>3 DEF new, o

(* The order at `at` leaves, and no other. *)
LEMMA OrdersOnErased ==
    ASSUME NEW P, NEW I, NEW O, NEW book, IsBook(book, P, I, O),
           WellIndexed(book),
           NEW at, at.side \in Sides, InBounds(book, at), NEW id
    PROVE  \A side \in Sides :
             OrdersOn(Erase(book, id, at), side) =
               OrdersOn(book, side)
                 \ (IF side = at.side THEN {OrderAt(book, at)} ELSE {})
<1> DEFINE new == Erase(book, id, at)
           o == OrderAt(book, at)
           last == Len(book.levels[at.side][at.price])
<1>1. /\ \A side \in Sides : \A p, i :
            In(new, side, p, i) <=>
                IF side = at.side /\ p = at.price THEN i \in 1 .. last - 1
                ELSE In(book, side, p, i)
      /\ \A side \in Sides : \A p, i : In(new, side, p, i) =>
            /\ In(book, side, p, Before(at, side, p, i))
            /\ At(new, side, p, i) = At(book, side, p, Before(at, side, p, i))
      /\ NoEmptyLevel(new)
  BY ErasePlaces DEF WellIndexed
<1>2. /\ In(book, at.side, at.price, at.pos)
      /\ o = At(book, at.side, at.price, at.pos)
      /\ last \in Nat /\ at.pos \in 1 .. last
      /\ \A i : In(book, at.side, at.price, i) => i \in 1 .. last
  BY LevelInBook, LenProperties DEF InBounds, OrderAt, In, At
<1> HIDE DEF new, o, last
<1>3. ASSUME NEW side \in Sides, NEW y
      PROVE  y \in OrdersOn(new, side) <=>
               y \in OrdersOn(book, side) /\ ~ (side = at.side /\ y = o)
  <2>1. ASSUME NEW p, NEW i, In(new, side, p, i), y = At(new, side, p, i)
        PROVE  y \in OrdersOn(book, side) /\ ~ (side = at.side /\ y = o)
    <3> DEFINE j == Before(at, side, p, i)
    <3>1. In(book, side, p, j) /\ y = At(book, side, p, j)
      BY <1>1, <2>1
    <3>2. ~ (side = at.side /\ p = at.price /\ j = at.pos)
      BY <1>1, <1>2, <2>1 DEF Before
    <3>3. ~ (side = at.side /\ y = o)
      BY <1>2, <3>1, <3>2, OnePlace
    <3>4. QED
      BY <3>1, <3>3, OrdersOnAt
  <2>2. ASSUME NEW p, NEW j, In(book, side, p, j), y = At(book, side, p, j),
               ~ (side = at.side /\ y = o)
        PROVE  y \in OrdersOn(new, side)
    <3>1. ~ (side = at.side /\ p = at.price /\ j = at.pos)
      BY <1>2, <2>2
    <3>2. PICK i : In(new, side, p, i) /\ Before(at, side, p, i) = j
      <4>1. CASE side = at.side /\ p = at.price
        <5>1. j \in 1 .. last /\ j # at.pos
          BY <1>2, <2>2, <3>1, <4>1
        <5> DEFINE i == IF j < at.pos THEN j ELSE j - 1
        <5>2. i \in 1 .. last - 1 /\ Before(at, side, p, i) = j
          BY <1>2, <4>1, <5>1 DEF Before
        <5>3. QED
          BY <1>1, <4>1, <5>2
      <4>2. CASE ~ (side = at.side /\ p = at.price)
        BY <1>1, <2>2, <4>2 DEF Before
      <4>3. QED
        BY <4>1, <4>2
    <3>3. y = At(new, side, p, i)
      BY <1>1, <2>2, <3>2
    <3>4. QED
      BY <3>2, <3>3, OrdersOnAt
  <2>3. QED
    BY <2>1, <2>2, OrdersOnAt
<1>4. QED
  BY <1>3 DEF new, o

(* A trade of q with the order at `at`. *)
LEMMA OrdersOnFilled ==
    ASSUME NEW book, IsBook(book, Prices, OrderIds, OrderValues),
           WellIndexed(book),
           NEW at, at.side \in Sides, InBounds(book, at), NEW q \in Int
    PROVE  LET o == OrderAt(book, at)
               left == IF Fill(o, q).status = "FILLED" THEN {} ELSE {Fill(o, q)}
           IN  \A side \in Sides :
                 OrdersOn(FillResting(book, at, o.id, Fill(o, q)), side) =
                   IF side = at.side
                   THEN (OrdersOn(book, side) \ {o}) \cup left
                   ELSE OrdersOn(book, side)
<1> DEFINE o == OrderAt(book, at)
           filled == Fill(o, q)
           written == WriteThrough(book, at, filled)
           new == FillResting(book, at, o.id, filled)
<1>1. /\ o \in OrderValues /\ filled \in OrderValues /\ filled.id = o.id
      /\ In(book, at.side, at.price, at.pos)
      /\ o = At(book, at.side, at.price, at.pos)
  BY OrderInBook, FillType DEF InBounds, OrderAt, In, At
<1>2. /\ IsBook(written, Prices, OrderIds, OrderValues)
      /\ WellIndexed(written)
      /\ \A side \in Sides : \A p, i : In(book, side, p, i) =>
            At(written, side, p, i).id = At(book, side, p, i).id
  BY <1>1, WriteThroughIsBook, WriteThroughWellIndexed
<1>3. /\ \A side \in Sides : \A p, i :
            In(written, side, p, i) <=> In(book, side, p, i)
      /\ \A side \in Sides : \A p, i : In(book, side, p, i) =>
            At(written, side, p, i) =
                IF side = at.side /\ p = at.price /\ i = at.pos
                THEN filled ELSE At(book, side, p, i)
  BY WriteThroughPlaces
<1>4. \A side \in Sides : OrdersOn(written, side) =
        IF side = at.side THEN (OrdersOn(book, side) \ {o}) \cup {filled}
        ELSE OrdersOn(book, side)
  BY <1>1, OrdersOnWritten
<1> HIDE DEF o, filled, written
<1>5. CASE filled.status # "FILLED"
  <2>1. new = written
    BY <1>5 DEF FillResting, written
  <2> HIDE DEF new
  <2>2. QED
    BY <1>4, <1>5, <2>1 DEF new, o, filled
<1>6. CASE filled.status = "FILLED"
  <2> DEFINE a == [side |-> at.side, price |-> at.price, pos |-> at.pos]
  <2>1. /\ In(written, at.side, at.price, at.pos)
        /\ At(written, at.side, at.price, at.pos) = filled
    BY <1>1, <1>3
  <2>2. HasOrder(written, o.id) /\ GetOrder(written, o.id) = a
    <3>1. /\ HasOrder(written, At(written, at.side, at.price, at.pos).id)
          /\ GetOrder(written, At(written, at.side, at.price, at.pos).id) = a
      BY <1>2, <2>1, GetOrderFinds
    <3>2. QED
      BY <1>1, <2>1, <3>1
  <2>3. new = Erase(written, o.id, a)
    BY <1>6, <2>2 DEF FillResting, RemoveOrder, written
  <2>4. /\ a.side \in Sides /\ InBounds(written, a)
        /\ OrderAt(written, a) = filled /\ a.side = at.side
    BY <2>1 DEF In, At, InBounds, OrderAt
  <2> HIDE DEF a, new
  <2>5. \A side \in Sides : OrdersOn(new, side) =
          OrdersOn(written, side) \ (IF side = at.side THEN {filled} ELSE {})
    BY <1>2, <2>3, <2>4, OrdersOnErased
  <2>6. filled \notin OrdersOn(book, at.side) \ {o}
    <3>1. o \in OrdersOn(book, at.side)
      BY <1>1, OrdersOnAt
    <3>2. QED
      BY <1>1, <3>1, OneOrderPerId
  <2>7. QED
    BY <1>4, <1>6, <2>5, <2>6 DEF new, o, filled
<1>7. QED
  BY <1>5, <1>6

----------------------------------------------------------------------------
(* The inductive invariant, beside SerialInv.  An order in a book or in    *)
(* the loop is the one that was submitted, with what it has traded; what   *)
(* is left of a snapshot is the other side of the book, in its order, for  *)
(* as long as the incoming order has something left; and a thread about to *)
(* trade has accepted the price.                                           *)

(* The order is one that was submitted, as its trades have left it. *)
Known(o) ==
    /\ o.id \in DOMAIN submitted
    /\ LET s == submitted[o.id]
       IN  /\ o.symbol = s.symbol /\ o.side = s.side /\ o.type = s.type
           /\ o.price = s.price /\ o.quantity = s.quantity
    /\ o.filledQuantity = traded[o.id]

OrdersKnown ==
    /\ \A s \in Symbols : \A side \in Sides :
          \A o \in OrdersOn(books[s], side) : Known(o)
    /\ \A t \in Matching : Known(order[t])

(* A limit order with something left is in the loop or in its book, and no
   order has traded more than it asked for. *)
NoOrderLost ==
    \A id \in DOMAIN submitted :
        LET o == submitted[id]
        IN  /\ traded[id] >= 0
            /\ traded[id] > 0 => traded[id] <= o.quantity
            /\ o.type = "LIMIT" /\ traded[id] < o.quantity =>
                  \/ InMatching(id)
                  \/ \E side \in Sides : \E r \in OrdersOn(books[o.symbol], side) :
                        r.id = id

Uncrossed ==
    \A s \in Symbols :
        \A bid \in OrdersOn(books[s], "BUY"), ask \in OrdersOn(books[s], "SELL") :
            bid.price < ask.price

(* The status of an order says whether something is left of it. *)
Open == {"PENDING", "PARTIALLY_FILLED"}

InLoop(o) == /\ o.status # "CANCELLED"
             /\ o.status = "FILLED" => Remaining(o) <= 0

StatusInv ==
    /\ \A t \in Matching : InLoop(order[t])
    /\ \A s \in Symbols : \A side \in Sides :
          \A o \in OrdersOn(books[s], side) : o.status \in Open

SnapshotInv(t) ==
    t \in Matching /\ Remaining(order[t]) > 0 =>
        /\ { c.order : c \in candidates[t] } =
               OrdersOn(books[order[t].symbol], Opposite(order[t].side))
        /\ \A c, d \in candidates[t] :
              c.order.price = d.order.price =>
                  (c.pos < d.pos <=> c.order.id < d.order.id)

AcceptedInv(t) ==
    pc[t] = "trade" =>
        \A c \in candidates[t] : IsNext(t, c) => PriceAccepted(order[t], c)

(* The trades name orders that were submitted. *)
TapeInv ==
    \A i \in DOMAIN tape : /\ tape[i].buyOrderId \in DOMAIN submitted
                           /\ tape[i].sellOrderId \in DOMAIN submitted

MarketInv ==
    /\ OrdersKnown /\ NoOrderLost /\ Uncrossed /\ StatusInv
    /\ TapeInv /\ LimitsRespected
    /\ \A t \in Threads : SnapshotInv(t) /\ AcceptedInv(t)

----------------------------------------------------------------------------
(* Snapshots. *)

(* A snapshot holds the orders of its side, copies of one price in the order
   they came. *)
LEMMA SnapshotOfBook ==
    ASSUME NEW book, IsBook(book, Prices, OrderIds, OrderValues),
           WellIndexed(book), NEW symbol, AllRest(book, symbol),
           NEW side \in Sides
    PROVE  /\ { c.order : c \in GetOrders(book, side) } = OrdersOn(book, side)
           /\ \A c, d \in GetOrders(book, side) :
                c.order.price = d.order.price =>
                    (c.pos < d.pos <=> c.order.id < d.order.id)
<1>1. ASSUME NEW c \in GetOrders(book, side), NEW d \in GetOrders(book, side),
             c.order.price = d.order.price
      PROVE  c.pos < d.pos <=> c.order.id < d.order.id
  <2>1. PICK p, i : /\ In(book, side, p, i)
                    /\ c = [pos |-> i, order |-> At(book, side, p, i)]
    BY CopiesAt
  <2>2. PICK r, j : /\ In(book, side, r, j)
                    /\ d = [pos |-> j, order |-> At(book, side, r, j)]
    BY CopiesAt
  <2>3. /\ c.order = At(book, side, p, i) /\ c.pos = i
        /\ d.order = At(book, side, r, j) /\ d.pos = j
    BY <2>1, <2>2
  <2>4. p = r
    BY <1>1, <2>1, <2>2, <2>3 DEF AllRest, RestsAt
  <2>5. i \in Nat /\ j \in Nat /\ c.order.id \in Nat /\ d.order.id \in Nat
    BY <2>1, <2>2, <2>3, OrderThere, OrderFields
  <2>6. /\ i < j => c.order.id < d.order.id
        /\ j < i => d.order.id < c.order.id
    BY <2>1, <2>2, <2>3, <2>4 DEF WellIndexed
  <2>7. i = j => c.order.id = d.order.id
    BY <2>3, <2>4
  <2>8. QED
    BY <2>3, <2>5, <2>6, <2>7
<1>2. QED
  BY <1>1 DEF OrdersOn

(* What the invariants say of the book a thread is matching in. *)
LEMMA MatchingBook ==
    ASSUME TypeOK, SerialInv, NEW t \in Matching
    PROVE  /\ t \in Threads /\ order[t] \in OrderValues
           /\ order[t].symbol \in Symbols
           /\ order[t].side \in Sides /\ Opposite(order[t].side) \in Sides
           /\ Opposite(order[t].side) # order[t].side
           /\ Remaining(order[t]) \in Int
           /\ order[t].filledQuantity \in Nat
           /\ order[t].id \in Nat /\ order[t].id <= Len(submitted)
           /\ LET book == books[order[t].symbol] IN
              /\ IsBook(book, Prices, OrderIds, OrderValues)
              /\ WellIndexed(book) /\ AllRest(book, order[t].symbol)
<1>1. t \in Threads /\ order[t] \in OrderValues
  BY DEF Matching, TypeOK
<1>2. /\ order[t].symbol \in Symbols /\ order[t].side \in Sides
      /\ Remaining(order[t]) \in Int /\ order[t].id \in Nat
      /\ order[t].filledQuantity \in Int
  BY <1>1, OrderFields DEF Remaining
<1>3. /\ Opposite(order[t].side) \in Sides
      /\ Opposite(order[t].side) # order[t].side
  BY <1>2 DEF Opposite, Sides
<1>4. order[t].filledQuantity >= 0 /\ order[t].id <= Len(submitted)
  BY <1>1 DEF SerialInv, OrderInv
<1>5. QED
  BY <1>1, <1>2, <1>3, <1>4 DEF TypeOK, SerialInv, BooksInv

(* The next copy is of an order that rests, and of all that rest on its side
   the first one to be served. *)
LEMMA NextIsBest ==
    ASSUME TypeOK, SerialInv, NEW t \in Matching, SnapshotInv(t),
           Remaining(order[t]) > 0, NEW c, IsNext(t, c)
    PROVE  LET side == Opposite(order[t].side)
               there == OrdersOn(books[order[t].symbol], side)
           IN  /\ c \in Copies /\ c.order \in there
               /\ \A d \in candidates[t] : d.order = c.order => d = c
               /\ \A x \in there \ {c.order} :
                    \/ BetterPrice(side, c.order.price, x.price)
                    \/ c.order.price = x.price /\ c.order.id < x.id
<1> DEFINE side == Opposite(order[t].side)
           there == OrdersOn(books[order[t].symbol], side)
<1>1. /\ { d.order : d \in candidates[t] } = there
      /\ \A d, e \in candidates[t] : d.order.price = e.order.price =>
            (d.pos < e.pos <=> d.order.id < e.order.id)
  BY DEF SnapshotInv
<1>2. c \in candidates[t] /\ candidates[t] \subseteq Copies
  BY DEF IsNext, TypeOK, Matching
<1>3. ASSUME NEW d \in candidates[t], d # c
      PROVE  \/ BetterPrice(side, c.order.price, d.order.price)
             \/ c.order.price = d.order.price /\ c.pos < d.pos
  BY <1>3 DEF IsNext, IsFirst
<1>4. ASSUME NEW d \in candidates[t], d.order = c.order
      PROVE  d = c
  <2>1. c \in Copies /\ d \in Copies
    BY <1>2
  <2>2. c.order.id \in Nat /\ c.order.price \in Int
    BY <2>1, OrderFields DEF Copies
  <2>3. ~ (c.pos < d.pos) /\ ~ BetterPrice(side, c.order.price, d.order.price)
    BY <1>1, <1>2, <1>4, <2>2 DEF BetterPrice
  <2>4. QED
    BY <1>3, <2>3
<1>5. ASSUME NEW x \in there, x # c.order
      PROVE  \/ BetterPrice(side, c.order.price, x.price)
             \/ c.order.price = x.price /\ c.order.id < x.id
  <2>1. PICK d \in candidates[t] : x = d.order
    BY <1>1
  <2>2. d # c
    BY <1>5, <2>1
  <2>3. QED
    BY <1>1, <1>2, <1>3, <2>1, <2>2
<1>6. QED
  BY <1>1, <1>2, <1>4, <1>5

----------------------------------------------------------------------------
(* What each step does, in terms of sets of orders. *)

LEMMA SubmitStep ==
    ASSUME TypeOK, NEW t \in Threads, SerialSubmit(t)
    PROVE  \E o \in NewOrders(Len(submitted) + 1) :
             /\ o \in OrderValues /\ o.id = Len(submitted) + 1
             /\ o.filledQuantity = 0 /\ o.status = "PENDING"
             /\ BookFree(o.symbol)
             /\ books' = books /\ tape' = tape
             /\ t \notin Matching /\ Matching' = Matching \cup {t}
             /\ pc'[t] = "match" /\ order'[t] = o
             /\ candidates'[t] = IF Remaining(o) <= 0 THEN {}
                                 ELSE GetOrders(books[o.symbol], Opposite(o.side))
             /\ \A u \in Threads \ {t} : /\ pc'[u] = pc[u] /\ order'[u] = order[u]
                                        /\ candidates'[u] = candidates[u]
             /\ Len(submitted) \in Nat /\ Len(submitted') = Len(submitted) + 1
             /\ DOMAIN submitted = 1 .. Len(submitted)
             /\ DOMAIN submitted' = 1 .. Len(submitted) + 1
             /\ \A id \in DOMAIN submitted : /\ submitted'[id] = submitted[id]
                                            /\ traded'[id] = traded[id]
             /\ submitted'[Len(submitted) + 1] = o
             /\ traded'[Len(submitted) + 1] = 0
<1>1. PICK o \in NewOrders(Len(submitted) + 1) :
          BookFree(o.symbol) /\ SubmitOrder(t, o)
  BY DEF SerialSubmit
<1>2. Len(submitted) \in Nat /\ Len(submitted) + 1 \in OrderIds
      /\ DOMAIN submitted = 1 .. Len(submitted)
  BY LenProperties, ConstantsAssumption DEF TypeOK, SerialSubmit, OrderIds
<1>3. /\ o \in OrderValues /\ o.id = Len(submitted) + 1
      /\ o.filledQuantity = 0 /\ o.status = "PENDING"
  BY <1>2, NewOrderType DEF NewOrders
<1>4. submitted' = Append(submitted, o) /\ traded' = Append(traded, 0)
  BY <1>1 DEF SubmitOrder
<1>5. /\ Len(submitted') = Len(submitted) + 1
      /\ DOMAIN submitted' = 1 .. Len(submitted) + 1
      /\ \A id \in DOMAIN submitted : submitted'[id] = submitted[id]
      /\ submitted'[Len(submitted) + 1] = o
  <2>1. submitted \in Seq(OrderValues)
    BY DEF TypeOK
  <2>2. /\ submitted' \in Seq(OrderValues) /\ Len(submitted') = Len(submitted) + 1
        /\ \A id \in 1 .. Len(submitted) : submitted'[id] = submitted[id]
        /\ submitted'[Len(submitted) + 1] = o
    BY <1>3, <1>4, <2>1, AppendProperties
  <2>3. DOMAIN submitted' = 1 .. Len(submitted')
    BY <2>2, LenProperties
  <2>4. DOMAIN submitted' = 1 .. Len(submitted) + 1
    BY <2>2, <2>3
  <2>5. \A id \in DOMAIN submitted : submitted'[id] = submitted[id]
    BY <1>2, <2>2
  <2>6. QED
    BY <2>2, <2>4, <2>5
<1>6. /\ \A id \in DOMAIN submitted : traded'[id] = traded[id]
      /\ traded'[Len(submitted) + 1] = 0
  <2>1. traded \in Seq(Int) /\ Len(traded) = Len(submitted)
    BY DEF TypeOK
  <2>2. QED
    BY <1>2, <1>4, <2>1, AppendProperties
<1>7. /\ books' = books /\ tape' = tape
      /\ t \notin Matching /\ pc'[t] = "match" /\ order'[t] = o
      /\ candidates'[t] = IF Remaining(o) <= 0 THEN {}
                          ELSE GetOrders(books[o.symbol], Opposite(o.side))
      /\ \A u \in Threads \ {t} :
            pc'[u] = pc[u] /\ order'[u] = order[u] /\ candidates'[u] = candidates[u]
  BY <1>1 DEF SubmitOrder, TypeOK, shared, Matching
<1>8. Matching' = Matching \cup {t}
  BY <1>7 DEF Matching
<1>9. QED
  BY <1>1, <1>2, <1>3, <1>5, <1>6, <1>7, <1>8

(* No copy is passed over: the order behind it is there, and has something
   left. *)
LEMMA ConsiderNextStep ==
    ASSUME TypeOK, SerialInv, NEW t \in Threads, SnapshotInv(t), ConsiderNext(t)
    PROVE  /\ t \in Matching /\ Matching' = Matching
           /\ pc[t] = "match" /\ pc'[t] = "trade"
           /\ Remaining(order[t]) > 0
           /\ \A c : IsNext(t, c) => PriceAccepted(order[t], c)
           /\ \A u \in Threads \ {t} : pc'[u] = pc[u]
           /\ candidates' = candidates /\ order' = order /\ books' = books
           /\ submitted' = submitted /\ traded' = traded /\ tape' = tape
<1>1. PICK c \in candidates[t] :
        /\ IsNext(t, c)
        /\ LET book == books[order[t].symbol]
           IN  IF HasOrder(book, c.order.id) /\ Available(c) > 0
               THEN /\ pc' = [pc EXCEPT ![t] = "trade"]
                    /\ UNCHANGED candidates
               ELSE candidates' = [candidates EXCEPT ![t] = @ \ {c}]
  BY DEF ConsiderNext
<1>2. /\ pc[t] = "match" /\ t \in Matching
      /\ order' = order /\ books' = books
      /\ submitted' = submitted /\ traded' = traded /\ tape' = tape
  BY DEF ConsiderNext, Matching, shared, history
<1>3. Remaining(order[t]) > 0
  BY <1>2, MatchingBook DEF ConsiderNext, LoopEnds
<1>4. \A d : IsNext(t, d) => PriceAccepted(order[t], d)
  BY DEF ConsiderNext, LoopEnds, IsNext
<1>5. HasOrder(books[order[t].symbol], c.order.id) /\ Available(c) > 0
  <2> DEFINE side == Opposite(order[t].side)
             book == books[order[t].symbol]
  <2>1. c.order \in OrdersOn(book, side)
    BY <1>1, <1>2, <1>3, NextIsBest
  <2>2. side \in Sides /\ IsBook(book, Prices, OrderIds, OrderValues)
        /\ WellIndexed(book) /\ AllRest(book, order[t].symbol)
    BY <1>2, MatchingBook
  <2> HIDE DEF side, book
  <2>3. Available(c) > 0
    BY <2>1, <2>2, OrdersOnRest DEF Available, Remaining
  <2>4. HasOrder(book, c.order.id)
    BY <2>1, <2>2, HasOrderOn
  <2>5. QED
    BY <2>3, <2>4 DEF book
<1>6. pc' = [pc EXCEPT ![t] = "trade"] /\ candidates' = candidates
  BY <1>1, <1>5
<1>7. pc'[t] = "trade" /\ \A u \in Threads \ {t} : pc'[u] = pc[u]
  BY <1>6 DEF TypeOK
<1>8. Matching' = Matching
  BY <1>2, <1>7 DEF Matching
<1>9. QED
  BY <1>2, <1>3, <1>4, <1>6, <1>7, <1>8

(* What a trade of q leaves in the book of the resting order r. *)
LeftThere(r, q) == IF Fill(r, q).status = "FILLED" THEN {} ELSE {Fill(r, q)}

(* The two orders of a trade: the one in the loop and the best of the other
   side. *)
LEMMA ExecuteTradeStep ==
    ASSUME TypeOK, SerialInv, NEW t \in Threads,
           SnapshotInv(t), AcceptedInv(t), ExecuteTrade(t)
    PROVE  \E c \in candidates[t] :
             LET o == order[t]
                 r == c.order
                 side == Opposite(o.side)
                 q == Lesser(Remaining(o), Remaining(r))
             IN  /\ t \in Matching /\ Matching' = Matching
                 /\ pc'[t] = "match"
                 /\ \A u \in Threads \ {t} : /\ pc'[u] = pc[u]
                                            /\ order'[u] = order[u]
                                            /\ candidates'[u] = candidates[u]
                 /\ Remaining(o) > 0 /\ Remaining(r) > 0 /\ q \in Nat \ {0}
                 /\ IsNext(t, c) /\ PriceAccepted(o, c)
                 /\ r \in OrdersOn(books[o.symbol], side)
                 /\ order'[t] = Fill(o, q)
                 /\ candidates'[t] = candidates[t] \ {c}
                 /\ \A s \in Symbols : \A sd \in Sides :
                      OrdersOn(books'[s], sd) =
                        IF s = o.symbol /\ sd = side
                        THEN (OrdersOn(books[s], sd) \ {r}) \cup LeftThere(r, q)
                        ELSE OrdersOn(books[s], sd)
                 /\ submitted' = submitted
                 /\ traded' = [id \in DOMAIN traded |->
                       IF id \in {o.id, r.id} THEN traded[id] + q ELSE traded[id]]
                 /\ tape' = Append(tape, CreateTrade(loadedId[t], o, r,
                                                     MatchPrice(o, c), q))
<1> DEFINE o == order[t]
           at == pointer[t]
           book == books[o.symbol]
           resting == OrderAt(book, at)
           side == Opposite(o.side)
           quantity(c) == Lesser(Remaining(o), Available(c))
<1>1. PICK c \in candidates[t] :
        /\ IsNext(t, c)
        /\ order' = [order EXCEPT ![t] = Fill(o, quantity(c))]
        /\ books' = [books EXCEPT ![o.symbol] =
              FillResting(book, at, c.order.id, Fill(resting, quantity(c)))]
        /\ candidates' = [candidates EXCEPT ![t] = @ \ {c}]
        /\ tape' = Append(tape, CreateTrade(loadedId[t], o, resting,
                                            MatchPrice(o, c), quantity(c)))
        /\ traded' = [id \in DOMAIN traded |->
              IF id \in {o.id, resting.id} THEN traded[id] + quantity(c)
              ELSE traded[id]]
  BY DEF ExecuteTrade
<1> DEFINE r == c.order
           q == Lesser(Remaining(o), Remaining(r))
<1>2. quantity(c) = q
  BY DEF Available
<1>3. /\ pc[t] = "trade" /\ t \in Matching /\ submitted' = submitted
      /\ pc' = [pc EXCEPT ![t] = "match"]
  BY DEF ExecuteTrade, Matching
<1>4. /\ Remaining(o) > 0 /\ Remaining(r) > 0
      /\ InBounds(book, at) /\ resting.id = r.id
  BY <1>1, <1>3 DEF SerialInv, PointerInv, Available
<1>5. /\ o \in OrderValues /\ o.symbol \in Symbols /\ side \in Sides
      /\ IsBook(book, Prices, OrderIds, OrderValues) /\ WellIndexed(book)
      /\ Remaining(o) \in Int
  BY <1>3, MatchingBook
<1>6. c \in Copies /\ r \in OrdersOn(book, side)
  BY <1>1, <1>3, <1>4, NextIsBest
<1>7. Remaining(r) \in Int
  BY <1>6, OrderFields DEF Copies, Remaining
<1>8. q \in Nat \ {0}
  BY <1>4, <1>5, <1>7 DEF Lesser
<1>9. at.side \in Sides
  BY <1>3 DEF ExecuteTrade, TypeOK, Addresses, None
<1>10. resting = r /\ at.side = side
  <2>1. In(book, at.side, at.price, at.pos)
        /\ resting = At(book, at.side, at.price, at.pos)
    BY <1>4 DEF InBounds, In, OrderAt, At
  <2>2. resting \in OrdersOn(book, at.side)
    BY <1>9, <2>1, OrdersOnAt
  <2>3. QED
    BY <1>4, <1>5, <1>6, <1>9, <2>2, OneOrderPerId
<1>11. PriceAccepted(o, c)
  BY <1>1, <1>3 DEF AcceptedInv
<1> DEFINE new == FillResting(book, at, resting.id, Fill(resting, q))
<1>12. \A sd \in Sides : OrdersOn(new, sd) =
         IF sd = side THEN (OrdersOn(book, sd) \ {r}) \cup LeftThere(r, q)
         ELSE OrdersOn(book, sd)
  <2> HIDE DEF q, book, at, side
  <2>1. q \in Int
    BY <1>8
  <2>2. \A sd \in Sides : OrdersOn(new, sd) =
          IF sd = at.side
          THEN (OrdersOn(book, sd) \ {resting}) \cup LeftThere(resting, q)
          ELSE OrdersOn(book, sd)
    BY <1>4, <1>5, <1>9, <2>1, OrdersOnFilled DEF LeftThere
  <2> HIDE DEF new, resting
  <2>3. QED
    BY <1>10, <2>2
<1>13. books' = [books EXCEPT ![o.symbol] = new]
  BY <1>1, <1>2, <1>4
<1> HIDE DEF new, q, r
<1>14. \A s \in Symbols : books'[s] = IF s = o.symbol THEN new ELSE books[s]
  <2>1. books = [s \in Symbols |-> books[s]]
    BY DEF TypeOK
  <2>2. QED
    BY <1>5, <1>13, <2>1
<1>15. \A s \in Symbols : \A sd \in Sides :
         OrdersOn(books'[s], sd) =
           IF s = o.symbol /\ sd = side
           THEN (OrdersOn(books[s], sd) \ {r}) \cup LeftThere(r, q)
           ELSE OrdersOn(books[s], sd)
  BY <1>12, <1>14
<1>16. /\ order'[t] = Fill(o, q) /\ candidates'[t] = candidates[t] \ {c}
       /\ pc'[t] = "match"
       /\ \A u \in Threads \ {t} : /\ pc'[u] = pc[u] /\ order'[u] = order[u]
                                  /\ candidates'[u] = candidates[u]
  BY <1>1, <1>2, <1>3 DEF TypeOK
<1>17. Matching' = Matching
  BY <1>3, <1>16 DEF Matching
<1>18. /\ tape' = Append(tape, CreateTrade(loadedId[t], o, r, MatchPrice(o, c), q))
       /\ traded' = [id \in DOMAIN traded |->
            IF id \in {o.id, r.id} THEN traded[id] + q ELSE traded[id]]
  BY <1>1, <1>2, <1>10
<1>19. QED
  BY <1>1, <1>3, <1>4, <1>6, <1>8, <1>11, <1>15, <1>16, <1>17, <1>18 DEF q, r

LEMMA FinishMatchingStep ==
    ASSUME TypeOK, SerialInv, NEW t \in Threads, FinishMatching(t)
    PROVE  LET o == order[t]
               resting == [o EXCEPT !.status = "PENDING"]
           IN  /\ t \in Matching /\ Matching' = Matching \ {t}
               /\ LoopEnds(t)
               /\ pc'[t] = "notify"
               /\ \A u \in Threads \ {t} : /\ pc'[u] = pc[u]
                                          /\ order'[u] = order[u]
                                          /\ candidates'[u] = candidates[u]
               /\ \A s \in Symbols : \A sd \in Sides :
                    OrdersOn(books'[s], sd) =
                      OrdersOn(books[s], sd) \cup
                        (IF Rests(o) /\ s = o.symbol /\ sd = o.side
                         THEN {resting} ELSE {})
               /\ submitted' = submitted /\ traded' = traded /\ tape' = tape
<1> DEFINE o == order[t]
           resting == [o EXCEPT !.status = "PENDING"]
           book == books[o.symbol]
<1>1. /\ pc[t] = "match" /\ t \in Matching /\ LoopEnds(t)
      /\ submitted' = submitted /\ traded' = traded /\ tape' = tape
  BY DEF FinishMatching, Matching, history
<1>2. /\ pc'[t] = "notify"
      /\ \A u \in Threads \ {t} : /\ pc'[u] = pc[u] /\ order'[u] = order[u]
                                 /\ candidates'[u] = candidates[u]
  BY DEF FinishMatching, TypeOK
<1>3. Matching' = Matching \ {t}
  BY <1>1, <1>2 DEF Matching
<1>4. /\ o \in OrderValues /\ o.symbol \in Symbols
      /\ IsBook(book, Prices, OrderIds, OrderValues)
  BY <1>1, MatchingBook
<1>5. \A s \in Symbols : \A sd \in Sides :
        OrdersOn(books'[s], sd) =
          OrdersOn(books[s], sd) \cup
            (IF Rests(o) /\ s = o.symbol /\ sd = o.side THEN {resting} ELSE {})
  <2>1. CASE Rests(o)
    <3>1. books' = [books EXCEPT ![o.symbol] = AddOrder(book, resting)]
      BY <2>1 DEF FinishMatching
    <3>2. resting \in OrderValues /\ resting.side = o.side /\ o.side \in Sides
      <4>1. o \in [id : OrderIds, symbol : Symbols, side : Sides, type : Types,
                   price : Prices \cup {0}, quantity : Quantities,
                   filledQuantity : Int, status : Statuses]
            /\ (o.type = "LIMIT" => o.price \in Prices)
        BY <1>4 DEF OrderValues
      <4>2. QED
        BY <4>1 DEF OrderValues, Statuses
    <3> HIDE DEF resting, book, o
    <3>3. \A sd \in Sides : OrdersOn(AddOrder(book, resting), sd) =
            OrdersOn(book, sd) \cup (IF sd = o.side THEN {resting} ELSE {})
      BY <1>4, <3>2, OrdersOnAdded
    <3>4. \A s \in Symbols : books'[s] =
            IF s = o.symbol THEN AddOrder(book, resting) ELSE books[s]
      <4>1. books = [s \in Symbols |-> books[s]]
        BY DEF TypeOK
      <4>2. QED
        BY <1>4, <3>1, <4>1
    <3>5. QED
      BY <2>1, <3>3, <3>4 DEF book
  <2>2. CASE ~ Rests(o)
    BY <2>2 DEF FinishMatching
  <2>3. QED
    BY <2>1, <2>2
<1>6. QED
  BY <1>1, <1>2, <1>3, <1>5

LEMMA TailStep ==
    ASSUME TypeOK, NEW t \in Threads, NotifyTrade(t) \/ Return(t)
    PROVE  /\ Matching' = Matching /\ t \notin Matching
           /\ \A u \in Threads \ {t} : pc'[u] = pc[u] /\ order'[u] = order[u]
           /\ pc'[t] \notin {"match", "trade"}
           /\ books' = books /\ candidates' = candidates
           /\ submitted' = submitted /\ traded' = traded /\ tape' = tape
<1>1. /\ books' = books /\ candidates' = candidates
      /\ submitted' = submitted /\ traded' = traded /\ tape' = tape
      /\ t \notin Matching /\ pc'[t] \notin {"match", "trade"}
      /\ \A u \in Threads \ {t} : pc'[u] = pc[u] /\ order'[u] = order[u]
  BY DEF NotifyTrade, Return, TypeOK, shared, history, Matching
<1>2. Matching' = Matching
  BY <1>1 DEF Matching
<1>3. QED
  BY <1>1, <1>2

----------------------------------------------------------------------------
(* Facts the steps share. *)

LEMMA FillFields ==
    ASSUME NEW o \in OrderValues, NEW q \in Int
    PROVE  LET new == Fill(o, q) IN
           /\ new.id = o.id /\ new.symbol = o.symbol /\ new.side = o.side
           /\ new.type = o.type /\ new.price = o.price
           /\ new.quantity = o.quantity
           /\ new.filledQuantity = o.filledQuantity + q
           /\ Remaining(new) = Remaining(o) - q
           /\ new.status = IF Remaining(o) <= q THEN "FILLED" ELSE "PARTIALLY_FILLED"
<1> DEFINE new == Fill(o, q)
<1>1. o \in [id : OrderIds, symbol : Symbols, side : Sides, type : Types,
             price : Prices \cup {0}, quantity : Quantities,
             filledQuantity : Int, status : Statuses]
  BY DEF OrderValues
<1>2. /\ new.id = o.id /\ new.symbol = o.symbol /\ new.side = o.side
      /\ new.type = o.type /\ new.price = o.price
      /\ new.quantity = o.quantity
      /\ new.filledQuantity = o.filledQuantity + q
      /\ new.status = IF o.filledQuantity + q >= o.quantity THEN "FILLED"
                      ELSE "PARTIALLY_FILLED"
  BY <1>1 DEF Fill
<1>3. o.quantity \in Int /\ o.filledQuantity \in Int
  BY OrderFields
<1> HIDE DEF new
<1>4. QED
  BY <1>2, <1>3 DEF Remaining, new

LEMMA IdsDefined ==
    ASSUME TypeOK
    PROVE  /\ Len(submitted) \in Nat
           /\ DOMAIN submitted = 1 .. Len(submitted) /\ DOMAIN traded = DOMAIN submitted
           /\ \A id \in DOMAIN submitted : submitted[id] \in OrderValues
                                        /\ traded[id] \in Int
BY LenProperties, ElementOfSeq DEF TypeOK

(* An id belongs to one order, in the loop or in a book. *)
LEMMA IdsApart ==
    ASSUME TypeOK, SerialInv, OrdersKnown, NEW t \in Matching
    PROVE  /\ \A u \in Matching : u # t => order[u].id # order[t].id
           /\ \A s \in Symbols : \A side \in Sides :
                \A x \in OrdersOn(books[s], side) : x.id # order[t].id
<1>1. ASSUME NEW u \in Matching, u # t
      PROVE  order[u].id # order[t].id
  <2>1. order[u].symbol # order[t].symbol
    BY <1>1 DEF SerialInv, AloneInv
  <2>2. /\ order[u].symbol = submitted[order[u].id].symbol
        /\ order[t].symbol = submitted[order[t].id].symbol
    BY DEF OrdersKnown, Known
  <2>3. QED
    BY <2>1, <2>2
<1>2. ASSUME NEW s \in Symbols, NEW side \in Sides,
             NEW x \in OrdersOn(books[s], side)
      PROVE  x.id # order[t].id
  <2>1. /\ IsBook(books[s], Prices, OrderIds, OrderValues)
        /\ AllRest(books[s], s)
    BY DEF TypeOK, SerialInv, BooksInv
  <2>2. x.symbol = s /\ x.id \in Nat
    BY <2>1, OrdersOnRest
  <2>3. /\ order[t].symbol = submitted[order[t].id].symbol
        /\ x.symbol = submitted[x.id].symbol
    BY DEF OrdersKnown, Known
  <2>4. CASE s = order[t].symbol
    <3>1. PICK p, i : In(books[s], side, p, i) /\ x = At(books[s], side, p, i)
      BY OrdersOnAt
    <3>2. Below(books[s], order[t].id) /\ order[t].id \in Nat
      BY <2>4, MatchingBook DEF SerialInv, OrderInv
    <3>3. QED
      BY <2>2, <3>1, <3>2 DEF Below
  <2>5. CASE s # order[t].symbol
    BY <2>2, <2>3, <2>5
  <2>6. QED
    BY <2>4, <2>5
<1>3. QED
  BY <1>1, <1>2

LEMMA OnlyInItsBook ==
    ASSUME TypeOK, SerialInv,
           NEW s1 \in Symbols, NEW d1 \in Sides, NEW x \in OrdersOn(books[s1], d1),
           NEW s2 \in Symbols, NEW d2 \in Sides, NEW y \in OrdersOn(books[s2], d2),
           OrdersKnown, x.id = y.id
    PROVE  x = y /\ s1 = s2 /\ d1 = d2
<1>1. /\ IsBook(books[s1], Prices, OrderIds, OrderValues)
      /\ AllRest(books[s1], s1) /\ WellIndexed(books[s1])
      /\ IsBook(books[s2], Prices, OrderIds, OrderValues)
      /\ AllRest(books[s2], s2)
  BY DEF TypeOK, SerialInv, BooksInv
<1>2. x.symbol = s1 /\ y.symbol = s2
  BY <1>1, OrdersOnRest
<1>3. x.symbol = submitted[x.id].symbol /\ y.symbol = submitted[y.id].symbol
  BY DEF OrdersKnown, Known
<1>4. s1 = s2
  BY <1>2, <1>3
<1>5. QED
  BY <1>1, <1>4, OneOrderPerId

LEMMA InMatchingIs ==
    \A id : InMatching(id) <=> \E u \in Matching : order[u].id = id
BY DEF InMatching, Matching

LEMMA InMatchingIsNext ==
    \A id : InMatching(id)' <=> \E u \in Matching' : order'[u].id = id
BY DEF InMatching, Matching

LEMMA InitMarketInv == TypeOK /\ Init => MarketInv
<1> SUFFICES ASSUME TypeOK, Init PROVE MarketInv
  OBVIOUS
<1>1. Matching = {} /\ \A t \in Threads : pc[t] # "trade"
  BY DEF Init, Matching
<1>2. \A s \in Symbols : \A side \in Sides : OrdersOn(books[s], side) = {}
  <2>1. \A side \in Sides : DOMAIN EmptyBook.levels[side] = {}
    BY DEF EmptyBook, EmptyMap
  <2>2. QED
    BY <2>1 DEF Init, OrdersOn, GetOrders
<1>3. DOMAIN submitted = {} /\ DOMAIN tape = {}
  BY DEF Init
<1>4. "BUY" \in Sides /\ "SELL" \in Sides
  BY DEF Sides
<1>5. OrdersKnown /\ NoOrderLost /\ Uncrossed /\ StatusInv
  BY <1>1, <1>2, <1>3, <1>4 DEF OrdersKnown, NoOrderLost, Uncrossed, StatusInv
<1>6. TapeInv /\ LimitsRespected
  BY <1>3 DEF TapeInv, LimitsRespected
<1>7. \A t \in Threads : SnapshotInv(t) /\ AcceptedInv(t)
  BY <1>1 DEF SnapshotInv, AcceptedInv
<1>8. QED
  BY <1>5, <1>6, <1>7 DEF MarketInv

LEMMA SubmitMarketInv ==
    ASSUME TypeOK, SerialInv, MarketInv, NEW t \in Threads, SerialSubmit(t)
    PROVE  MarketInv'
<1>1. PICK o \in NewOrders(Len(submitted) + 1) :
        /\ o \in OrderValues /\ o.id = Len(submitted) + 1
        /\ o.filledQuantity = 0 /\ o.status = "PENDING"
        /\ BookFree(o.symbol)
        /\ books' = books /\ tape' = tape
        /\ t \notin Matching /\ Matching' = Matching \cup {t}
        /\ pc'[t] = "match" /\ order'[t] = o
        /\ candidates'[t] = IF Remaining(o) <= 0 THEN {}
                            ELSE GetOrders(books[o.symbol], Opposite(o.side))
        /\ \A u \in Threads \ {t} : /\ pc'[u] = pc[u] /\ order'[u] = order[u]
                                   /\ candidates'[u] = candidates[u]
        /\ Len(submitted) \in Nat /\ Len(submitted') = Len(submitted) + 1
        /\ DOMAIN submitted = 1 .. Len(submitted)
        /\ DOMAIN submitted' = 1 .. Len(submitted) + 1
        /\ \A id \in DOMAIN submitted : /\ submitted'[id] = submitted[id]
                                       /\ traded'[id] = traded[id]
        /\ submitted'[Len(submitted) + 1] = o
        /\ traded'[Len(submitted) + 1] = 0
  BY SubmitStep
<1>2. DOMAIN submitted' = DOMAIN submitted \cup {o.id} /\ o.id \notin DOMAIN submitted
  BY <1>1
<1>3. ASSUME NEW u \in Matching
      PROVE  u \in Threads \ {t} /\ order'[u] = order[u] /\ u \in Matching'
  BY <1>1 DEF Matching
<1>4. OrdersKnown'
  <2>1. ASSUME NEW s \in Symbols, NEW side \in Sides,
               NEW x \in OrdersOn(books'[s], side)
        PROVE  Known(x)'
    <3>1. Known(x)
      BY <1>1 DEF MarketInv, OrdersKnown
    <3>2. QED
      BY <1>1, <1>2, <3>1 DEF Known
  <2>2. ASSUME NEW u \in Matching PROVE Known(order[u])'
    <3>1. Known(order[u])
      BY DEF MarketInv, OrdersKnown
    <3>2. QED
      BY <1>1, <1>2, <1>3, <3>1 DEF Known
  <2>3. Known(order[t])'
    BY <1>1, <1>2 DEF Known
  <2>4. QED
    BY <1>1, <2>1, <2>2, <2>3 DEF OrdersKnown
<1>5. NoOrderLost'
  <2>1. ASSUME NEW id \in DOMAIN submitted'
        PROVE  /\ traded'[id] >= 0
               /\ traded'[id] > 0 => traded'[id] <= submitted'[id].quantity
               /\ submitted'[id].type = "LIMIT"
                    /\ traded'[id] < submitted'[id].quantity =>
                      \/ InMatching(id)'
                      \/ \E side \in Sides :
                           \E r \in OrdersOn(books'[submitted'[id].symbol], side) :
                              r.id = id
    <3>1. CASE id = o.id
      BY <1>1, <3>1, InMatchingIsNext
    <3>2. CASE id \in DOMAIN submitted
      <4>1. InMatching(id) => InMatching(id)'
        BY <1>3, InMatchingIs, InMatchingIsNext
      <4>2. QED
        BY <1>1, <3>2, <4>1 DEF MarketInv, NoOrderLost
    <3>3. QED
      BY <1>2, <3>1, <3>2
  <2>2. QED
    BY <2>1 DEF NoOrderLost
<1>6. Uncrossed'
  BY <1>1 DEF MarketInv, Uncrossed
<1>7. StatusInv'
  <2>1. \A u \in Matching' : InLoop(order'[u])
    <3>1. InLoop(o)
      BY <1>1 DEF InLoop
    <3>2. \A u \in Matching : InLoop(order[u])
      BY DEF MarketInv, StatusInv
    <3>3. QED
      BY <1>1, <1>3, <3>1, <3>2
  <2>2. \A s \in Symbols : \A side \in Sides :
          \A x \in OrdersOn(books'[s], side) : x.status \in Open
    BY <1>1 DEF MarketInv, StatusInv
  <2>3. QED
    BY <2>1, <2>2 DEF StatusInv
<1>8. TapeInv' /\ LimitsRespected'
  BY <1>1, <1>2 DEF MarketInv, TapeInv, LimitsRespected
<1>9. SnapshotInv(t)' /\ AcceptedInv(t)'
  <2>1. ASSUME Remaining(o) > 0
        PROVE  /\ { c.order : c \in candidates'[t] } =
                    OrdersOn(books'[o.symbol], Opposite(o.side))
               /\ \A c, d \in candidates'[t] :
                    c.order.price = d.order.price =>
                        (c.pos < d.pos <=> c.order.id < d.order.id)
    <3> DEFINE book == books[o.symbol]
               side == Opposite(o.side)
    <3>1. o.symbol \in Symbols /\ o.side \in Sides /\ Remaining(o) \in Int
      BY <1>1, OrderFields DEF Remaining
    <3>2. /\ IsBook(book, Prices, OrderIds, OrderValues)
          /\ WellIndexed(book) /\ AllRest(book, o.symbol)
      BY <3>1 DEF TypeOK, SerialInv, BooksInv
    <3>3. candidates'[t] = GetOrders(book, side) /\ side \in Sides
      BY <1>1, <2>1, <3>1 DEF Opposite, Sides
    <3> HIDE DEF book, side
    <3>4. /\ { c.order : c \in candidates'[t] } = OrdersOn(book, side)
          /\ \A c, d \in candidates'[t] :
               c.order.price = d.order.price =>
                   (c.pos < d.pos <=> c.order.id < d.order.id)
      BY <3>2, <3>3, SnapshotOfBook
    <3>5. QED
      BY <1>1, <3>4 DEF book, side
  <2>2. QED
    BY <1>1, <2>1 DEF SnapshotInv, AcceptedInv
<1>10. ASSUME NEW u \in Threads \ {t}
       PROVE  SnapshotInv(u)' /\ AcceptedInv(u)'
  <2>1. u \in Matching' <=> u \in Matching
    BY <1>1
  <2>2. SnapshotInv(u) /\ AcceptedInv(u)
    BY DEF MarketInv
  <2>3. QED
    BY <1>1, <2>1, <2>2 DEF SnapshotInv, AcceptedInv, IsNext
<1>11. QED
  BY <1>4, <1>5, <1>6, <1>7, <1>8, <1>9, <1>10 DEF MarketInv

----------------------------------------------------------------------------
(* The steps: the next order, and the end of matching. *)

LEMMA ConsiderNextMarketInv ==
    ASSUME TypeOK, SerialInv, MarketInv, NEW t \in Threads, ConsiderNext(t)
    PROVE  MarketInv'
<1>1. /\ Matching' = Matching /\ pc'[t] = "trade"
      /\ \A c : IsNext(t, c) => PriceAccepted(order[t], c)
      /\ \A u \in Threads \ {t} : pc'[u] = pc[u]
      /\ candidates' = candidates /\ order' = order /\ books' = books
      /\ submitted' = submitted /\ traded' = traded /\ tape' = tape
  BY ConsiderNextStep DEF MarketInv
<1>2. OrdersKnown' /\ Uncrossed' /\ StatusInv' /\ TapeInv' /\ LimitsRespected'
  BY <1>1 DEF MarketInv, OrdersKnown, Known, Uncrossed, StatusInv, TapeInv,
     LimitsRespected
<1>3. NoOrderLost'
  <2>1. \A id : InMatching(id)' <=> InMatching(id)
    BY <1>1, InMatchingIs, InMatchingIsNext
  <2>2. QED
    BY <1>1, <2>1 DEF MarketInv, NoOrderLost
<1>4. ASSUME NEW u \in Threads
      PROVE  SnapshotInv(u)' /\ AcceptedInv(u)'
  <2>1. SnapshotInv(u) /\ AcceptedInv(u)
    BY DEF MarketInv
  <2>2. SnapshotInv(u)'
    BY <1>1, <2>1 DEF SnapshotInv
  <2>3. AcceptedInv(u)'
    BY <1>1, <2>1 DEF AcceptedInv, IsNext
  <2>4. QED
    BY <2>2, <2>3
<1>5. QED
  BY <1>2, <1>3, <1>4 DEF MarketInv

LEMMA TailMarketInv ==
    ASSUME TypeOK, MarketInv, NEW t \in Threads, NotifyTrade(t) \/ Return(t)
    PROVE  MarketInv'
<1>1. /\ Matching' = Matching /\ t \notin Matching
      /\ \A u \in Threads \ {t} : pc'[u] = pc[u] /\ order'[u] = order[u]
      /\ pc'[t] \notin {"match", "trade"}
      /\ books' = books /\ candidates' = candidates
      /\ submitted' = submitted /\ traded' = traded /\ tape' = tape
  BY TailStep
<1>2. \A u \in Matching : u \in Threads \ {t} /\ order'[u] = order[u]
  BY <1>1 DEF Matching
<1>3. OrdersKnown' /\ Uncrossed' /\ StatusInv' /\ TapeInv' /\ LimitsRespected'
  BY <1>1, <1>2 DEF MarketInv, OrdersKnown, Known, Uncrossed, StatusInv,
     TapeInv, LimitsRespected
<1>4. NoOrderLost'
  <2>1. \A id : InMatching(id)' <=> InMatching(id)
    BY <1>1, <1>2, InMatchingIs, InMatchingIsNext
  <2>2. QED
    BY <1>1, <2>1 DEF MarketInv, NoOrderLost
<1>5. ASSUME NEW u \in Threads
      PROVE  SnapshotInv(u)' /\ AcceptedInv(u)'
  <2>1. SnapshotInv(u) /\ AcceptedInv(u)
    BY DEF MarketInv
  <2>2. SnapshotInv(u)'
    BY <1>1, <1>2, <2>1 DEF SnapshotInv
  <2>3. AcceptedInv(u)'
    BY <1>1, <2>1 DEF AcceptedInv, IsNext
  <2>4. QED
    BY <2>2, <2>3
<1>6. QED
  BY <1>3, <1>4, <1>5 DEF MarketInv

(* The loop of a limit order with something left ends when no resting order
   of the other side is within its price. *)
LEMMA NoneAcceptable ==
    ASSUME TypeOK, SerialInv, NEW t \in Matching, SnapshotInv(t), LoopEnds(t),
           Remaining(order[t]) > 0
    PROVE  \A x \in OrdersOn(books[order[t].symbol], Opposite(order[t].side)) :
             /\ order[t].type = "LIMIT"
             /\ BetterPrice(Opposite(order[t].side), order[t].price, x.price)
<1> DEFINE side == Opposite(order[t].side)
           there == OrdersOn(books[order[t].symbol], side)
<1>1. { d.order : d \in candidates[t] } = there
  BY DEF SnapshotInv
<1>2. CASE candidates[t] = {}
  BY <1>1, <1>2
<1>3. CASE candidates[t] # {}
  <2>1. PICK c \in candidates[t] : IsNext(t, c) /\ ~ PriceAccepted(order[t], c)
    <3>1. ~ (Remaining(order[t]) <= 0)
      BY MatchingBook
    <3>2. QED
      BY <1>3, <3>1 DEF LoopEnds
  <2>2. /\ order[t].type = "LIMIT"
        /\ BetterPrice(side, order[t].price, c.order.price)
    BY <2>1 DEF PriceAccepted
  <2>3. /\ c \in Copies /\ c.order \in there
        /\ \A x \in there \ {c.order} :
             \/ BetterPrice(side, c.order.price, x.price)
             \/ c.order.price = x.price /\ c.order.id < x.id
    BY <2>1, NextIsBest
  <2>4. \A x \in there : x.price \in Int
    BY MatchingBook, OrdersOnRest
  <2>5. order[t].price \in Int
    BY MatchingBook, OrderFields
  <2> HIDE DEF there, side
  <2>6. QED
    BY <2>2, <2>3, <2>4, <2>5 DEF BetterPrice, there, side
<1>4. QED
  BY <1>2, <1>3

LEMMA FinishMatchingMarketInv ==
    ASSUME TypeOK, SerialInv, MarketInv, NEW t \in Threads, FinishMatching(t)
    PROVE  MarketInv'
<1> DEFINE o == order[t]
           resting == [o EXCEPT !.status = "PENDING"]
<1>1. /\ t \in Matching /\ Matching' = Matching \ {t}
      /\ LoopEnds(t)
      /\ pc'[t] = "notify"
      /\ \A u \in Threads \ {t} : /\ pc'[u] = pc[u]
                                 /\ order'[u] = order[u]
                                 /\ candidates'[u] = candidates[u]
      /\ \A s \in Symbols : \A sd \in Sides :
           OrdersOn(books'[s], sd) =
             OrdersOn(books[s], sd) \cup
               (IF Rests(o) /\ s = o.symbol /\ sd = o.side
                THEN {resting} ELSE {})
      /\ submitted' = submitted /\ traded' = traded /\ tape' = tape
  BY FinishMatchingStep
<1>2. /\ o \in OrderValues /\ o.symbol \in Symbols /\ o.side \in Sides
      /\ Remaining(o) \in Int /\ o.quantity \in Int /\ o.filledQuantity \in Int
      /\ o.price \in Int
  BY <1>1, MatchingBook, OrderFields
<1>3. /\ resting.id = o.id /\ resting.symbol = o.symbol
      /\ resting.side = o.side /\ resting.type = o.type
      /\ resting.price = o.price /\ resting.quantity = o.quantity
      /\ resting.filledQuantity = o.filledQuantity
      /\ resting.status = "PENDING"
  <2>1. o \in [id : OrderIds, symbol : Symbols, side : Sides, type : Types,
               price : Prices \cup {0}, quantity : Quantities,
               filledQuantity : Int, status : Statuses]
    BY <1>2 DEF OrderValues
  <2>2. QED
    BY <2>1
<1>4. Known(o) /\ InLoop(o)
  BY <1>1 DEF MarketInv, OrdersKnown, StatusInv
<1>5. Rests(o) <=> o.type = "LIMIT" /\ Remaining(o) > 0
  BY <1>2, <1>4 DEF Rests, InLoop, Remaining
<1> HIDE DEF resting, o
<1>6. \A u \in Matching' : u \in Matching /\ u \in Threads \ {t}
                         /\ order'[u] = order[u]
  BY <1>1 DEF Matching
<1>7. \A s \in Symbols : \A sd \in Sides : \A x \in OrdersOn(books'[s], sd) :
        \/ x \in OrdersOn(books[s], sd)
        \/ Rests(o) /\ s = o.symbol /\ sd = o.side /\ x = resting
  BY <1>1
<1>8. OrdersKnown'
  <2>1. Known(resting)
    BY <1>3, <1>4 DEF Known
  <2>2. \A x : Known(x) => Known(x)'
    BY <1>1 DEF Known
  <2>3. \A s \in Symbols : \A sd \in Sides :
          \A x \in OrdersOn(books'[s], sd) : Known(x)
    BY <1>7, <2>1 DEF MarketInv, OrdersKnown
  <2>4. \A u \in Matching' : Known(order'[u])
    BY <1>6 DEF MarketInv, OrdersKnown
  <2>5. QED
    BY <1>1, <2>3, <2>4 DEF OrdersKnown, Known
<1>9. NoOrderLost'
  <2>1. ASSUME NEW id \in DOMAIN submitted
        PROVE  /\ traded[id] >= 0
               /\ traded[id] > 0 => traded[id] <= submitted[id].quantity
               /\ submitted[id].type = "LIMIT"
                    /\ traded[id] < submitted[id].quantity =>
                      \/ InMatching(id)'
                      \/ \E side \in Sides :
                           \E r \in OrdersOn(books'[submitted[id].symbol], side) :
                              r.id = id
    <3>1. CASE id = o.id
      <4>1. ASSUME submitted[id].type = "LIMIT",
                   traded[id] < submitted[id].quantity
            PROVE  Rests(o)
        BY <1>2, <1>4, <1>5, <3>1, <4>1 DEF Known, Remaining
      <4>2. ASSUME Rests(o)
            PROVE  resting \in OrdersOn(books'[submitted[id].symbol], o.side)
        BY <1>1, <1>2, <1>4, <3>1, <4>2 DEF Known
      <4>3. QED
        BY <1>2, <1>3, <3>1, <4>1, <4>2 DEF MarketInv, NoOrderLost
    <3>2. CASE id # o.id
      <4>1. InMatching(id) => InMatching(id)'
        BY <1>1, <1>6, <3>2, InMatchingIs, InMatchingIsNext DEF o
      <4>2. \A s \in Symbols : \A sd \in Sides :
              OrdersOn(books[s], sd) \subseteq OrdersOn(books'[s], sd)
        BY <1>1
      <4>3. submitted[id].symbol \in Symbols
        BY IdsDefined, OrderFields
      <4>4. QED
        BY <4>1, <4>2, <4>3 DEF MarketInv, NoOrderLost
    <3>3. QED
      BY <3>1, <3>2
  <2>2. QED
    BY <1>1, <2>1 DEF NoOrderLost
<1>10. Uncrossed'
  <2>1. ASSUME Rests(o)
        PROVE  \A x \in OrdersOn(books[o.symbol], Opposite(o.side)) :
                 BetterPrice(Opposite(o.side), o.price, x.price)
    BY <1>1, <1>5, <2>1, NoneAcceptable DEF MarketInv, o
  <2>2. ASSUME NEW s \in Symbols,
               NEW bid \in OrdersOn(books'[s], "BUY"),
               NEW ask \in OrdersOn(books'[s], "SELL")
        PROVE  bid.price < ask.price
    <3>1. "BUY" \in Sides /\ "SELL" \in Sides
      BY DEF Sides
    <3>2. CASE bid \in OrdersOn(books[s], "BUY") /\ ask \in OrdersOn(books[s], "SELL")
      BY <3>2 DEF MarketInv, Uncrossed
    <3>3. CASE Rests(o) /\ s = o.symbol /\ o.side = "BUY" /\ bid = resting
               /\ ask \in OrdersOn(books[s], "SELL")
      BY <1>3, <2>1, <3>3 DEF Opposite, BetterPrice
    <3>4. CASE Rests(o) /\ s = o.symbol /\ o.side = "SELL" /\ ask = resting
               /\ bid \in OrdersOn(books[s], "BUY")
      BY <1>3, <2>1, <3>4 DEF Opposite, BetterPrice
    <3>5. QED
      BY <1>7, <3>1, <3>2, <3>3, <3>4
  <2>3. QED
    BY <2>2 DEF Uncrossed
<1>11. StatusInv'
  <2>1. \A s \in Symbols : \A sd \in Sides :
          \A x \in OrdersOn(books'[s], sd) : x.status \in Open
    BY <1>3, <1>7 DEF MarketInv, StatusInv, Open
  <2>2. \A u \in Matching' : InLoop(order'[u])
    BY <1>6 DEF MarketInv, StatusInv
  <2>3. QED
    BY <2>1, <2>2 DEF StatusInv
<1>12. TapeInv' /\ LimitsRespected'
  BY <1>1 DEF MarketInv, TapeInv, LimitsRespected
<1>13. SnapshotInv(t)' /\ AcceptedInv(t)'
  BY <1>1 DEF SnapshotInv, AcceptedInv
<1>14. ASSUME NEW u \in Threads \ {t}
       PROVE  SnapshotInv(u)' /\ AcceptedInv(u)'
  <2>1. SnapshotInv(u) /\ AcceptedInv(u)
    BY DEF MarketInv
  <2>2. ASSUME u \in Matching
        PROVE  OrdersOn(books'[order[u].symbol], Opposite(order[u].side))
                 = OrdersOn(books[order[u].symbol], Opposite(order[u].side))
    <3>1. order[u].symbol # o.symbol
      BY <1>1, <2>2 DEF SerialInv, AloneInv, o
    <3>2. order[u].symbol \in Symbols /\ Opposite(order[u].side) \in Sides
      BY <2>2, MatchingBook
    <3>3. ASSUME NEW s \in Symbols, NEW sd \in Sides, s # o.symbol
          PROVE  OrdersOn(books'[s], sd) = OrdersOn(books[s], sd)
      <4>1. OrdersOn(books'[s], sd) = OrdersOn(books[s], sd) \cup {}
        BY <1>1, <3>3
      <4>2. QED
        BY <4>1
    <3>4. QED
      BY <3>1, <3>2, <3>3
  <2>3. SnapshotInv(u)'
    BY <1>1, <2>1, <2>2 DEF SnapshotInv
  <2>4. AcceptedInv(u)'
    BY <1>1, <2>1 DEF AcceptedInv, IsNext
  <2>5. QED
    BY <2>3, <2>4
<1>15. QED
  BY <1>8, <1>9, <1>10, <1>11, <1>12, <1>13, <1>14 DEF MarketInv

----------------------------------------------------------------------------
(* The steps: a trade. *)

(* The price of a trade keeps to the limits of both orders. *)
LEMMA PriceWithinLimits ==
    ASSUME NEW o, NEW c, o.price \in Int, c.order.price \in Int,
           o.side \in Sides, o.type \in Types, PriceAccepted(o, c)
    PROVE  LET price == MatchPrice(o, c) IN
           /\ o.side = "BUY" => /\ price >= c.order.price
                                /\ o.type = "LIMIT" => price <= o.price
           /\ o.side = "SELL" => /\ price <= c.order.price
                                 /\ o.type = "LIMIT" => price >= o.price
BY DEF PriceAccepted, BetterPrice, Opposite, MatchPrice, Lesser, Sides, Types

LEMMA ExecuteTradeMarketInv ==
    ASSUME TypeOK, SerialInv, MarketInv, NEW t \in Threads, ExecuteTrade(t)
    PROVE  MarketInv'
<1> DEFINE o == order[t]
           side == Opposite(o.side)
<1>1. PICK c \in candidates[t] :
        LET r == c.order
            q == Lesser(Remaining(o), Remaining(r))
        IN  /\ t \in Matching /\ Matching' = Matching
            /\ pc'[t] = "match"
            /\ \A u \in Threads \ {t} : /\ pc'[u] = pc[u]
                                       /\ order'[u] = order[u]
                                       /\ candidates'[u] = candidates[u]
            /\ Remaining(o) > 0 /\ Remaining(r) > 0 /\ q \in Nat \ {0}
            /\ IsNext(t, c) /\ PriceAccepted(o, c)
            /\ r \in OrdersOn(books[o.symbol], side)
            /\ order'[t] = Fill(o, q)
            /\ candidates'[t] = candidates[t] \ {c}
            /\ \A s \in Symbols : \A sd \in Sides :
                 OrdersOn(books'[s], sd) =
                   IF s = o.symbol /\ sd = side
                   THEN (OrdersOn(books[s], sd) \ {r}) \cup LeftThere(r, q)
                   ELSE OrdersOn(books[s], sd)
            /\ submitted' = submitted
            /\ traded' = [id \in DOMAIN traded |->
                  IF id \in {o.id, r.id} THEN traded[id] + q ELSE traded[id]]
            /\ tape' = Append(tape, CreateTrade(loadedId[t], o, r,
                                                MatchPrice(o, c), q))
  BY ExecuteTradeStep DEF MarketInv
<1> DEFINE r == c.order
           q == Lesser(Remaining(o), Remaining(r))
           a == Fill(o, q)
           b == Fill(r, q)
<1>2. /\ o \in OrderValues /\ o.symbol \in Symbols /\ o.side \in Sides
      /\ o.type \in Types
      /\ side \in Sides /\ side # o.side
      /\ Remaining(o) \in Int /\ o.quantity \in Int /\ o.filledQuantity \in Int
      /\ o.price \in Int /\ o.id \in Nat
  BY <1>1, MatchingBook, OrderFields
<1>3. /\ r \in OrderValues /\ r.side = side /\ r.symbol = o.symbol
      /\ r.type = "LIMIT" /\ r.quantity \in Int /\ r.filledQuantity \in Int
      /\ r.price \in Int /\ r.id \in Nat /\ Remaining(r) \in Int
  <2>1. /\ IsBook(books[o.symbol], Prices, OrderIds, OrderValues)
        /\ AllRest(books[o.symbol], o.symbol)
    BY <1>1, MatchingBook
  <2>2. /\ r \in OrderValues
        /\ r.side = side /\ r.symbol = o.symbol /\ r.type = "LIMIT"
        /\ r.filledQuantity \in Nat /\ r.quantity \in Int
        /\ r.price \in Int /\ r.id \in Nat
    BY <1>1, <1>2, <2>1, OrdersOnRest
  <2>3. QED
    BY <2>2 DEF Remaining
<1>4. /\ q \in Nat /\ q > 0 /\ q <= Remaining(o) /\ q <= Remaining(r)
      /\ q = Remaining(o) \/ q = Remaining(r)
  BY <1>1, <1>2, <1>3 DEF Lesser
<1>5. /\ a.id = o.id /\ a.symbol = o.symbol /\ a.side = o.side
      /\ a.type = o.type /\ a.price = o.price
      /\ a.quantity = o.quantity
      /\ a.filledQuantity = o.filledQuantity + q
      /\ Remaining(a) = Remaining(o) - q
      /\ a.status = IF Remaining(o) <= q THEN "FILLED" ELSE "PARTIALLY_FILLED"
  BY <1>2, <1>4, FillFields
<1>6. /\ b.id = r.id /\ b.symbol = r.symbol /\ b.side = r.side
      /\ b.type = r.type /\ b.price = r.price
      /\ b.quantity = r.quantity
      /\ b.filledQuantity = r.filledQuantity + q
      /\ Remaining(b) = Remaining(r) - q
      /\ b.status = IF Remaining(r) <= q THEN "FILLED" ELSE "PARTIALLY_FILLED"
  BY <1>3, <1>4, FillFields
<1>7. LeftThere(r, q) = IF Remaining(r) <= q THEN {} ELSE {b}
  BY <1>6 DEF LeftThere
<1>8. /\ pc'[t] = "match" /\ order'[t] = a /\ candidates'[t] = candidates[t] \ {c}
      /\ submitted' = submitted
      /\ traded' = [id \in DOMAIN traded |->
            IF id \in {o.id, r.id} THEN traded[id] + q ELSE traded[id]]
      /\ tape' = Append(tape, CreateTrade(loadedId[t], o, r, MatchPrice(o, c), q))
      /\ IsNext(t, c) /\ PriceAccepted(o, c)
      /\ Remaining(o) > 0 /\ Remaining(r) > 0
      /\ t \in Matching /\ Matching' = Matching
      /\ r \in OrdersOn(books[o.symbol], side)
  BY <1>1
<1> HIDE DEF o, side, r, q, a, b
<1>9. ASSUME NEW s \in Symbols, NEW sd \in Sides
      PROVE  OrdersOn(books'[s], sd) =
               IF s = o.symbol /\ sd = side
               THEN (OrdersOn(books[s], sd) \ {r}) \cup LeftThere(r, q)
               ELSE OrdersOn(books[s], sd)
  BY <1>1 DEF r, q
<1>10. ASSUME NEW s \in Symbols, NEW sd \in Sides, NEW x \in OrdersOn(books'[s], sd)
       PROVE  \/ x \in OrdersOn(books[s], sd) /\ x # r
              \/ /\ s = o.symbol /\ sd = side /\ x = b
                 /\ ~ (Remaining(r) <= q)
  <2>1. CASE s = o.symbol /\ sd = side
    <3>1. x \in (OrdersOn(books[s], sd) \ {r}) \cup LeftThere(r, q)
      BY <1>9, <2>1
    <3>2. QED
      BY <1>7, <2>1, <3>1
  <2>2. CASE ~ (s = o.symbol /\ sd = side)
    <3>1. x \in OrdersOn(books[s], sd)
      BY <1>9, <2>2
    <3>2. r \in OrdersOn(books[o.symbol], side)
      BY <1>8
    <3>3. OrdersKnown
      BY DEF MarketInv
    <3>4. x.id = r.id => s = o.symbol /\ sd = side
      BY <1>2, <3>1, <3>2, <3>3, OnlyInItsBook
    <3>5. x # r
      BY <2>2, <3>4
    <3>6. QED
      BY <3>1, <3>5
  <2>3. QED
    BY <2>1, <2>2
<1>11. ASSUME NEW s \in Symbols, NEW sd \in Sides,
              NEW x \in OrdersOn(books[s], sd), x # r
       PROVE  x \in OrdersOn(books'[s], sd) /\ x.id \notin {o.id, r.id}
  <2>1. x \in OrdersOn(books'[s], sd)
    BY <1>9, <1>11
  <2>2. x.id # o.id
    BY <1>8, IdsApart DEF MarketInv, o
  <2>3. x.id # r.id
    BY <1>2, <1>8, <1>11, OnlyInItsBook DEF MarketInv
  <2>4. QED
    BY <2>1, <2>2, <2>3
<1>12. ASSUME NEW u \in Matching, u # t
       PROVE  /\ u \in Threads \ {t} /\ order'[u] = order[u]
              /\ order[u].id \notin {o.id, r.id} /\ order[u].symbol # o.symbol
  <2>1. u \in Threads \ {t} /\ order'[u] = order[u]
    BY <1>1, <1>12 DEF Matching
  <2>2. order[u].id # o.id
    BY <1>8, <1>12, IdsApart DEF MarketInv, o
  <2>3. order[u].id # r.id
    BY <1>2, <1>8, IdsApart DEF MarketInv
  <2>4. order[u].symbol # o.symbol
    BY <1>8, <1>12 DEF SerialInv, AloneInv, o
  <2>5. QED
    BY <2>1, <2>2, <2>3, <2>4
<1>13. o.id # r.id
  BY <1>2, <1>8, IdsApart DEF MarketInv, o
<1>14. Known(o) /\ Known(r)
  BY <1>2, <1>8 DEF MarketInv, OrdersKnown, o
<1>15. /\ o.id \in DOMAIN submitted /\ r.id \in DOMAIN submitted
       /\ DOMAIN traded = DOMAIN submitted /\ DOMAIN traded' = DOMAIN submitted
       /\ traded'[o.id] = traded[o.id] + q /\ traded'[r.id] = traded[r.id] + q
       /\ \A id \in DOMAIN submitted : id \notin {o.id, r.id} =>
             traded'[id] = traded[id]
       /\ \A id \in DOMAIN submitted : traded[id] \in Int
  BY <1>8, <1>14, IdsDefined DEF Known
<1>16. OrdersKnown'
  <2>1. \A x : Known(x) /\ x.id \notin {o.id, r.id} => Known(x)'
    BY <1>8, <1>15 DEF Known
  <2>2. \A x \in {a, b} : Known(x)'
    BY <1>5, <1>6, <1>8, <1>14, <1>15 DEF Known
  <2>3. ASSUME NEW s \in Symbols, NEW sd \in Sides, NEW x \in OrdersOn(books'[s], sd)
        PROVE  Known(x)'
    <3>1. CASE x = b
      BY <2>2, <3>1
    <3>2. CASE x \in OrdersOn(books[s], sd) /\ x # r
      BY <1>11, <2>1, <3>2 DEF MarketInv, OrdersKnown
    <3>3. QED
      BY <1>10, <3>1, <3>2
  <2>4. ASSUME NEW u \in Matching, NEW x, x = order'[u]
        PROVE  Known(x)'
    <3>1. CASE u = t
      BY <1>8, <2>2, <2>4, <3>1
    <3>2. CASE u # t
      <4>1. x = order[u] /\ x.id \notin {o.id, r.id}
        BY <1>12, <2>4, <3>2
      <4>2. Known(x)
        BY <4>1 DEF MarketInv, OrdersKnown
      <4>3. QED
        BY <2>1, <4>1, <4>2
    <3>3. QED
      BY <3>1, <3>2
  <2>5. QED
    BY <1>8, <2>3, <2>4 DEF OrdersKnown, Known
<1>17. NoOrderLost'
  <2>1. ASSUME NEW id \in DOMAIN submitted
        PROVE  /\ traded'[id] >= 0
               /\ traded'[id] > 0 => traded'[id] <= submitted[id].quantity
               /\ submitted[id].type = "LIMIT"
                    /\ traded'[id] < submitted[id].quantity =>
                      \/ InMatching(id)'
                      \/ \E sd \in Sides :
                           \E x \in OrdersOn(books'[submitted[id].symbol], sd) :
                              x.id = id
    <3>1. /\ traded[id] >= 0 /\ traded[id] \in Int
          /\ traded[id] > 0 => traded[id] <= submitted[id].quantity
          /\ submitted[id].type = "LIMIT"
               /\ traded[id] < submitted[id].quantity =>
                 \/ InMatching(id)
                 \/ \E sd \in Sides :
                      \E x \in OrdersOn(books[submitted[id].symbol], sd) :
                         x.id = id
      BY <1>15 DEF MarketInv, NoOrderLost
    <3>2. CASE id = o.id
      <4>1. InMatching(id)'
        BY <1>5, <1>8, <3>2, InMatchingIsNext
      <4>2. traded'[id] >= 0 /\ traded'[id] <= submitted[id].quantity
        BY <1>2, <1>4, <1>14, <1>15, <3>1, <3>2 DEF Known, Remaining
      <4>3. QED
        BY <4>1, <4>2
    <3>3. CASE id = r.id
      <4>1. traded'[id] >= 0 /\ traded'[id] <= submitted[id].quantity
        BY <1>3, <1>4, <1>14, <1>15, <3>1, <3>3 DEF Known, Remaining
      <4>2. ASSUME traded'[id] < submitted[id].quantity
            PROVE  b \in OrdersOn(books'[submitted[id].symbol], side)
        <5>1. ~ (Remaining(r) <= q)
          BY <1>3, <1>4, <1>14, <1>15, <3>3, <4>2 DEF Known, Remaining
        <5>2. b \in LeftThere(r, q)
          BY <1>7, <5>1
        <5>3. submitted[id].symbol = o.symbol
          BY <1>3, <1>14, <3>3 DEF Known
        <5>4. QED
          BY <1>2, <1>9, <5>2, <5>3
      <4>3. QED
        BY <1>2, <1>6, <3>3, <4>1, <4>2
    <3>4. CASE id \notin {o.id, r.id}
      <4>1. traded'[id] = traded[id]
        BY <1>15, <3>4
      <4>2. InMatching(id) => InMatching(id)'
        BY <1>8, <1>12, <3>4, InMatchingIs, InMatchingIsNext DEF o
      <4>3. \A sd \in Sides :
              \A x \in OrdersOn(books[submitted[id].symbol], sd) : x.id = id =>
                 x \in OrdersOn(books'[submitted[id].symbol], sd)
        <5>1. submitted[id].symbol \in Symbols
          BY IdsDefined, OrderFields
        <5>2. QED
          BY <1>11, <3>4, <5>1
      <4>4. QED
        BY <3>1, <4>1, <4>2, <4>3
    <3>5. QED
      BY <3>2, <3>3, <3>4
  <2>2. QED
    BY <1>8, <2>1 DEF NoOrderLost
<1>18. Uncrossed'
  <2>1. ASSUME NEW s \in Symbols, NEW sd \in Sides, NEW x \in OrdersOn(books'[s], sd)
        PROVE  \E y \in OrdersOn(books[s], sd) : y.price = x.price
    BY <1>6, <1>8, <1>10
  <2>2. "BUY" \in Sides /\ "SELL" \in Sides
    BY DEF Sides
  <2>3. ASSUME NEW s \in Symbols, NEW bid \in OrdersOn(books'[s], "BUY"),
               NEW ask \in OrdersOn(books'[s], "SELL")
        PROVE  bid.price < ask.price
    <3>1. PICK x \in OrdersOn(books[s], "BUY") : x.price = bid.price
      BY <2>1, <2>2
    <3>2. PICK y \in OrdersOn(books[s], "SELL") : y.price = ask.price
      BY <2>1, <2>2
    <3>3. x.price < y.price
      BY DEF MarketInv, Uncrossed
    <3>4. QED
      BY <3>1, <3>2, <3>3
  <2>4. QED
    BY <2>3 DEF Uncrossed
<1>19. StatusInv'
  <2>1. \A s \in Symbols : \A sd \in Sides :
          \A x \in OrdersOn(books'[s], sd) : x.status \in Open
    BY <1>6, <1>10 DEF MarketInv, StatusInv, Open
  <2>2. InLoop(a)
    BY <1>2, <1>4, <1>5 DEF InLoop
  <2>3. \A u \in Matching' : InLoop(order'[u])
    BY <1>8, <1>12, <2>2 DEF MarketInv, StatusInv
  <2>4. QED
    BY <2>1, <2>3 DEF StatusInv
<1>20. TapeInv' /\ LimitsRespected'
  <2> DEFINE trade == CreateTrade(loadedId[t], o, r, MatchPrice(o, c), q)
  <2>1. /\ trade.buyOrderId = IF o.side = "BUY" THEN o.id ELSE r.id
        /\ trade.sellOrderId = IF o.side = "BUY" THEN r.id ELSE o.id
        /\ trade.price = MatchPrice(o, c)
    BY DEF CreateTrade
  <2>2. /\ submitted[o.id].type = o.type /\ submitted[o.id].price = o.price
        /\ submitted[r.id].type = "LIMIT" /\ submitted[r.id].price = r.price
    BY <1>3, <1>14 DEF Known
  <2>3. LET price == MatchPrice(o, c) IN
        /\ o.side = "BUY" => /\ price >= r.price
                             /\ o.type = "LIMIT" => price <= o.price
        /\ o.side = "SELL" => /\ price <= r.price
                              /\ o.type = "LIMIT" => price >= o.price
    <3>1. c.order.price \in Int
      BY <1>3 DEF r
    <3> HIDE DEF trade
    <3>2. QED
      BY <1>2, <1>8, <3>1, PriceWithinLimits DEF r
  <2> DEFINE Fits(x) ==
               /\ x.buyOrderId \in DOMAIN submitted
               /\ x.sellOrderId \in DOMAIN submitted
               /\ submitted[x.buyOrderId].type = "LIMIT" =>
                    x.price <= submitted[x.buyOrderId].price
               /\ submitted[x.sellOrderId].type = "LIMIT" =>
                    x.price >= submitted[x.sellOrderId].price
  <2> HIDE DEF trade
  <2>4. Fits(trade)
    BY <1>2, <1>15, <2>1, <2>2, <2>3 DEF Sides
  <2>5. \A i \in DOMAIN tape : Fits(tape[i])
    BY DEF MarketInv, TapeInv, LimitsRespected
  <2>6. /\ DOMAIN tape' = 1 .. Len(tape) + 1 /\ DOMAIN tape = 1 .. Len(tape)
        /\ Len(tape) \in Nat
        /\ \A i \in 1 .. Len(tape) : tape'[i] = tape[i]
        /\ tape'[Len(tape) + 1] = trade
    <3>1. tape \in Seq(Trades)
      BY DEF TypeOK
    <3>2. DOMAIN tape = 1 .. Len(tape) /\ Len(tape) \in Nat
      BY <3>1, LenProperties
    <3>3. tape' = Append(tape, trade)
      BY <1>8 DEF trade
    <3>4. QED
      BY <3>1, <3>2, <3>3
  <2> HIDE DEF Fits
  <2>7. \A i \in DOMAIN tape' : Fits(tape'[i])
    BY <2>4, <2>5, <2>6
  <2>8. QED
    BY <1>8, <2>7 DEF TapeInv, LimitsRespected, Fits
<1>21. SnapshotInv(t)' /\ AcceptedInv(t)'
  <2>1. ASSUME Remaining(a) > 0
        PROVE  /\ { d.order : d \in candidates'[t] } =
                    OrdersOn(books'[a.symbol], Opposite(a.side))
               /\ \A d, e \in candidates'[t] : d.order.price = e.order.price =>
                    (d.pos < e.pos <=> d.order.id < e.order.id)
    <3>1. Remaining(r) <= q
      BY <1>2, <1>3, <1>4, <1>5, <2>1
    <3>2. OrdersOn(books'[o.symbol], side) = OrdersOn(books[o.symbol], side) \ {r}
      <4>1. OrdersOn(books'[o.symbol], side)
              = (OrdersOn(books[o.symbol], side) \ {r}) \cup {}
        BY <1>2, <1>7, <1>9, <3>1
      <4>2. QED
        BY <4>1
    <3>3. SnapshotInv(t)
      BY DEF MarketInv
    <3>4. /\ { d.order : d \in candidates[t] } = OrdersOn(books[o.symbol], side)
          /\ \A d, e \in candidates[t] : d.order.price = e.order.price =>
               (d.pos < e.pos <=> d.order.id < e.order.id)
      BY <1>8, <3>3 DEF SnapshotInv, o, side
    <3>5. \A d \in candidates[t] : d.order = r => d = c
      BY <1>8, <3>3, NextIsBest DEF r, o
    <3>6. { d.order : d \in candidates[t] \ {c} }
            = { d.order : d \in candidates[t] } \ {r}
      BY <3>5 DEF r
    <3>7. a.symbol = o.symbol /\ Opposite(a.side) = side
      BY <1>5 DEF side
    <3>8. QED
      BY <1>8, <3>2, <3>4, <3>6, <3>7
  <2>2. SnapshotInv(t)'
    BY <1>8, <2>1 DEF SnapshotInv, Remaining
  <2>3. AcceptedInv(t)'
    BY <1>8 DEF AcceptedInv
  <2>4. QED
    BY <2>2, <2>3
<1>22. ASSUME NEW u \in Threads \ {t}
       PROVE  SnapshotInv(u)' /\ AcceptedInv(u)'
  <2>1. SnapshotInv(u) /\ AcceptedInv(u)
    BY DEF MarketInv
  <2>2. pc'[u] = pc[u] /\ order'[u] = order[u] /\ candidates'[u] = candidates[u]
    BY <1>1
  <2>3. ASSUME u \in Matching
        PROVE  OrdersOn(books'[order[u].symbol], Opposite(order[u].side))
                 = OrdersOn(books[order[u].symbol], Opposite(order[u].side))
    <3>1. order[u].symbol # o.symbol
      BY <1>12, <2>3
    <3>2. order[u].symbol \in Symbols /\ Opposite(order[u].side) \in Sides
      BY <2>3, MatchingBook
    <3>3. QED
      BY <1>9, <3>1, <3>2
  <2>4. SnapshotInv(u)'
    BY <1>8, <2>1, <2>2, <2>3 DEF SnapshotInv
  <2>5. AcceptedInv(u)'
    BY <2>1, <2>2 DEF AcceptedInv, IsNext
  <2>6. QED
    BY <2>4, <2>5
<1>23. QED
  BY <1>16, <1>17, <1>18, <1>19, <1>20, <1>21, <1>22 DEF MarketInv

----------------------------------------------------------------------------
(* The invariant holds; what it says of each trade. *)

LEMMA NextMarketInv ==
    TypeOK /\ SerialInv /\ MarketInv /\ [SerialNext]_vars => MarketInv'
<1> SUFFICES ASSUME TypeOK, SerialInv, MarketInv, [SerialNext]_vars
             PROVE  MarketInv'
  OBVIOUS
<1>1. ASSUME NEW t \in Threads, SerialSubmit(t) PROVE MarketInv'
  BY <1>1, SubmitMarketInv
<1>2. ASSUME NEW t \in Threads, Continue(t) PROVE MarketInv'
  BY <1>2, ConsiderNextMarketInv, ExecuteTradeMarketInv,
     FinishMatchingMarketInv, TailMarketInv DEF Continue, Loop
<1>3. CASE UNCHANGED vars
  <2>1. /\ books' = books /\ pc' = pc /\ order' = order
        /\ candidates' = candidates /\ submitted' = submitted
        /\ traded' = traded /\ tape' = tape /\ Matching' = Matching
    BY <1>3 DEF vars, shared, local, history, Matching
  <2>2. OrdersKnown' /\ Uncrossed' /\ StatusInv' /\ TapeInv' /\ LimitsRespected'
    BY <2>1 DEF MarketInv, OrdersKnown, Known, Uncrossed, StatusInv, TapeInv,
       LimitsRespected
  <2>3. NoOrderLost'
    BY <2>1 DEF MarketInv, NoOrderLost, InMatching
  <2>4. \A t \in Threads : SnapshotInv(t)' /\ AcceptedInv(t)'
    BY <2>1 DEF MarketInv, SnapshotInv, AcceptedInv, IsNext
  <2>5. QED
    BY <2>2, <2>3, <2>4 DEF MarketInv
<1>4. QED
  BY <1>1, <1>2, <1>3 DEF SerialNext

LEMMA MarketInvHolds == SerialSpec => [](TypeOK /\ SerialInv /\ MarketInv)
<1>1. TypeOK /\ [SerialNext]_vars => TypeOK'
  BY NextTypeOK, SerialStep
<1>2. SerialSpec => Init /\ [][SerialNext]_vars
  BY DEF SerialSpec
<1>3. QED
  BY <1>1, <1>2, InitTypeOK, InitSerialInv, InitMarketInv, NextSerialInv,
     NextMarketInv, PTL

LEMMA BookIsItsTrades == TypeOK /\ SerialInv /\ MarketInv => BookMatchesTrades
<1> SUFFICES ASSUME TypeOK, SerialInv, MarketInv, NEW id \in DOMAIN submitted
             PROVE  LET o == submitted[id]
                        book == books[o.symbol]
                    IN  /\ traded[id] > 0 => traded[id] <= o.quantity
                        /\ ~ InMatching(id) =>
                             /\ HasOrder(book, id) <=>
                                    o.type = "LIMIT" /\ traded[id] < o.quantity
                             /\ HasOrder(book, id) =>
                                    OrderAt(book, GetOrder(book, id)).filledQuantity
                                        = traded[id]
  BY DEF BookMatchesTrades
<1> DEFINE o == submitted[id]
           book == books[o.symbol]
<1>1. /\ traded[id] > 0 => traded[id] <= o.quantity
      /\ o.type = "LIMIT" /\ traded[id] < o.quantity =>
            \/ InMatching(id)
            \/ \E side \in Sides : \E r \in OrdersOn(book, side) : r.id = id
  BY DEF MarketInv, NoOrderLost
<1>2. o \in OrderValues /\ o.symbol \in Symbols
  BY IdsDefined, OrderFields
<1>3. /\ IsBook(book, Prices, OrderIds, OrderValues)
      /\ WellIndexed(book) /\ AllRest(book, o.symbol)
  BY <1>2 DEF TypeOK, SerialInv, BooksInv
<1>4. ASSUME NEW side \in Sides, NEW x \in OrdersOn(book, side), x.id = id
      PROVE  /\ o.type = "LIMIT" /\ traded[id] < o.quantity
             /\ OrderAt(book, GetOrder(book, id)).filledQuantity = traded[id]
  <2>1. Known(x)
    BY <1>2 DEF MarketInv, OrdersKnown
  <2>2. x.type = "LIMIT" /\ x.filledQuantity < x.quantity
    BY <1>3, OrdersOnRest
  <2>3. OrderAt(book, GetOrder(book, id)) = x
    BY <1>3, <1>4, HasOrderOn
  <2>4. /\ o.type = x.type /\ o.quantity = x.quantity
        /\ x.filledQuantity = traded[id]
    BY <1>4, <2>1 DEF Known
  <2>5. QED
    BY <2>2, <2>3, <2>4
<1>5. HasOrder(book, id) <=>
        \E side \in Sides : \E x \in OrdersOn(book, side) : x.id = id
  BY <1>3, HasOrderOn
<1> HIDE DEF o, book
<1>6. QED
  BY <1>1, <1>4, <1>5 DEF o, book

LEMMA TradeIsBest ==
    TypeOK /\ SerialInv /\ MarketInv /\ [SerialNext]_vars =>
      (tape' # tape =>
        LET trade == tape'[Len(tape')]
            book == books[trade.symbol]
            parties == {trade.buyOrderId, trade.sellOrderId}
        IN  \E side \in Sides : \E o \in OrdersOn(book, side) :
                /\ o.id \in parties
                /\ \A other \in OrdersOn(book, side) \ {o} :
                     \/ BetterPrice(side, o.price, other.price)
                     \/ o.price = other.price /\ o.id < other.id)
<1> DEFINE trade == tape'[Len(tape')]
           book == books[trade.symbol]
           parties == {trade.buyOrderId, trade.sellOrderId}
           Best(side, o) ==
                /\ o.id \in parties
                /\ \A other \in OrdersOn(book, side) \ {o} :
                     \/ BetterPrice(side, o.price, other.price)
                     \/ o.price = other.price /\ o.id < other.id
<1> SUFFICES ASSUME TypeOK, SerialInv, MarketInv, [SerialNext]_vars,
                    tape' # tape
             PROVE  \E side \in Sides : \E o \in OrdersOn(book, side) :
                       Best(side, o)
  OBVIOUS
<1>1. PICK t \in Threads : ExecuteTrade(t)
  <2>1. \A t \in Threads : SerialSubmit(t) \/ ConsiderNext(t)
           \/ FinishMatching(t) \/ NotifyTrade(t) \/ Return(t) => tape' = tape
    BY DEF SerialSubmit, SubmitOrder, ConsiderNext, FinishMatching,
       NotifyTrade, Return, history
  <2>2. UNCHANGED vars => tape' = tape
    BY DEF vars, history
  <2>3. QED
    BY <2>1, <2>2 DEF SerialNext, Continue, Loop
<1> DEFINE o == order[t]
           side == Opposite(o.side)
<1>2. PICK c \in candidates[t] :
        LET r == c.order
            q == Lesser(Remaining(o), Remaining(r))
        IN  /\ t \in Matching /\ Remaining(o) > 0 /\ IsNext(t, c)
            /\ r \in OrdersOn(books[o.symbol], side)
            /\ tape' = Append(tape, CreateTrade(loadedId[t], o, r,
                                                MatchPrice(o, c), q))
  BY <1>1, ExecuteTradeStep DEF MarketInv
<1> DEFINE r == c.order
           q == Lesser(Remaining(o), Remaining(r))
           made == CreateTrade(loadedId[t], o, r, MatchPrice(o, c), q)
<1>3. trade = made
  <2>1. tape \in Seq(Trades) /\ tape' = Append(tape, made)
    BY <1>2 DEF TypeOK
  <2> HIDE DEF made
  <2>2. QED
    BY <2>1
<1>4. made.symbol = o.symbol /\ r.id \in {made.buyOrderId, made.sellOrderId}
  BY DEF CreateTrade
<1>5. \A other \in OrdersOn(books[o.symbol], side) \ {r} :
        \/ BetterPrice(side, r.price, other.price)
        \/ r.price = other.price /\ r.id < other.id
  BY <1>2, NextIsBest DEF MarketInv
<1>6. side \in Sides /\ r \in OrdersOn(books[o.symbol], side)
  BY <1>2, MatchingBook
<1> HIDE DEF trade, made, o, r, side
<1>7. QED
  BY <1>3, <1>4, <1>5, <1>6

(* Every order, resting, being matched or gone, has filled exactly the sum of
   the trades on the tape that name it (fill is called on both orders of every
   trade and nowhere else): no trade is lost and none is applied twice,
   however orders for different symbols interleave. *)
THEOREM TradesExplainBooks == SerialSpec => []BookMatchesTrades
BY MarketInvHolds, BookIsItsTrades, PTL

(* An order goes to rest only when no order on the other side is acceptable
   to it, so that no buyer is left resting at a price a resting seller asks:
   the loop of matchLimitOrder and matchMarketOrder never stops too early. *)
THEOREM BooksStayUncrossed == SerialSpec => []NotCrossed
<1>1. MarketInv => NotCrossed
  BY DEF MarketInv, Uncrossed, NotCrossed
<1>2. QED
  BY <1>1, MarketInvHolds, PTL

(* No trade on the tape is at a price worse than the limit of either order,
   whichever of the two prices executeTrade takes. *)
THEOREM TradesRespectLimits == SerialSpec => []LimitsRespected
<1>1. MarketInv => LimitsRespected
  BY DEF MarketInv
<1>2. QED
  BY <1>1, MarketInvHolds, PTL

(* Every trade is with the best order on the other side: the best price, and
   among the orders at that price the earliest; although the loop walks a
   snapshot taken before its first trade and addOrder has put orders at
   levels that removeOrder shifts. *)
THEOREM BestOrderTrades == SerialSpec => PriceTimePriority
<1>1. SerialSpec => [][SerialNext]_vars
  BY DEF SerialSpec
<1>2. QED
  BY <1>1, MarketInvHolds, TradeIsBest, PTL DEF PriceTimePriority

----------------------------------------------------------------------------
(* The engine as an Exchange: orders arrive and leave. *)

LEMMA LeftOfFields ==
    \A o : /\ LeftOf(o).id = o.id /\ LeftOf(o).symbol = o.symbol
           /\ LeftOf(o).side = o.side /\ LeftOf(o).type = o.type
           /\ LeftOf(o).price = o.price /\ LeftOf(o).quantity = Remaining(o)
BY DEF LeftOf

LEMMA RestingOrdersAre ==
    \A x : x \in RestingOrders <=>
             \E s \in Symbols : \E side \in Sides :
                \E o \in OrdersOn(books[s], side) : x = LeftOf(o)
BY DEF RestingOrders

LEMMA RestingOrdersNext ==
    \A x : x \in RestingOrders' <=>
             \E s \in Symbols : \E side \in Sides :
                \E o \in OrdersOn(books'[s], side) : x = LeftOf(o)
BY DEF RestingOrders

LEMMA IncomingOrdersAre ==
    /\ \A x : x \in IncomingOrders <=> \E t \in Matching : x = LeftOf(order[t])
    /\ \A x : x \in IncomingOrders' <=> \E t \in Matching' : x = LeftOf(order'[t])
BY DEF IncomingOrders

(* What a trade leaves of an order. *)
LEMMA ReducedIs ==
    ASSUME NEW o \in OrderValues, NEW q \in Int
    PROVE  Market!Reduced(LeftOf(o), q) = LeftOf(Fill(o, q))
<1>1. /\ Fill(o, q).id = o.id /\ Fill(o, q).symbol = o.symbol
      /\ Fill(o, q).side = o.side /\ Fill(o, q).type = o.type
      /\ Fill(o, q).price = o.price
      /\ Remaining(Fill(o, q)) = Remaining(o) - q
  BY FillFields
<1>2. QED
  BY <1>1 DEF Market!Reduced, LeftOf

(* The orders an incoming order may meet are those on the other side of the
   book of its symbol. *)
LEMMA AgainstIs ==
    ASSUME TypeOK, SerialInv, NEW t \in Matching
    PROVE  \A x : x \in Market!Against(LeftOf(order[t])) <=>
             \E o \in OrdersOn(books[order[t].symbol], Opposite(order[t].side)) :
                x = LeftOf(o)
<1> DEFINE o == order[t]
           side == Opposite(o.side)
<1>1. o.symbol \in Symbols /\ o.side \in Sides /\ side \in Sides /\ side # o.side
  BY MatchingBook
<1>2. \A sd \in Sides : sd # o.side => sd = side
  BY <1>1 DEF Opposite, Sides
<1>3. ASSUME NEW s \in Symbols, NEW sd \in Sides, NEW y \in OrdersOn(books[s], sd)
      PROVE  y.symbol = s /\ y.side = sd
  <2>1. /\ IsBook(books[s], Prices, OrderIds, OrderValues)
        /\ AllRest(books[s], s)
    BY DEF TypeOK, SerialInv, BooksInv
  <2>2. QED
    BY <2>1, OrdersOnRest
<1> HIDE DEF o, side
<1>4. ASSUME NEW x
      PROVE  x \in Market!Against(LeftOf(o)) <=>
               \E y \in OrdersOn(books[o.symbol], side) : x = LeftOf(y)
  <2>1. x \in Market!Against(LeftOf(o)) <=>
          x \in RestingOrders /\ x.symbol = o.symbol /\ x.side # o.side
    BY LeftOfFields DEF Market!Against
  <2>2. ASSUME NEW s \in Symbols, NEW sd \in Sides,
               NEW y \in OrdersOn(books[s], sd), x = LeftOf(y),
               x.symbol = o.symbol, x.side # o.side
        PROVE  y \in OrdersOn(books[o.symbol], side)
    <3>1. s = o.symbol /\ sd # o.side
      BY <1>3, <2>2, LeftOfFields
    <3>2. QED
      BY <1>2, <3>1
  <2>3. ASSUME NEW y \in OrdersOn(books[o.symbol], side), x = LeftOf(y)
        PROVE  x \in RestingOrders /\ x.symbol = o.symbol /\ x.side # o.side
    <3>1. y.symbol = o.symbol /\ y.side = side
      BY <1>1, <1>3
    <3>2. QED
      BY <1>1, <2>3, <3>1, RestingOrdersAre, LeftOfFields
  <2>4. QED
    BY <2>1, <2>2, <2>3, RestingOrdersAre
<1>5. QED
  BY <1>4 DEF o, side

LEMMA InitMarket == TypeOK /\ Init => Market!Init
<1> SUFFICES ASSUME TypeOK, Init PROVE Market!Init
  OBVIOUS
<1>1. Matching = {}
  BY DEF Init, Matching
<1>2. \A s \in Symbols : \A side \in Sides : OrdersOn(books[s], side) = {}
  <2>1. \A side \in Sides : DOMAIN EmptyBook.levels[side] = {}
    BY DEF EmptyBook, EmptyMap
  <2>2. QED
    BY <2>1 DEF Init, OrdersOn, GetOrders
<1>3. RestingOrders = {} /\ IncomingOrders = {}
  <2>1. \A x : x \notin RestingOrders /\ x \notin IncomingOrders
    BY <1>1, <1>2, RestingOrdersAre, IncomingOrdersAre
  <2>2. QED
    BY <2>1
<1>4. Len(submitted) = 0 /\ Executions = << >>
  BY DEF Init, Executions
<1>5. QED
  BY <1>3, <1>4 DEF Market!Init

LEMMA SubmitArrives ==
    ASSUME TypeOK, SerialInv, NEW t \in Threads, SerialSubmit(t)
    PROVE  Market!Next
<1>1. PICK o \in NewOrders(Len(submitted) + 1) :
        /\ o \in OrderValues /\ o.id = Len(submitted) + 1
        /\ o.filledQuantity = 0 /\ o.status = "PENDING"
        /\ BookFree(o.symbol)
        /\ books' = books /\ tape' = tape
        /\ t \notin Matching /\ Matching' = Matching \cup {t}
        /\ pc'[t] = "match" /\ order'[t] = o
        /\ candidates'[t] = IF Remaining(o) <= 0 THEN {}
                            ELSE GetOrders(books[o.symbol], Opposite(o.side))
        /\ \A u \in Threads \ {t} : /\ pc'[u] = pc[u] /\ order'[u] = order[u]
                                   /\ candidates'[u] = candidates[u]
        /\ Len(submitted) \in Nat /\ Len(submitted') = Len(submitted) + 1
        /\ DOMAIN submitted = 1 .. Len(submitted)
        /\ DOMAIN submitted' = 1 .. Len(submitted) + 1
        /\ \A id \in DOMAIN submitted : /\ submitted'[id] = submitted[id]
                                       /\ traded'[id] = traded[id]
        /\ submitted'[Len(submitted) + 1] = o
        /\ traded'[Len(submitted) + 1] = 0
  BY SubmitStep
<1>2. LeftOf(o) \in Market!NewOrder
  <2>1. /\ o.id = Len(submitted) + 1 /\ o.symbol \in Symbols
        /\ o.side \in {"BUY", "SELL"} /\ o.type \in {"LIMIT", "MARKET"}
        /\ o.price \in Prices \cup {0} /\ o.quantity \in Quantities
        /\ Remaining(o) = o.quantity
    <3>1. /\ o.symbol \in Symbols /\ o.side \in Sides /\ o.type \in Types
          /\ o.price \in Prices \cup {0} /\ o.quantity \in Quantities
          /\ o.quantity \in Int
      BY <1>1, OrderFields
    <3>2. QED
      BY <1>1, <3>1 DEF Sides, Types, Remaining
  <2>2. QED
    BY <2>1 DEF LeftOf, Market!NewOrder
<1>3. \A u \in Matching : u \in Threads \ {t} /\ order'[u] = order[u]
                        /\ order[u].symbol # o.symbol
  BY <1>1 DEF Matching, BookFree
<1>4. IncomingOrders' = IncomingOrders \cup {LeftOf(o)}
  <2>1. \A x : x \in IncomingOrders' <=> x \in IncomingOrders \/ x = LeftOf(o)
    BY <1>1, <1>3, IncomingOrdersAre
  <2>2. QED
    BY <2>1
<1>5. \A x \in IncomingOrders : x.symbol # LeftOf(o).symbol
  BY <1>3, IncomingOrdersAre, LeftOfFields
<1>6. RestingOrders' = RestingOrders /\ Executions' = Executions
  BY <1>1 DEF RestingOrders, Executions
<1>7. Market!Arrive(LeftOf(o))
  BY <1>1, <1>4, <1>5, <1>6 DEF Market!Arrive
<1>8. QED
  BY <1>2, <1>7 DEF Market!Next

LEMMA FinishFinishes ==
    ASSUME TypeOK, SerialInv, MarketInv, NEW t \in Threads, FinishMatching(t)
    PROVE  Market!Next
<1> DEFINE o == order[t]
           resting == [o EXCEPT !.status = "PENDING"]
           side == Opposite(o.side)
<1>1. /\ t \in Matching /\ Matching' = Matching \ {t}
      /\ LoopEnds(t)
      /\ pc'[t] = "notify"
      /\ \A u \in Threads \ {t} : /\ pc'[u] = pc[u]
                                 /\ order'[u] = order[u]
                                 /\ candidates'[u] = candidates[u]
      /\ \A s \in Symbols : \A sd \in Sides :
           OrdersOn(books'[s], sd) =
             OrdersOn(books[s], sd) \cup
               (IF Rests(o) /\ s = o.symbol /\ sd = o.side
                THEN {resting} ELSE {})
      /\ submitted' = submitted /\ traded' = traded /\ tape' = tape
  BY FinishMatchingStep
<1>2. /\ o \in OrderValues /\ o.symbol \in Symbols /\ o.side \in Sides
      /\ Remaining(o) \in Int /\ o.quantity \in Int /\ o.filledQuantity \in Int
      /\ o.price \in Int
  BY <1>1, MatchingBook, OrderFields
<1>3. LeftOf(resting) = LeftOf(o)
  <2>1. o \in [id : OrderIds, symbol : Symbols, side : Sides, type : Types,
               price : Prices \cup {0}, quantity : Quantities,
               filledQuantity : Int, status : Statuses]
    BY <1>2 DEF OrderValues
  <2>2. QED
    BY <2>1 DEF LeftOf, Remaining
<1>4. Rests(o) <=> o.type = "LIMIT" /\ Remaining(o) > 0
  <2>1. InLoop(o)
    BY <1>1 DEF MarketInv, StatusInv
  <2>2. QED
    BY <1>2, <2>1 DEF Rests, InLoop, Remaining
<1>5. \A u \in Matching \ {t} : order'[u] = order[u] /\ order[u].id # o.id
  BY <1>1, IdsApart DEF MarketInv, Matching
<1> HIDE DEF resting, o, side
<1>6. LeftOf(o) \in IncomingOrders
  BY <1>1, IncomingOrdersAre DEF o
<1>7. IncomingOrders' = IncomingOrders \ {LeftOf(o)}
  <2>1. \A x : x \in IncomingOrders' <=> x \in IncomingOrders /\ x # LeftOf(o)
    BY <1>1, <1>5, IncomingOrdersAre, LeftOfFields DEF o
  <2>2. QED
    BY <2>1
<1>8. RestingOrders' = RestingOrders
          \cup { r \in Market!Left({LeftOf(o)}) : r.type = "LIMIT" }
  <2>1. \A x : x \in { r \in Market!Left({LeftOf(o)}) : r.type = "LIMIT" } <=>
               x = LeftOf(o) /\ Rests(o)
    BY <1>4, LeftOfFields DEF Market!Left
  <2>2. \A x : x \in RestingOrders' <=>
               x \in RestingOrders \/ (x = LeftOf(o) /\ Rests(o))
    <3>1. \A s \in Symbols : \A sd \in Sides : \A y :
            y \in OrdersOn(books'[s], sd) <=>
              \/ y \in OrdersOn(books[s], sd)
              \/ Rests(o) /\ s = o.symbol /\ sd = o.side /\ y = resting
      BY <1>1
    <3>2. ASSUME NEW x
          PROVE  x \in RestingOrders' <=>
                    x \in RestingOrders \/ (x = LeftOf(o) /\ Rests(o))
      <4>1. x \in RestingOrders' =>
              x \in RestingOrders \/ (x = LeftOf(o) /\ Rests(o))
        BY <1>3, <3>1, RestingOrdersAre, RestingOrdersNext
      <4>2. x \in RestingOrders => x \in RestingOrders'
        BY <3>1, RestingOrdersAre, RestingOrdersNext
      <4>3. Rests(o) => LeftOf(resting) \in RestingOrders'
        BY <1>2, <3>1, RestingOrdersNext
      <4>4. QED
        BY <1>3, <4>1, <4>2, <4>3
    <3>3. QED
      BY <3>2
  <2>3. QED
    BY <2>1, <2>2
<1>9. LeftOf(o).quantity <= 0
      \/ \A r \in Market!Against(LeftOf(o)) : ~ Market!CanTrade(LeftOf(o), r)
  <2>1. CASE Remaining(o) <= 0
    BY <2>1, LeftOfFields
  <2>2. CASE Remaining(o) > 0
    <3>1. \A x \in OrdersOn(books[o.symbol], side) :
             /\ o.type = "LIMIT" /\ BetterPrice(side, o.price, x.price)
             /\ x.price \in Int
      <4>1. SnapshotInv(t)
        BY DEF MarketInv
      <4>2. \A x \in OrdersOn(books[o.symbol], side) :
             /\ o.type = "LIMIT" /\ BetterPrice(side, o.price, x.price)
        BY <1>1, <2>2, <4>1, NoneAcceptable DEF o, side
      <4>3. \A x \in OrdersOn(books[o.symbol], side) : x.price \in Int
        BY <1>1, MatchingBook, OrdersOnRest DEF o, side
      <4>4. QED
        BY <4>2, <4>3
    <3>2. \A r \in Market!Against(LeftOf(o)) :
             \E x \in OrdersOn(books[o.symbol], side) : r = LeftOf(x)
      BY <1>1, AgainstIs DEF o, side
    <3>3. \A r \in Market!Against(LeftOf(o)) :
             /\ o.type = "LIMIT" /\ BetterPrice(side, o.price, r.price)
             /\ r.price \in Int
      BY <3>1, <3>2, LeftOfFields
    <3>4. ASSUME NEW r \in Market!Against(LeftOf(o))
          PROVE  ~ Market!CanTrade(LeftOf(o), r)
      <4>1. /\ o.type = "LIMIT" /\ BetterPrice(side, o.price, r.price)
            /\ r.price \in Int
        BY <3>3
      <4>2. QED
        BY <1>2, <4>1, LeftOfFields
           DEF Market!CanTrade, BetterPrice, Opposite, Sides, side
    <3>5. QED
      BY <3>4
  <2>3. QED
    BY <1>2, <2>1, <2>2
<1>10. Len(submitted)' = Len(submitted) /\ Executions' = Executions
  BY <1>1 DEF Executions
<1>11. Market!Finish(LeftOf(o))
  BY <1>7, <1>8, <1>9, <1>10 DEF Market!Finish
<1>12. QED
  BY <1>6, <1>11 DEF Market!Next, Market!Match

----------------------------------------------------------------------------
(* The engine as an Exchange: orders trade. *)

(* A trade appended to the tape is one execution more. *)
LEMMA OneExecutionMore ==
    ASSUME TypeOK, NEW trade, tape' = Append(tape, trade)
    PROVE  Executions' = Append(Executions,
             [buy |-> trade.buyOrderId, sell |-> trade.sellOrderId,
              symbol |-> trade.symbol, price |-> trade.price,
              quantity |-> trade.quantity])
<1> DEFINE Row(x) == [buy |-> x.buyOrderId, sell |-> x.sellOrderId,
                       symbol |-> x.symbol, price |-> x.price,
                       quantity |-> x.quantity]
           n == Len(tape)
           S == { Row(tape[i]) : i \in 1 .. n } \cup {Row(trade)}
<1>1. n \in Nat /\ DOMAIN tape = 1 .. n
  BY LenProperties DEF TypeOK
<1>2. /\ DOMAIN tape' = 1 .. n + 1
      /\ \A i \in 1 .. n : tape'[i] = tape[i]
      /\ tape'[n + 1] = trade
  <2>1. tape \in Seq(Trades)
    BY DEF TypeOK
  <2>2. QED
    BY <1>1, <2>1
<1>3. /\ Executions = [i \in 1 .. n |-> Row(tape[i])]
      /\ Executions' = [i \in 1 .. n + 1 |-> Row(tape'[i])]
  BY <1>1, <1>2 DEF Executions
<1> HIDE DEF Row, n
<1>4. Executions \in [1 .. n -> S]
  BY <1>3
<1>5. Executions \in Seq(S) /\ Len(Executions) = n
  <2>1. Executions \in Seq(S)
    BY <1>1, <1>4, SeqDef
  <2>2. QED
    BY <1>1, <1>3, <2>1, LenProperties
<1>6. Row(trade) \in S
  OBVIOUS
<1> HIDE DEF S
<1> DEFINE more == Append(Executions, Row(trade))
<1>7. /\ more \in Seq(S) /\ Len(more) = n + 1
      /\ \A i \in 1 .. n : more[i] = Executions[i]
      /\ more[n + 1] = Row(trade)
  BY <1>5, <1>6, AppendProperties
<1>8. more = [i \in 1 .. n + 1 |-> more[i]]
  BY <1>7, LenProperties
<1> HIDE DEF more
<1>9. \A i \in 1 .. n + 1 : more[i] = Row(tape'[i])
  BY <1>1, <1>2, <1>3, <1>7
<1>10. Executions' = more
  BY <1>3, <1>8, <1>9
<1>11. QED
  BY <1>10 DEF more, Row

LEMMA ExecuteTrades ==
    ASSUME TypeOK, SerialInv, MarketInv, NEW t \in Threads, ExecuteTrade(t)
    PROVE  Market!Next
<1> DEFINE o == order[t]
           side == Opposite(o.side)
<1>1. PICK c \in candidates[t] :
        LET r == c.order
            q == Lesser(Remaining(o), Remaining(r))
        IN  /\ t \in Matching /\ Matching' = Matching
            /\ pc'[t] = "match"
            /\ \A u \in Threads \ {t} : /\ pc'[u] = pc[u]
                                       /\ order'[u] = order[u]
                                       /\ candidates'[u] = candidates[u]
            /\ Remaining(o) > 0 /\ Remaining(r) > 0 /\ q \in Nat \ {0}
            /\ IsNext(t, c) /\ PriceAccepted(o, c)
            /\ r \in OrdersOn(books[o.symbol], side)
            /\ order'[t] = Fill(o, q)
            /\ candidates'[t] = candidates[t] \ {c}
            /\ \A s \in Symbols : \A sd \in Sides :
                 OrdersOn(books'[s], sd) =
                   IF s = o.symbol /\ sd = side
                   THEN (OrdersOn(books[s], sd) \ {r}) \cup LeftThere(r, q)
                   ELSE OrdersOn(books[s], sd)
            /\ submitted' = submitted
            /\ traded' = [id \in DOMAIN traded |->
                  IF id \in {o.id, r.id} THEN traded[id] + q ELSE traded[id]]
            /\ tape' = Append(tape, CreateTrade(loadedId[t], o, r,
                                                MatchPrice(o, c), q))
  BY ExecuteTradeStep DEF MarketInv
<1> DEFINE r == c.order
           q == Lesser(Remaining(o), Remaining(r))
<1>2. /\ o \in OrderValues /\ o.symbol \in Symbols /\ o.side \in Sides
      /\ o.type \in Types /\ side \in Sides
      /\ Remaining(o) \in Int /\ o.price \in Int
  BY <1>1, MatchingBook, OrderFields
<1>3. /\ r \in OrderValues /\ r.price \in Int /\ Remaining(r) \in Int
      /\ r.symbol = o.symbol /\ r.side = side
  <2>1. /\ IsBook(books[o.symbol], Prices, OrderIds, OrderValues)
        /\ AllRest(books[o.symbol], o.symbol)
    BY <1>1, MatchingBook
  <2>2. /\ r \in OrderValues /\ r.price \in Int
        /\ r.filledQuantity \in Nat /\ r.quantity \in Int
        /\ r.symbol = o.symbol /\ r.side = side
    BY <1>1, <1>2, <2>1, OrdersOnRest
  <2>3. QED
    BY <2>2 DEF Remaining
<1> HIDE DEF o, side
<1>4. /\ Remaining(o) > 0
      /\ IsNext(t, c) /\ PriceAccepted(o, c)
      /\ r \in OrdersOn(books[o.symbol], side)
      /\ order'[t] = Fill(o, q)
      /\ t \in Matching /\ Matching' = Matching
      /\ submitted' = submitted
      /\ tape' = Append(tape, CreateTrade(loadedId[t], o, r, MatchPrice(o, c), q))
      /\ \A s \in Symbols : \A sd \in Sides :
           OrdersOn(books'[s], sd) =
             IF s = o.symbol /\ sd = side
             THEN (OrdersOn(books[s], sd) \ {r}) \cup LeftThere(r, q)
             ELSE OrdersOn(books[s], sd)
  BY <1>1
<1>5. q \in Int
  BY <1>1
<1>6. \A u \in Matching \ {t} :
        u \in Threads \ {t} /\ order'[u] = order[u] /\ order[u].id # o.id
  BY <1>1, IdsApart DEF MarketInv, Matching, o
<1>7. q = IF LeftOf(o).quantity <= LeftOf(r).quantity THEN LeftOf(o).quantity
          ELSE LeftOf(r).quantity
  BY LeftOfFields DEF Lesser
<1> HIDE DEF q, r
<1>8. \A x : x \in Market!Against(LeftOf(o)) <=>
         \E y \in OrdersOn(books[o.symbol], side) : x = LeftOf(y)
  BY <1>4, AgainstIs DEF o, side
<1>9. LeftOf(r) \in Market!Against(LeftOf(o))
  BY <1>4, <1>8
<1>10. Market!IsBest(LeftOf(r), LeftOf(o))
  <2>1. \A y \in OrdersOn(books[o.symbol], side) \ {r} :
           \/ BetterPrice(side, r.price, y.price)
           \/ r.price = y.price /\ r.id < y.id
    BY <1>4, NextIsBest DEF MarketInv, o, r, side
  <2>2. ASSUME NEW y \in OrdersOn(books[o.symbol], side) \ {r}
        PROVE  Market!Before(LeftOf(r), LeftOf(y))
    BY <1>2, <1>3, <2>1, LeftOfFields DEF Market!Before, BetterPrice, Sides
  <2>3. QED
    BY <1>8, <2>2 DEF Market!IsBest
<1>11. Market!CanTrade(LeftOf(o), LeftOf(r))
  BY <1>2, <1>3, <1>4, LeftOfFields
     DEF PriceAccepted, BetterPrice, Opposite, Sides, Types, Market!CanTrade,
         r, side
<1>12. LeftOf(o) \in IncomingOrders
  BY <1>4, IncomingOrdersAre DEF o
<1>13. IncomingOrders' = (IncomingOrders \ {LeftOf(o)})
                             \cup {Market!Reduced(LeftOf(o), q)}
  <2>1. Market!Reduced(LeftOf(o), q) = LeftOf(order'[t])
    BY <1>2, <1>4, <1>5, ReducedIs
  <2>2. ASSUME NEW x
        PROVE  x \in IncomingOrders' <=>
                 \/ x \in IncomingOrders /\ x # LeftOf(o)
                 \/ x = LeftOf(order'[t])
    <3>1. ASSUME NEW u \in Matching, u # t
          PROVE  LeftOf(order'[u]) = LeftOf(order[u]) /\ LeftOf(order[u]) # LeftOf(o)
      BY <1>6, <3>1, LeftOfFields
    <3>2. QED
      BY <1>4, <3>1, IncomingOrdersAre DEF o
  <2>3. QED
    BY <2>1, <2>2
<1>14. RestingOrders' = (RestingOrders \ {LeftOf(r)})
                            \cup Market!Left({Market!Reduced(LeftOf(r), q)})
  <2>1. Market!Reduced(LeftOf(r), q) = LeftOf(Fill(r, q))
    BY <1>3, <1>5, ReducedIs
  <2>2. /\ Remaining(Fill(r, q)) = Remaining(r) - q
        /\ Fill(r, q).status = IF Remaining(r) <= q THEN "FILLED"
                               ELSE "PARTIALLY_FILLED"
    BY <1>3, <1>5, FillFields
  <2>3. \A x : x \in Market!Left({LeftOf(Fill(r, q))}) <=>
               \E y \in LeftThere(r, q) : x = LeftOf(y)
    <3>1. LeftThere(r, q) = IF Remaining(r) <= q THEN {} ELSE {Fill(r, q)}
      BY <2>2 DEF LeftThere
    <3>2. Market!Left({LeftOf(Fill(r, q))})
            = IF Remaining(r) <= q THEN {} ELSE {LeftOf(Fill(r, q))}
      BY <1>3, <1>5, <2>2, LeftOfFields DEF Market!Left
    <3>3. QED
      BY <3>1, <3>2
  <2>4. ASSUME NEW s \in Symbols, NEW sd \in Sides,
               NEW y \in OrdersOn(books[s], sd), LeftOf(y) = LeftOf(r)
        PROVE  y = r
    <3>1. y.id = r.id /\ OrdersKnown
      BY <2>4, LeftOfFields DEF MarketInv
    <3>2. QED
      BY <1>2, <1>4, <3>1, OnlyInItsBook
  <2>5. ASSUME NEW x \in RestingOrders'
        PROVE  \/ x \in RestingOrders /\ x # LeftOf(r)
               \/ \E y \in LeftThere(r, q) : x = LeftOf(y)
    <3>1. PICK s \in Symbols, sd \in Sides :
            \E y \in OrdersOn(books'[s], sd) : x = LeftOf(y)
      BY RestingOrdersNext
    <3>2. PICK y \in OrdersOn(books'[s], sd) : x = LeftOf(y)
      BY <3>1
    <3>3. CASE s = o.symbol /\ sd = side
      <4>1. y \in (OrdersOn(books[s], sd) \ {r}) \cup LeftThere(r, q)
        BY <1>4, <3>3
      <4>2. QED
        BY <2>4, <3>2, <4>1, RestingOrdersAre
    <3>4. CASE ~ (s = o.symbol /\ sd = side)
      <4>1. y \in OrdersOn(books[s], sd)
        BY <1>4, <3>4
      <4>2. r \in OrdersOn(books[o.symbol], side) /\ OrdersKnown
        BY <1>4 DEF MarketInv
      <4>3. y.id = r.id => s = o.symbol /\ sd = side
        BY <1>2, <4>1, <4>2, OnlyInItsBook
      <4>4. y # r
        BY <3>4, <4>3
      <4>5. QED
        BY <2>4, <3>2, <4>1, <4>4, RestingOrdersAre
    <3>5. QED
      BY <3>3, <3>4
  <2>6. ASSUME NEW x \in RestingOrders, x # LeftOf(r)
        PROVE  x \in RestingOrders'
    <3>1. PICK s \in Symbols, sd \in Sides :
            \E y \in OrdersOn(books[s], sd) : x = LeftOf(y)
      BY RestingOrdersAre
    <3>2. PICK y \in OrdersOn(books[s], sd) : x = LeftOf(y)
      BY <3>1
    <3>3. y # r
      BY <2>6, <3>2
    <3>4. y \in OrdersOn(books'[s], sd)
      BY <1>4, <3>3
    <3>5. QED
      BY <3>2, <3>4, RestingOrdersNext
  <2>7. ASSUME NEW y \in LeftThere(r, q)
        PROVE  LeftOf(y) \in RestingOrders'
    <3>1. y \in OrdersOn(books'[o.symbol], side)
      BY <1>2, <1>4
    <3>2. QED
      BY <1>2, <3>1, RestingOrdersNext
  <2>8. QED
    BY <2>1, <2>3, <2>5, <2>6, <2>7
<1>15. Executions' = Append(Executions,
         [buy |-> IF LeftOf(o).side = "BUY" THEN LeftOf(o).id ELSE LeftOf(r).id,
          sell |-> IF LeftOf(o).side = "BUY" THEN LeftOf(r).id ELSE LeftOf(o).id,
          symbol |-> LeftOf(o).symbol,
          price |-> Market!Price(LeftOf(o), LeftOf(r)),
          quantity |-> q])
  <2> DEFINE trade == CreateTrade(loadedId[t], o, r, MatchPrice(o, c), q)
  <2>1. /\ trade.buyOrderId = IF o.side = "BUY" THEN o.id ELSE r.id
        /\ trade.sellOrderId = IF o.side = "BUY" THEN r.id ELSE o.id
        /\ trade.symbol = o.symbol
        /\ trade.price = MatchPrice(o, c) /\ trade.quantity = q
    BY DEF CreateTrade
  <2>2. tape' = Append(tape, trade)
    BY <1>4
  <2> HIDE DEF trade
  <2>3. Executions' = Append(Executions,
             [buy |-> trade.buyOrderId, sell |-> trade.sellOrderId,
              symbol |-> trade.symbol, price |-> trade.price,
              quantity |-> trade.quantity])
    BY <2>2, OneExecutionMore
  <2>4. MatchPrice(o, c) = Market!Price(LeftOf(o), LeftOf(r))
    BY <1>2, <1>3, LeftOfFields DEF MatchPrice, Market!Price, Lesser, Types, r
  <2>5. QED
    BY <2>1, <2>3, <2>4, LeftOfFields
<1>16. Len(submitted)' = Len(submitted) /\ LeftOf(o).quantity > 0
  BY <1>4, LeftOfFields
<1>17. Market!Trade(LeftOf(o), LeftOf(r))
  BY <1>7, <1>10, <1>11, <1>13, <1>14, <1>15, <1>16 DEF Market!Trade
<1>18. QED
  BY <1>9, <1>12, <1>17 DEF Market!Next, Market!Match

LEMMA StepsStutter ==
    ASSUME TypeOK, SerialInv, MarketInv, NEW t \in Threads,
           ConsiderNext(t) \/ NotifyTrade(t) \/ Return(t)
    PROVE  UNCHANGED Market!vars
<1>1. /\ Matching' = Matching /\ \A u \in Matching : order'[u] = order[u]
      /\ books' = books /\ submitted' = submitted /\ tape' = tape
  <2>1. CASE ConsiderNext(t)
    BY <2>1, ConsiderNextStep DEF MarketInv
  <2>2. CASE NotifyTrade(t) \/ Return(t)
    BY <2>2, TailStep DEF Matching
  <2>3. QED
    BY <2>1, <2>2
<1>2. IncomingOrders' = IncomingOrders
  <2>1. \A x : x \in IncomingOrders' <=> x \in IncomingOrders
    BY <1>1, IncomingOrdersAre
  <2>2. QED
    BY <2>1
<1>3. RestingOrders' = RestingOrders /\ Executions' = Executions
  BY <1>1 DEF RestingOrders, Executions
<1>4. QED
  BY <1>1, <1>2, <1>3 DEF Market!vars

LEMMA NextMarket ==
    TypeOK /\ SerialInv /\ MarketInv /\ [SerialNext]_vars =>
      [Market!Next]_Market!vars
<1> SUFFICES ASSUME TypeOK, SerialInv, MarketInv, [SerialNext]_vars
             PROVE  Market!Next \/ UNCHANGED Market!vars
  OBVIOUS
<1>1. ASSUME NEW t \in Threads, SerialSubmit(t) PROVE Market!Next
  BY <1>1, SubmitArrives
<1>2. ASSUME NEW t \in Threads, Continue(t)
      PROVE  Market!Next \/ UNCHANGED Market!vars
  BY <1>2, ExecuteTrades, FinishFinishes, StepsStutter DEF Continue, Loop
<1>3. CASE UNCHANGED vars
  BY <1>3 DEF vars, shared, local, history, Market!vars, RestingOrders,
     IncomingOrders, Executions, Matching
<1>4. QED
  BY <1>1, <1>2, <1>3 DEF SerialNext

(* As long as the orders of a symbol do not overlap, every step of the engine
   is a step of Exchange or changes nothing it can see: an order arrives,
   trades with the best order resting, and rests with what it has left or
   expires, in that order. *)
THEOREM EngineImplementsExchange == SerialSpec => ImplementsExchange
<1>1. SerialSpec => Init /\ [][SerialNext]_vars
  BY DEF SerialSpec
<1>2. QED
  BY <1>1, MarketInvHolds, InitTypeOK, InitMarket, NextMarket, PTL
     DEF ImplementsExchange, Market!Spec

----------------------------------------------------------------------------
(* Trade ids. *)

(* No two threads are between the load of tradeIdCounter_ and its store. *)
LoadsApart ==
    \A t, u \in Threads : pc[t] = "trade" /\ pc[u] = "trade" => t = u

IdsInv ==
    /\ \A i \in DOMAIN tape : tape[i].tradeId < tradeIdCounter
    /\ \A t \in Threads : pc[t] = "trade" => loadedId[t] = tradeIdCounter
    /\ TradeIdsUnique

LEMMA NextIdsInv == TypeOK /\ LoadsApart /\ IdsInv /\ [Next]_vars => IdsInv'
<1> SUFFICES ASSUME TypeOK, LoadsApart, IdsInv, [Next]_vars PROVE IdsInv'
  OBVIOUS
<1>1. ASSUME tape' = tape, tradeIdCounter' = tradeIdCounter,
             \A t \in Threads : pc'[t] = "trade" =>
                \/ loadedId'[t] = tradeIdCounter
                \/ pc[t] = "trade" /\ loadedId'[t] = loadedId[t]
      PROVE  IdsInv'
  BY <1>1 DEF IdsInv, TradeIdsUnique
<1>2. ASSUME NEW t \in Threads, Submit(t) \/ ConsiderNext(t)
                \/ FinishMatching(t) \/ NotifyTrade(t) \/ Return(t)
      PROVE  IdsInv'
  BY <1>1, <1>2 DEF Submit, SubmitOrder, ConsiderNext, FinishMatching,
     NotifyTrade, Return, shared, history, TypeOK
<1>3. ASSUME NEW t \in Threads, ExecuteTrade(t)
      PROVE  IdsInv'
  <2>1. PICK trade : tape' = Append(tape, trade) /\ trade.tradeId = loadedId[t]
    BY <1>3 DEF ExecuteTrade, CreateTrade
  <2>2. loadedId[t] = tradeIdCounter /\ tradeIdCounter \in Nat
    BY <1>3 DEF ExecuteTrade, IdsInv, TypeOK
  <2>3. tradeIdCounter' = tradeIdCounter + 1
    BY <1>3, <2>2 DEF ExecuteTrade, NextTradeId
  <2>4. \A u \in Threads : pc'[u] # "trade"
    BY <1>3 DEF ExecuteTrade, LoadsApart, TypeOK
  <2>5. /\ DOMAIN tape' = 1 .. Len(tape) + 1 /\ DOMAIN tape = 1 .. Len(tape)
        /\ Len(tape) \in Nat
        /\ \A i \in 1 .. Len(tape) : /\ tape'[i] = tape[i]
                                     /\ tape[i].tradeId \in Nat
        /\ tape'[Len(tape) + 1] = trade
    <3>1. tape \in Seq(Trades)
      BY DEF TypeOK
    <3>2. DOMAIN tape = 1 .. Len(tape) /\ Len(tape) \in Nat
      BY <3>1, LenProperties
    <3>3. \A i \in 1 .. Len(tape) : tape[i].tradeId \in Nat
      <4>1. \A i \in 1 .. Len(tape) : tape[i] \in Trades
        BY <3>1, ElementOfSeq
      <4>2. QED
        BY <4>1 DEF Trades
    <3>4. QED
      BY <2>1, <3>1, <3>2, <3>3
  <2>6. \A i \in DOMAIN tape : tape[i].tradeId < tradeIdCounter
    BY DEF IdsInv
  <2>7. \A i \in DOMAIN tape' : tape'[i].tradeId < tradeIdCounter'
    BY <2>1, <2>2, <2>3, <2>5, <2>6
  <2>8. TradeIdsUnique'
    <3>1. \A i, j \in DOMAIN tape : tape[i].tradeId = tape[j].tradeId => i = j
      BY DEF IdsInv, TradeIdsUnique
    <3>2. \A i \in DOMAIN tape : tape[i].tradeId # trade.tradeId
      BY <2>1, <2>2, <2>5, <2>6
    <3>3. \A i, j \in DOMAIN tape' : tape'[i].tradeId = tape'[j].tradeId => i = j
      BY <2>5, <3>1, <3>2
    <3>4. QED
      BY <3>3 DEF TradeIdsUnique
  <2>9. QED
    BY <2>4, <2>7, <2>8 DEF IdsInv
<1>4. CASE UNCHANGED vars
  BY <1>1, <1>4 DEF vars, shared, local, history
<1>5. QED
  BY <1>2, <1>3, <1>4 DEF Next, Continue, Loop

(* tradeIdCounter_ is incremented without synchronisation.  Two trades get
   the same id only if two threads were between the load and the store of the
   increment at the same time: without that, no id is ever used twice,
   even if orders of one symbol overlap elsewhere. *)
THEOREM IdsUniqueUnlessOverlapping ==
    Spec /\ []LoadsApart => []TradeIdsUnique
<1>1. Init => IdsInv
  BY DEF Init, IdsInv, TradeIdsUnique
<1>2. IdsInv => TradeIdsUnique
  BY DEF IdsInv
<1>3. Spec => Init /\ [][Next]_vars
  BY DEF Spec
<1>4. QED
  BY <1>1, <1>2, <1>3, InitTypeOK, NextTypeOK, NextIdsInv, PTL

----------------------------------------------------------------------------
(* What the web page shows. *)

(* The best price of a side is that of the first copy of its snapshot, and 0
   where there is none. *)
LEMMA BestPriceIsFirst ==
    ASSUME NEW book, IsBook(book, Prices, OrderIds, OrderValues),
           WellIndexed(book), NEW symbol, AllRest(book, symbol),
           NEW side \in Sides
    PROVE  /\ GetOrders(book, side) = {} => GetBestPrice(book, side) = 0
           /\ \A c \in GetOrders(book, side) : IsFirst(GetOrders(book, side), side, c) =>
                 GetBestPrice(book, side) = c.order.price
<1> DEFINE prices == DOMAIN book.levels[side]
           copies == GetOrders(book, side)
<1>1. \A p \in prices : In(book, side, p, 1)
  BY LevelInBook, LenProperties, EmptySeq DEF WellIndexed, NoEmptyLevel, In
<1>2. \A p \in prices : \E c \in copies : c.order.price = p
  <2>1. TAKE p \in prices
  <2> DEFINE c == [pos |-> 1, order |-> At(book, side, p, 1)]
  <2>2. c \in copies /\ c.order.price = p
    BY <1>1, CopiesAt DEF AllRest, RestsAt
  <2>3. QED
    BY <2>2
<1>3. \A c \in copies : c.order.price \in prices
  <2>1. TAKE c \in copies
  <2>2. PICK p, i : /\ In(book, side, p, i)
                    /\ c = [pos |-> i, order |-> At(book, side, p, i)]
    BY CopiesAt
  <2>3. c.order.price = p
    BY <2>2 DEF AllRest, RestsAt
  <2>4. QED
    BY <2>2, <2>3 DEF In
<1>4. prices \subseteq Int
  BY LevelInBook, ConstantsAssumption DEF IsBook, IsMap
<1>5. copies = {} => GetBestPrice(book, side) = 0
  BY <1>2 DEF GetBestPrice
<1>6. ASSUME NEW c \in copies, IsFirst(copies, side, c)
      PROVE  GetBestPrice(book, side) = c.order.price
  <2> DEFINE best == c.order.price
  <2>1. best \in prices
    BY <1>3
  <2>2. \A q \in prices \ {best} : BetterPrice(side, best, q)
    BY <1>2, <1>6 DEF IsFirst
  <2>3. \A p \in prices : (\A q \in prices \ {p} : BetterPrice(side, p, q)) => p = best
    BY <1>4, <2>1, <2>2 DEF BetterPrice
  <2> HIDE DEF best, prices
  <2>4. (CHOOSE p \in prices : \A q \in prices \ {p} : BetterPrice(side, p, q)) = best
    BY <2>1, <2>2, <2>3
  <2>5. QED
    BY <2>1, <2>4 DEF GetBestPrice, prices, best
<1>7. QED
  BY <1>5, <1>6

(* What has been read, if nothing came in between, is what the book has. *)
IsView(v) ==
    \E s \in Symbols : \E bid, ask, buys, sells :
        v = [symbol |-> s, bestBid |-> bid, bestAsk |-> ask,
             buyOrders |-> buys, sellOrders |-> sells]

ReadSoFar ==
    LET book == books[shown.symbol]
    IN  /\ reader > 1 => shown.bestBid = GetBestPrice(book, "BUY")
        /\ reader > 2 => shown.bestAsk = GetBestPrice(book, "SELL")
        /\ reader > 3 => shown.buyOrders = GetOrders(book, "BUY")
        /\ reader > 4 => shown.sellOrders = GetOrders(book, "SELL")

ViewInv ==
    /\ reader \in 1 .. 5
    /\ IsView(shown) /\ shown.symbol \in Symbols
    /\ ~ disturbed => ReadSoFar

LEMMA ViewFields ==
    ASSUME NEW s \in Symbols, NEW bid, NEW ask, NEW buys, NEW sells
    PROVE  LET v == [symbol |-> s, bestBid |-> bid, bestAsk |-> ask,
                     buyOrders |-> buys, sellOrders |-> sells]
           IN  IsView(v) /\ v.symbol = s
BY Zenon DEF IsView

LEMMA ViewInitInv == ViewInit => ViewInv
<1> SUFFICES ASSUME ViewInit PROVE ViewInv
  OBVIOUS
<1>1. PICK s \in Symbols : shown = Nothing(s)
  BY DEF ViewInit
<1>2. IsView(shown) /\ shown.symbol \in Symbols
  BY <1>1, ViewFields DEF Nothing
<1>3. QED
  BY <1>2 DEF ViewInit, ViewInv, ReadSoFar

LEMMA ViewStepInv == ViewInv /\ [ViewNext]_<<vars, view>> => ViewInv'
<1> SUFFICES ASSUME ViewInv, [ViewNext]_<<vars, view>> PROVE ViewInv'
  OBVIOUS
<1>1. CASE Match
  <2>1. reader' = reader /\ shown' = shown
    BY <1>1 DEF Match
  <2>2. ~ disturbed' => /\ ~ disturbed
                        /\ reader = 1 \/ books'[shown.symbol] = books[shown.symbol]
    BY <1>1 DEF Match
  <2>3. ASSUME ~ disturbed'
        PROVE  ReadSoFar'
    <3>1. CASE reader = 1
      BY <2>1, <3>1 DEF ReadSoFar
    <3>2. CASE books'[shown.symbol] = books[shown.symbol]
      <4>1. ReadSoFar
        BY <2>2, <2>3 DEF ViewInv
      <4>2. QED
        BY <2>1, <3>2, <4>1 DEF ReadSoFar
    <3>3. QED
      BY <2>2, <2>3, <3>1, <3>2
  <2>4. QED
    BY <2>1, <2>3 DEF ViewInv
<1>2. CASE GetOrderBookJson
  <2> DEFINE book == books[shown.symbol]
             Showing(what) == shown' = [shown EXCEPT ![what] = Seen(what, book)]
  <2>1. /\ books' = books /\ reader' = reader + 1 /\ reader \in DOMAIN Reads
        /\ ~ disturbed' => ~ disturbed
        /\ Showing(Reads[reader])
    BY <1>2 DEF GetOrderBookJson, vars, shared
  <2>2. /\ DOMAIN Reads = 1 .. 4
        /\ Reads[1] = "bestBid" /\ Reads[2] = "bestAsk"
        /\ Reads[3] = "buyOrders" /\ Reads[4] = "sellOrders"
    BY DEF Reads
  <2>2a. PICK s \in Symbols : \E bid, ask, buys, sells :
          shown = [symbol |-> s, bestBid |-> bid, bestAsk |-> ask,
                   buyOrders |-> buys, sellOrders |-> sells]
    BY DEF ViewInv, IsView
  <2>3. PICK bid, ask, buys, sells :
          shown = [symbol |-> s, bestBid |-> bid, bestAsk |-> ask,
                   buyOrders |-> buys, sellOrders |-> sells]
    BY <2>2a
  <2>4. shown.symbol = s
    BY <2>3
  <2> HIDE DEF book
  <2>5. CASE reader = 1
    <3>1. shown' = [shown EXCEPT !.bestBid = GetBestPrice(book, "BUY")]
      BY <2>1, <2>2, <2>5 DEF Seen
    <3>2. shown' = [symbol |-> s, bestBid |-> GetBestPrice(book, "BUY"), bestAsk |-> ask,
                    buyOrders |-> buys, sellOrders |-> sells]
      BY <2>3, <3>1
    <3>3. IsView(shown') /\ shown'.symbol = s
      BY <3>2, ViewFields
    <3>4. shown'.bestBid = GetBestPrice(book, "BUY")
      BY <2>3, <3>2
    <3>5. QED
      BY <2>1, <2>4, <2>5, <3>3, <3>4 DEF ViewInv, ReadSoFar, book
  <2>6. CASE reader = 2
    <3>1. shown' = [shown EXCEPT !.bestAsk = GetBestPrice(book, "SELL")]
      BY <2>1, <2>2, <2>6 DEF Seen
    <3>2. shown' = [symbol |-> s, bestBid |-> bid, bestAsk |-> GetBestPrice(book, "SELL"),
                    buyOrders |-> buys, sellOrders |-> sells]
      BY <2>3, <3>1
    <3>3. IsView(shown') /\ shown'.symbol = s
      BY <3>2, ViewFields
    <3>4. shown'.bestAsk = GetBestPrice(book, "SELL")
          /\ shown'.bestBid = shown.bestBid
      BY <2>3, <3>2
    <3>5. QED
      BY <2>1, <2>4, <2>6, <3>3, <3>4 DEF ViewInv, ReadSoFar, book
  <2>7. CASE reader = 3
    <3>1. shown' = [shown EXCEPT !.buyOrders = GetOrders(book, "BUY")]
      BY <2>1, <2>2, <2>7 DEF Seen
    <3>2. shown' = [symbol |-> s, bestBid |-> bid, bestAsk |-> ask,
                    buyOrders |-> GetOrders(book, "BUY"), sellOrders |-> sells]
      BY <2>3, <3>1
    <3>3. IsView(shown') /\ shown'.symbol = s
      BY <3>2, ViewFields
    <3>4. shown'.buyOrders = GetOrders(book, "BUY")
          /\ shown'.bestBid = shown.bestBid
          /\ shown'.bestAsk = shown.bestAsk
      BY <2>3, <3>2
    <3>5. QED
      BY <2>1, <2>4, <2>7, <3>3, <3>4 DEF ViewInv, ReadSoFar, book
  <2>8. CASE reader = 4
    <3>1. shown' = [shown EXCEPT !.sellOrders = GetOrders(book, "SELL")]
      BY <2>1, <2>2, <2>8 DEF Seen
    <3>2. shown' = [symbol |-> s, bestBid |-> bid, bestAsk |-> ask,
                    buyOrders |-> buys, sellOrders |-> GetOrders(book, "SELL")]
      BY <2>3, <3>1
    <3>3. IsView(shown') /\ shown'.symbol = s
      BY <3>2, ViewFields
    <3>4. shown'.sellOrders = GetOrders(book, "SELL")
          /\ shown'.bestBid = shown.bestBid
          /\ shown'.bestAsk = shown.bestAsk
          /\ shown'.buyOrders = shown.buyOrders
      BY <2>3, <3>2
    <3>5. QED
      BY <2>1, <2>4, <2>8, <3>3, <3>4 DEF ViewInv, ReadSoFar, book
  <2>9. QED
    BY <2>1, <2>2, <2>5, <2>6, <2>7, <2>8
<1>3. CASE NextRequest
  <2>1. PICK s \in Symbols : shown' = Nothing(s)
    BY <1>3 DEF NextRequest
  <2>2. IsView(shown') /\ shown'.symbol \in Symbols
    BY <2>1, ViewFields DEF Nothing
  <2>3. QED
    BY <1>3, <2>2 DEF NextRequest, ViewInv, ReadSoFar
<1>4. CASE UNCHANGED <<vars, view>>
  BY <1>4 DEF vars, shared, view, ViewInv, ReadSoFar
<1>5. QED
  BY <1>1, <1>2, <1>3, <1>4 DEF ViewNext

LEMMA QuietView ==
    TypeOK /\ SerialInv /\ MarketInv /\ ViewInv => QuietViewAgrees
<1> SUFFICES ASSUME TypeOK, SerialInv, MarketInv, ViewInv, Complete, ~ disturbed
             PROVE  /\ \A side \in Sides :
                          /\ ShownOn(side) = {} => ShownPrice(side) = 0
                          /\ \A c \in ShownOn(side) :
                                /\ IsFirst(ShownOn(side), side, c) =>
                                       ShownPrice(side) = c.order.price
                                /\ c.order.status \in {"PENDING", "PARTIALLY_FILLED"}
                                /\ Remaining(c.order) > 0
                    /\ \A bid \in shown.buyOrders, ask \in shown.sellOrders :
                          bid.order.price < ask.order.price
  BY DEF QuietViewAgrees
<1> DEFINE book == books[shown.symbol]
<1>1. reader = 5
  BY DEF Complete, Reads
<1>2. /\ shown.symbol \in Symbols
      /\ shown.bestBid = GetBestPrice(book, "BUY")
      /\ shown.bestAsk = GetBestPrice(book, "SELL")
      /\ shown.buyOrders = GetOrders(book, "BUY")
      /\ shown.sellOrders = GetOrders(book, "SELL")
  BY <1>1 DEF ViewInv, ReadSoFar
<1>3. \A side \in Sides : /\ ShownOn(side) = GetOrders(book, side)
                          /\ ShownPrice(side) = GetBestPrice(book, side)
  BY <1>2 DEF ShownOn, ShownPrice, Sides
<1>4. /\ IsBook(book, Prices, OrderIds, OrderValues)
      /\ WellIndexed(book) /\ AllRest(book, shown.symbol)
  BY <1>2 DEF TypeOK, SerialInv, BooksInv
<1>5. \A side \in Sides : \A c \in GetOrders(book, side) :
         c.order \in OrdersOn(book, side)
  BY DEF OrdersOn
<1>6. \A side \in Sides : \A o \in OrdersOn(book, side) :
         o.status \in {"PENDING", "PARTIALLY_FILLED"}
  BY <1>2 DEF MarketInv, StatusInv, Open
<1>7. \A side \in Sides : \A o \in OrdersOn(book, side) : Remaining(o) > 0
  <2>1. TAKE side \in Sides
  <2>2. TAKE o \in OrdersOn(book, side)
  <2> HIDE DEF book
  <2>3. /\ o.filledQuantity \in Nat /\ o.quantity \in Int
        /\ o.filledQuantity < o.quantity
    BY <1>4, OrdersOnRest
  <2>4. QED
    BY <2>3 DEF Remaining
<1>8. \A bid \in OrdersOn(book, "BUY"), ask \in OrdersOn(book, "SELL") :
         bid.price < ask.price
  BY <1>2 DEF MarketInv, Uncrossed
<1>9. "BUY" \in Sides /\ "SELL" \in Sides
  BY DEF Sides
<1> HIDE DEF book
<1>10. ASSUME NEW side \in Sides
       PROVE  /\ GetOrders(book, side) = {} => GetBestPrice(book, side) = 0
              /\ \A c \in GetOrders(book, side) :
                   IsFirst(GetOrders(book, side), side, c) =>
                      GetBestPrice(book, side) = c.order.price
  BY <1>4, BestPriceIsFirst
<1>11. ASSUME NEW side \in Sides
       PROVE  /\ ShownOn(side) = {} => ShownPrice(side) = 0
              /\ \A c \in ShownOn(side) :
                    /\ IsFirst(ShownOn(side), side, c) =>
                           ShownPrice(side) = c.order.price
                    /\ c.order.status \in {"PENDING", "PARTIALLY_FILLED"}
                    /\ Remaining(c.order) > 0
  BY <1>3, <1>5, <1>6, <1>7, <1>10
<1>12. \A bid \in shown.buyOrders, ask \in shown.sellOrders :
         bid.order.price < ask.order.price
  BY <1>2, <1>5, <1>8, <1>9
<1>13. QED
  BY <1>11, <1>12

(* A page for which getOrderBookJson has read the two sides and the two best
   prices, one after the other without a lock, while the book was not written
   to and none of its orders was being matched, shows one book: the best prices are those of the first rows, every
   row is an open order with something left, and the sides do not cross. *)
THEOREM QuietViewsAgree == ViewSpec => []QuietViewAgrees
<1>1. ViewInit => Init
  BY DEF ViewInit
<1>2. [ViewNext]_<<vars, view>> => [SerialNext]_vars
  BY DEF ViewNext, Match, GetOrderBookJson, NextRequest
<1>3. TypeOK /\ [SerialNext]_vars => TypeOK'
  BY NextTypeOK, SerialStep
<1>4. QED
  BY <1>1, <1>2, <1>3, InitTypeOK, InitSerialInv, InitMarketInv, NextSerialInv,
     NextMarketInv, ViewInitInv, ViewStepInv, QuietView, PTL DEF ViewSpec

(* A page read while orders are matched.  An order that is neither in a loop nor
   in a book never comes back, and one that is in no loop enters none. *)
InBook(id) ==
    \E s \in Symbols : \E side \in Sides : \E x \in OrdersOn(books[s], side) : x.id = id

Alive(id) == InMatching(id) \/ InBook(id)

LEMMA OrdersStayGone ==
    ASSUME TypeOK, SerialInv, MarketInv, [SerialNext]_vars, NEW id \in DOMAIN submitted
    PROVE  /\ id \in DOMAIN submitted' /\ submitted'[id] = submitted[id]
           /\ traded[id] \in Int /\ traded'[id] \in Int /\ traded'[id] >= traded[id]
           /\ \A k \in DOMAIN submitted' \ DOMAIN submitted : k > id
           /\ InMatching(id)' => InMatching(id)
           /\ InBook(id)' => Alive(id)
<1> DEFINE Goal == /\ id \in DOMAIN submitted' /\ submitted'[id] = submitted[id]
                   /\ traded'[id] \in Int /\ traded'[id] >= traded[id]
                   /\ \A k \in DOMAIN submitted' \ DOMAIN submitted : k > id
                   /\ InMatching(id)' => InMatching(id)
                   /\ InBook(id)' => Alive(id)
<1>1. /\ DOMAIN submitted = 1 .. Len(submitted) /\ DOMAIN traded = DOMAIN submitted
      /\ id \in Nat /\ id <= Len(submitted) /\ Len(submitted) \in Nat
      /\ traded[id] \in Int
  BY IdsDefined
<1>2. ASSUME NEW t \in Threads, SerialSubmit(t)
      PROVE  Goal
  <2>1. PICK o : /\ o.id = Len(submitted) + 1 /\ books' = books
                 /\ t \notin Matching /\ Matching' = Matching \cup {t} /\ order'[t] = o
                 /\ \A u \in Threads \ {t} : order'[u] = order[u]
                 /\ DOMAIN submitted' = 1 .. Len(submitted) + 1
                 /\ submitted'[id] = submitted[id] /\ traded'[id] = traded[id]
    BY <1>1, <1>2, SubmitStep
  <2>2. InMatching(id)' => InMatching(id)
    <3>1. \A u \in Matching : order'[u] = order[u]
      BY <2>1 DEF Matching
    <3>2. order'[t].id # id
      BY <1>1, <2>1
    <3>3. QED
      BY <2>1, <3>1, <3>2, InMatchingIs, InMatchingIsNext
  <2>3. InBook(id)' => InBook(id)
    BY <2>1 DEF InBook
  <2>4. QED
    BY <1>1, <2>1, <2>2, <2>3 DEF Alive
<1>3. ASSUME NEW t \in Threads, ConsiderNext(t)
      PROVE  Goal
  <2>1. /\ Matching' = Matching /\ order' = order /\ books' = books
        /\ submitted' = submitted /\ traded' = traded
    BY <1>3, ConsiderNextStep DEF MarketInv
  <2>2. QED
    BY <1>1, <2>1, InMatchingIs, InMatchingIsNext DEF InBook, Alive
<1>4. ASSUME NEW t \in Threads, ExecuteTrade(t)
      PROVE  Goal
  <2>1. PICK c \in candidates[t] :
          LET o == order[t]
              r == c.order
              side == Opposite(o.side)
              q == Lesser(Remaining(o), Remaining(r))
          IN  /\ t \in Matching /\ Matching' = Matching
              /\ pc'[t] = "match"
              /\ \A u \in Threads \ {t} : /\ pc'[u] = pc[u]
                                         /\ order'[u] = order[u]
                                         /\ candidates'[u] = candidates[u]
              /\ Remaining(o) > 0 /\ Remaining(r) > 0 /\ q \in Nat \ {0}
              /\ IsNext(t, c) /\ PriceAccepted(o, c)
              /\ r \in OrdersOn(books[o.symbol], side)
              /\ order'[t] = Fill(o, q)
              /\ candidates'[t] = candidates[t] \ {c}
              /\ \A s \in Symbols : \A sd \in Sides :
                   OrdersOn(books'[s], sd) =
                     IF s = o.symbol /\ sd = side
                     THEN (OrdersOn(books[s], sd) \ {r}) \cup LeftThere(r, q)
                     ELSE OrdersOn(books[s], sd)
              /\ submitted' = submitted
              /\ traded' = [n \in DOMAIN traded |->
                    IF n \in {o.id, r.id} THEN traded[n] + q ELSE traded[n]]
              /\ tape' = Append(tape, CreateTrade(loadedId[t], o, r,
                                                  MatchPrice(o, c), q))
    BY <1>4, ExecuteTradeStep DEF MarketInv
  <2> DEFINE o == order[t]
             r == c.order
             side == Opposite(o.side)
             q == Lesser(Remaining(o), Remaining(r))
  <2>2. o \in OrderValues /\ r \in OrderValues /\ o.symbol \in Symbols /\ side \in Sides
    <3>1. /\ IsBook(books[o.symbol], Prices, OrderIds, OrderValues)
          /\ AllRest(books[o.symbol], o.symbol)
          /\ o \in OrderValues /\ o.symbol \in Symbols /\ side \in Sides
      BY <2>1, MatchingBook
    <3>2. r \in OrderValues
      BY <2>1, <3>1, OrdersOnRest
    <3>3. QED
      BY <3>1, <3>2
  <2>3. Fill(o, q).id = o.id /\ Fill(r, q).id = r.id
    BY <2>1, <2>2, FillFields
  <2>4. InMatching(id)' => InMatching(id)
    BY <2>1, <2>3, InMatchingIs, InMatchingIsNext DEF Matching
  <2>5. ASSUME NEW s \in Symbols, NEW sd \in Sides, NEW x \in OrdersOn(books'[s], sd)
        PROVE  InBook(x.id)
    <3>1. x \in OrdersOn(books[s], sd) \/ x \in LeftThere(r, q)
      BY <2>1
    <3>2. x \in LeftThere(r, q) => x.id = r.id
      BY <2>3 DEF LeftThere
    <3>3. InBook(r.id)
      BY <2>1, <2>2 DEF InBook
    <3>4. QED
      BY <3>1, <3>2, <3>3 DEF InBook
  <2>6. InBook(id)' => InBook(id)
    BY <2>5 DEF InBook
  <2>7. traded'[id] = traded[id] \/ traded'[id] = traded[id] + q
    BY <1>1, <2>1
  <2>8. q \in Nat /\ submitted' = submitted
    BY <2>1
  <2> HIDE DEF q
  <2>9. QED
    BY <1>1, <2>4, <2>6, <2>7, <2>8 DEF Alive
<1>5. ASSUME NEW t \in Threads, FinishMatching(t)
      PROVE  Goal
  <2> DEFINE o == order[t]
             resting == [o EXCEPT !.status = "PENDING"]
  <2>1. /\ t \in Matching /\ Matching' = Matching \ {t}
        /\ \A u \in Threads \ {t} : order'[u] = order[u]
        /\ \A s \in Symbols : \A sd \in Sides :
             OrdersOn(books'[s], sd) =
               OrdersOn(books[s], sd) \cup
                 (IF Rests(o) /\ s = o.symbol /\ sd = o.side THEN {resting} ELSE {})
        /\ submitted' = submitted /\ traded' = traded
    BY <1>5, FinishMatchingStep
  <2>2. InMatching(id)' => InMatching(id)
    BY <2>1, InMatchingIs, InMatchingIsNext DEF Matching
  <2>3. o \in OrderValues
    BY <2>1, MatchingBook
  <2>4. resting.id = o.id
    BY <2>3 DEF OrderValues
  <2>5. ASSUME NEW s \in Symbols, NEW sd \in Sides, NEW x \in OrdersOn(books'[s], sd)
        PROVE  Alive(x.id)
    <3>1. x \in OrdersOn(books[s], sd) \/ x = resting
      BY <2>1
    <3>2. InMatching(o.id)
      BY <2>1, InMatchingIs
    <3>3. QED
      BY <2>4, <3>1, <3>2 DEF Alive, InBook
  <2>6. InBook(id)' => Alive(id)
    BY <2>5 DEF InBook
  <2>7. QED
    BY <1>1, <2>1, <2>2, <2>6
<1>6. ASSUME NEW t \in Threads, NotifyTrade(t) \/ Return(t)
      PROVE  Goal
  <2>1. /\ Matching' = Matching /\ t \notin Matching /\ books' = books
        /\ \A u \in Threads \ {t} : order'[u] = order[u]
        /\ submitted' = submitted /\ traded' = traded
    BY <1>6, TailStep
  <2>2. QED
    BY <1>1, <2>1, InMatchingIs, InMatchingIsNext DEF InBook, Alive, Matching
<1>7. CASE UNCHANGED vars
  <2>1. /\ Matching' = Matching /\ order' = order /\ books' = books
        /\ submitted' = submitted /\ traded' = traded
    BY <1>7 DEF vars, shared, local, history, Matching
  <2>2. QED
    BY <1>1, <2>1, InMatchingIs, InMatchingIsNext DEF InBook, Alive
<1>8. QED
  BY <1>1, <1>2, <1>3, <1>4, <1>5, <1>6, <1>7 DEF SerialNext, Continue, Loop

(* What is so of a bid from when it is read on: it waits in the book or is filled,
   and no sell order that came before it, and that it could trade with, waits. *)
BidSeen(bid) ==
    LET id == bid.order.id
        o == submitted[id]
    IN  /\ id \in DOMAIN submitted
        /\ o.side = "BUY" /\ o.type = "LIMIT" /\ o.symbol = shown.symbol
        /\ o.price = bid.order.price
        /\ ~ InMatching(id)
        /\ \A k \in DOMAIN submitted :
              /\ k < id /\ submitted[k].side = "SELL"
              /\ submitted[k].symbol = shown.symbol
              /\ submitted[k].price <= bid.order.price
              => ~ Alive(k)

Outdated(bid, ask) ==
    bid.order.price >= ask.order.price =>
        /\ bid.order.id < ask.order.id
        /\ traded[bid.order.id] >= submitted[bid.order.id].quantity

CrossedInv ==
    /\ reader > 3 => \A bid \in shown.buyOrders : BidSeen(bid)
    /\ reader > 4 => \A bid \in shown.buyOrders, ask \in shown.sellOrders :
                         Outdated(bid, ask)

(* A bid as it is read. *)
LEMMA BidRead ==
    ASSUME TypeOK, SerialInv, MarketInv, shown.symbol \in Symbols,
           NEW bid \in GetOrders(books[shown.symbol], "BUY")
    PROVE  BidSeen(bid)
<1> DEFINE book == books[shown.symbol]
           b == bid.order
<1>1. "BUY" \in Sides /\ "SELL" \in Sides /\ "BUY" # "SELL"
  BY DEF Sides
<1>2. \A s \in Symbols : /\ IsBook(books[s], Prices, OrderIds, OrderValues)
                         /\ WellIndexed(books[s]) /\ AllRest(books[s], s)
  BY DEF TypeOK, SerialInv, BooksInv
<1>3. b \in OrdersOn(book, "BUY")
  BY DEF OrdersOn
<1>4. /\ b.side = "BUY" /\ b.symbol = shown.symbol /\ b.type = "LIMIT"
      /\ b.id \in Nat /\ b.price \in Int
  BY <1>1, <1>2, <1>3, OrdersOnRest
<1>5. Known(b)
  BY <1>1, <1>3 DEF MarketInv, OrdersKnown
<1>6. ~ InMatching(b.id)
  BY <1>1, <1>3, IdsApart, InMatchingIs DEF MarketInv
<1>7. ASSUME NEW k \in DOMAIN submitted, k < b.id, submitted[k].side = "SELL",
             submitted[k].symbol = shown.symbol, submitted[k].price <= b.price, Alive(k)
      PROVE  FALSE
  <2>1. CASE InMatching(k)
    <3>1. PICK u \in Matching : order[u].id = k
      BY <2>1, InMatchingIs
    <3>2. order[u].symbol = shown.symbol
      BY <1>7, <3>1 DEF MarketInv, OrdersKnown, Known
    <3>3. Below(book, k)
      BY <3>1, <3>2, MatchingBook DEF SerialInv, OrderInv
    <3>4. PICK p, i : In(book, "BUY", p, i) /\ b = At(book, "BUY", p, i)
      BY <1>1, <1>2, CopiesAt
    <3>5. b.id < k
      BY <1>1, <3>3, <3>4 DEF Below
    <3>6. k \in Nat
      BY IdsDefined
    <3>7. QED
      BY <1>4, <1>7, <3>5, <3>6
  <2>2. CASE InBook(k)
    <3>0. PICK s \in Symbols, sd \in Sides :
            \E x \in OrdersOn(books[s], sd) : x.id = k
      BY <2>2 DEF InBook
    <3>1. PICK x \in OrdersOn(books[s], sd) : x.id = k
      BY <3>0
    <3>2. x.side = sd /\ x.symbol = s /\ x.price \in Int
      BY <1>2, <3>1, OrdersOnRest
    <3>3. Known(x)
      BY <3>1 DEF MarketInv, OrdersKnown
    <3>4. x \in OrdersOn(book, "SELL") /\ x.price <= b.price
      BY <1>7, <3>1, <3>2, <3>3 DEF Known
    <3>5. b.price < x.price
      BY <1>3, <3>4 DEF MarketInv, Uncrossed
    <3>6. QED
      BY <1>4, <3>2, <3>4, <3>5
  <2>3. QED
    BY <1>7, <2>1, <2>2 DEF Alive
<1>8. QED
  BY <1>4, <1>5, <1>6, <1>7 DEF BidSeen, Known

(* An ask as it is read, beside a bid that was read before. *)
LEMMA AskRead ==
    ASSUME TypeOK, SerialInv, MarketInv, shown.symbol \in Symbols,
           NEW bid, BidSeen(bid), NEW ask \in GetOrders(books[shown.symbol], "SELL")
    PROVE  Outdated(bid, ask)
<1> DEFINE book == books[shown.symbol]
           b == bid.order
           a == ask.order
<1>1. "BUY" \in Sides /\ "SELL" \in Sides /\ "BUY" # "SELL"
  BY DEF Sides
<1>2. \A s \in Symbols : /\ IsBook(books[s], Prices, OrderIds, OrderValues)
                         /\ WellIndexed(books[s]) /\ AllRest(books[s], s)
  BY DEF TypeOK, SerialInv, BooksInv
<1>3. a \in OrdersOn(book, "SELL")
  BY DEF OrdersOn
<1>4. /\ a.side = "SELL" /\ a.symbol = shown.symbol
      /\ a.id \in Nat /\ a.price \in Int
  BY <1>1, <1>2, <1>3, OrdersOnRest
<1>5. Known(a) /\ Alive(a.id)
  BY <1>1, <1>3 DEF MarketInv, OrdersKnown, Alive, InBook
<1>6. b.id \in Nat /\ submitted[b.id] \in OrderValues /\ traded[b.id] \in Int
  BY IdsDefined DEF BidSeen
<1>7. b.price \in Int /\ submitted[b.id].quantity \in Int
  BY <1>6, OrderFields DEF BidSeen
<1>8. SUFFICES ASSUME b.price >= a.price
               PROVE  b.id < a.id /\ traded[b.id] >= submitted[b.id].quantity
  BY DEF Outdated
<1>9. b.id < a.id
  <2>1. ~ (a.id < b.id)
    BY <1>4, <1>5, <1>7, <1>8 DEF BidSeen, Known
  <2>2. a.id # b.id
    BY <1>1, <1>4, <1>5 DEF BidSeen, Known
  <2>3. QED
    BY <1>4, <1>6, <2>1, <2>2
<1>10. ASSUME traded[b.id] < submitted[b.id].quantity
       PROVE  FALSE
  <2>1. PICK sd \in Sides : \E x \in OrdersOn(books[shown.symbol], sd) : x.id = b.id
    BY <1>10 DEF BidSeen, MarketInv, NoOrderLost
  <2>2. PICK x \in OrdersOn(book, sd) : x.id = b.id
    BY <2>1
  <2>3. Known(x)
    BY <2>2 DEF MarketInv, OrdersKnown
  <2>4. x.side = sd /\ x.price \in Int
    BY <1>2, <2>2, OrdersOnRest
  <2>5. x \in OrdersOn(book, "BUY") /\ x.price = b.price
    BY <2>2, <2>3, <2>4 DEF BidSeen, Known
  <2>6. x.price < a.price
    BY <1>3, <2>5 DEF MarketInv, Uncrossed
  <2>7. QED
    BY <1>4, <1>7, <1>8, <2>5, <2>6
<1>11. QED
  BY <1>6, <1>7, <1>9, <1>10

(* What a read leaves of the page. *)
LEMMA ReadKeeps ==
    ASSUME ViewInv, GetOrderBookJson
    PROVE  /\ reader' = reader + 1 /\ reader \in 1 .. 4
           /\ shown'.symbol = shown.symbol
           /\ shown'.buyOrders =
                IF reader = 3 THEN GetOrders(books[shown.symbol], "BUY")
                ELSE shown.buyOrders
           /\ shown'.sellOrders =
                IF reader = 4 THEN GetOrders(books[shown.symbol], "SELL")
                ELSE shown.sellOrders
<1> DEFINE book == books[shown.symbol]
<1>1. /\ reader' = reader + 1 /\ reader \in DOMAIN Reads
      /\ shown' = [shown EXCEPT ![Reads[reader]] = Seen(Reads[reader], book)]
  BY DEF GetOrderBookJson
<1>2. /\ DOMAIN Reads = 1 .. 4
      /\ Reads[1] = "bestBid" /\ Reads[2] = "bestAsk"
      /\ Reads[3] = "buyOrders" /\ Reads[4] = "sellOrders"
  BY DEF Reads
<1>3. PICK s, bid, ask, buys, sells :
        shown = [symbol |-> s, bestBid |-> bid, bestAsk |-> ask,
                 buyOrders |-> buys, sellOrders |-> sells]
  BY DEF ViewInv, IsView
<1> HIDE DEF book
<1>4. CASE reader = 1
  BY <1>1, <1>2, <1>3, <1>4
<1>5. CASE reader = 2
  BY <1>1, <1>2, <1>3, <1>5
<1>6. CASE reader = 3
  <2>1. Seen("buyOrders", book) = GetOrders(book, "BUY")
    BY DEF Seen
  <2>2. shown' = [shown EXCEPT !.buyOrders = GetOrders(book, "BUY")]
    BY <1>1, <1>2, <1>6, <2>1
  <2>3. QED
    BY <1>1, <1>3, <1>6, <2>2 DEF book
<1>7. CASE reader = 4
  <2>1. Seen("sellOrders", book) = GetOrders(book, "SELL")
    BY DEF Seen
  <2>2. shown' = [shown EXCEPT !.sellOrders = GetOrders(book, "SELL")]
    BY <1>1, <1>2, <1>7, <2>1
  <2>3. QED
    BY <1>1, <1>3, <1>7, <2>2 DEF book
<1>8. QED
  BY <1>1, <1>2, <1>4, <1>5, <1>6, <1>7

LEMMA CrossedStep ==
    TypeOK /\ SerialInv /\ MarketInv /\ ViewInv /\ CrossedInv /\ [ViewNext]_<<vars, view>>
        => CrossedInv'
<1> SUFFICES ASSUME TypeOK, SerialInv, MarketInv, ViewInv, CrossedInv,
                    [ViewNext]_<<vars, view>>
             PROVE  CrossedInv'
  OBVIOUS
<1>1. ASSUME [SerialNext]_vars, shown' = shown, NEW bid, BidSeen(bid)
      PROVE  BidSeen(bid)'
  <2> DEFINE id == bid.order.id
  <2>1. id \in DOMAIN submitted /\ ~ InMatching(id)
    BY <1>1 DEF BidSeen
  <2>2. /\ id \in DOMAIN submitted' /\ submitted'[id] = submitted[id]
        /\ \A k \in DOMAIN submitted' \ DOMAIN submitted : k > id
        /\ ~ InMatching(id)'
    BY <1>1, <2>1, OrdersStayGone
  <2>3. ASSUME NEW k \in DOMAIN submitted', k < id, submitted'[k].side = "SELL",
               submitted'[k].symbol = shown.symbol,
               submitted'[k].price <= bid.order.price
        PROVE  ~ Alive(k)'
    <3>1. k \in DOMAIN submitted
      <4>1. id \in Nat
        BY <2>1, IdsDefined
      <4>2. SUFFICES ASSUME k \notin DOMAIN submitted PROVE FALSE
        OBVIOUS
      <4>3. k > id
        BY <2>2, <4>2
      <4>4. k \in Nat
        <5>1. TypeOK'
          BY <1>1, NextTypeOK, SerialStep
        <5>2. submitted' \in Seq(OrderValues)
          BY <5>1 DEF TypeOK
        <5>3. QED
          BY <5>2, LenProperties
      <4>5. QED
        BY <2>3, <4>1, <4>3, <4>4
    <3>2. submitted'[k] = submitted[k] /\ (Alive(k)' => Alive(k))
      BY <1>1, <3>1, OrdersStayGone DEF Alive
    <3>3. ~ Alive(k)
      BY <1>1, <2>3, <3>1, <3>2 DEF BidSeen
    <3>4. QED
      BY <3>2, <3>3
  <2>4. QED
    BY <1>1, <2>2, <2>3 DEF BidSeen
<1>2. ASSUME [SerialNext]_vars, NEW bid, NEW ask, BidSeen(bid), Outdated(bid, ask)
      PROVE  Outdated(bid, ask)'
  <2> DEFINE id == bid.order.id
  <2>1. id \in DOMAIN submitted
    BY <1>2 DEF BidSeen
  <2>2. /\ submitted'[id] = submitted[id] /\ traded[id] \in Int
        /\ traded'[id] \in Int /\ traded'[id] >= traded[id]
    BY <1>2, <2>1, OrdersStayGone
  <2>3. submitted[id].quantity \in Int
    BY <2>1, IdsDefined, OrderFields
  <2> HIDE DEF id
  <2>4. traded[id] >= submitted[id].quantity => traded'[id] >= submitted'[id].quantity
    BY <2>2, <2>3
  <2>5. QED
    BY <1>2, <2>4 DEF Outdated, id
<1>3. CASE Match \/ UNCHANGED <<vars, view>>
  <2>1. [SerialNext]_vars /\ reader' = reader /\ shown' = shown /\ reader \in 1 .. 5
    BY <1>3 DEF Match, view, ViewInv
  <2>2. ASSUME NEW bid, BidSeen(bid)
        PROVE  BidSeen(bid)'
    BY <1>1, <2>1, <2>2
  <2>3. ASSUME NEW bid, NEW ask, BidSeen(bid), Outdated(bid, ask)
        PROVE  Outdated(bid, ask)'
    BY <1>2, <2>1, <2>3
  <2>4. QED
    BY <2>1, <2>2, <2>3 DEF CrossedInv
<1>4. CASE GetOrderBookJson
  <2>1. UNCHANGED vars /\ shown.symbol \in Symbols
    BY <1>4 DEF GetOrderBookJson, ViewInv
  <2>2. /\ books' = books /\ submitted' = submitted /\ traded' = traded
        /\ \A id : InMatching(id)' <=> InMatching(id)
        /\ \A id : Alive(id)' <=> Alive(id)
    BY <2>1 DEF vars, shared, local, history, InMatching, Alive, InBook
  <2>3. /\ reader' = reader + 1 /\ reader \in 1 .. 4
        /\ shown'.symbol = shown.symbol
        /\ shown'.buyOrders = IF reader = 3 THEN GetOrders(books[shown.symbol], "BUY")
                              ELSE shown.buyOrders
        /\ shown'.sellOrders = IF reader = 4 THEN GetOrders(books[shown.symbol], "SELL")
                               ELSE shown.sellOrders
    BY <1>4, ReadKeeps
  <2>4. ASSUME NEW bid, BidSeen(bid)
        PROVE  BidSeen(bid)'
    BY <2>2, <2>3, <2>4 DEF BidSeen
  <2>5. ASSUME NEW bid, NEW ask, Outdated(bid, ask)
        PROVE  Outdated(bid, ask)'
    BY <2>2, <2>5 DEF Outdated
  <2>6. reader > 2 => \A bid \in shown'.buyOrders : BidSeen(bid)
    BY <2>1, <2>3, BidRead DEF CrossedInv
  <2>7. reader = 4 => \A bid \in shown'.buyOrders, ask \in shown'.sellOrders :
                         Outdated(bid, ask)
    BY <2>1, <2>3, <2>6, AskRead
  <2>8. QED
    BY <2>3, <2>4, <2>5, <2>6, <2>7 DEF CrossedInv
<1>5. CASE NextRequest
  BY <1>5 DEF NextRequest, CrossedInv
<1>6. QED
  BY <1>3, <1>4, <1>5 DEF ViewNext

(* Whatever client threads match between the four reads of getOrderBookJson, a bid
   shown at or above an ask shown came before it and is filled by now: the page can
   be out of date, but it never shows two orders crossed that both wait. *)
THEOREM ShownCrossingsAreOld == ViewSpec => []CrossedBidsFilled
<1>1. ViewInit => Init /\ CrossedInv
  BY DEF ViewInit, CrossedInv
<1>2. [ViewNext]_<<vars, view>> => [SerialNext]_vars
  BY DEF ViewNext, Match, GetOrderBookJson, NextRequest
<1>3. TypeOK /\ [SerialNext]_vars => TypeOK'
  BY NextTypeOK, SerialStep
<1>4. CrossedInv => CrossedBidsFilled
  BY DEF CrossedInv, CrossedBidsFilled, Complete, Reads, Outdated
<1>5. QED
  BY <1>1, <1>2, <1>3, <1>4, InitTypeOK, InitSerialInv, InitMarketInv, NextSerialInv,
     NextMarketInv, ViewInitInv, ViewStepInv, CrossedStep, PTL DEF ViewSpec

----------------------------------------------------------------------------
(* The trades of a call, chosen from a list. *)

(* A set of numbers that is not empty has a least one: the induction of the
   proofs below. *)
LEMMA LeastNumber ==
    ASSUME NEW B \in SUBSET Nat, B # {}
    PROVE  \E n \in B : \A m \in B : n <= m
<1> DEFINE Less == {ss \in Nat \X Nat : ss[1] < ss[2]}
<1>1. \A m, n \in Nat : m < n => <<m, n>> \in Less
  OBVIOUS
<1>2. IsWellFoundedOn(Less, Nat)
  BY NatLessThanWellFounded DEF OpToRel
<1> HIDE DEF Less
<1>3. \E n \in B : \A m \in B : ~ (<<m, n>> \in Less)
  BY <1>2, WFMin
<1>4. PICK n \in B : \A m \in B : <<m, n>> \notin Less
  BY <1>3
<1>5. ASSUME NEW m \in B
      PROVE  n <= m
  <2>1. m \in Nat /\ n \in Nat /\ <<m, n>> \notin Less
    BY <1>4
  <2>2. ~ (m < n)
    BY <1>1, <2>1
  <2>3. QED
    BY <2>1, <2>2
<1>6. QED
  BY <1>5

(* The function TradesOf is defined by. *)
Chooses(f, id, list) ==
    f = [n \in 0 .. Len(list) |->
            IF n = 0 THEN << >>
            ELSE IF IsTradeOf(id, list[n]) THEN Append(f[n - 1], list[n])
            ELSE f[n - 1]]

LEMMA ChoosesIs ==
    ASSUME NEW f, NEW id, NEW list, Chooses(f, id, list), Len(list) \in Nat
    PROVE  /\ f[0] = << >>
           /\ \A n \in 1 .. Len(list) :
                 f[n] = IF IsTradeOf(id, list[n]) THEN Append(f[n - 1], list[n])
                        ELSE f[n - 1]
<1> DEFINE g == [n \in 0 .. Len(list) |->
                   IF n = 0 THEN << >>
                   ELSE IF IsTradeOf(id, list[n]) THEN Append(f[n - 1], list[n])
                   ELSE f[n - 1]]
<1>1. f = g
  BY Zenon DEF Chooses
<1>2. /\ g[0] = << >>
      /\ \A n \in 1 .. Len(list) :
            g[n] = IF IsTradeOf(id, list[n]) THEN Append(f[n - 1], list[n])
                   ELSE f[n - 1]
  OBVIOUS
<1> HIDE DEF g
<1>3. QED
  BY <1>1, <1>2, Zenon

(* It depends on the part of the list it has gone through. *)
LEMMA ChoosesAgree ==
    ASSUME NEW id, NEW f, NEW a, Chooses(f, id, a), Len(a) \in Nat,
           NEW g, NEW b, Chooses(g, id, b), Len(b) \in Nat,
           NEW k \in Nat, k <= Len(a), k <= Len(b),
           \A i \in 1 .. k : a[i] = b[i]
    PROVE  f[k] = g[k]
<1> DEFINE Bad == { n \in Nat : n <= k /\ f[n] # g[n] }
<1>1. SUFFICES ASSUME Bad # {} PROVE FALSE
  OBVIOUS
<1>2. PICK n \in Bad : \A m \in Bad : n <= m
  BY <1>1, LeastNumber
<1>3. n \in Nat /\ n <= k /\ f[n] # g[n]
  BY <1>2
<1>4. n # 0
  BY <1>3, ChoosesIs
<1>5. n - 1 \in Nat /\ n - 1 <= k /\ n \in 1 .. k /\ ~ (n <= n - 1)
  BY <1>3, <1>4
<1>6. f[n - 1] = g[n - 1]
  BY <1>2, <1>5
<1>7. n \in 1 .. Len(a) /\ n \in 1 .. Len(b) /\ a[n] = b[n]
  BY <1>5
<1>8. f[n] = IF IsTradeOf(id, a[n]) THEN Append(f[n - 1], a[n]) ELSE f[n - 1]
  BY <1>7, ChoosesIs
<1>9. g[n] = IF IsTradeOf(id, b[n]) THEN Append(g[n - 1], b[n]) ELSE g[n - 1]
  BY <1>7, ChoosesIs
<1>10. QED
  BY <1>3, <1>6, <1>7, <1>8, <1>9

(* There is such a function for every list: for the list without its last
   trade, and with that trade it is longer by one. *)
LEMMA ChoosesMore ==
    ASSUME NEW id, NEW a, Len(a) \in Nat, NEW f, Chooses(f, id, a),
           NEW b, Len(b) = Len(a) + 1, \A i \in 1 .. Len(a) : b[i] = a[i]
    PROVE  \E g : Chooses(g, id, b)
<1> DEFINE k == Len(b)
           last == IF IsTradeOf(id, b[k]) THEN Append(f[k - 1], b[k]) ELSE f[k - 1]
           g == [n \in 0 .. k |-> IF n = k THEN last ELSE f[n]]
           h == [n \in 0 .. k |->
                   IF n = 0 THEN << >>
                   ELSE IF IsTradeOf(id, b[n]) THEN Append(g[n - 1], b[n])
                   ELSE g[n - 1]]
<1>1. k \in Nat \ {0} /\ k - 1 = Len(a)
  OBVIOUS
<1> HIDE DEF k
<1>2. ASSUME NEW n \in 0 .. k
      PROVE  g[n] = h[n]
  <2>1. CASE n = 0
    BY <1>1, <2>1, ChoosesIs
  <2>2. CASE n = k
    <3>1. g[n] = last /\ n # 0 /\ n - 1 \in 0 .. k /\ n - 1 # k
      BY <1>1, <2>2
    <3>2. g[n - 1] = f[k - 1]
      BY <2>2, <3>1
    <3>3. h[n] = IF IsTradeOf(id, b[n]) THEN Append(g[n - 1], b[n]) ELSE g[n - 1]
      BY <3>1
    <3> HIDE DEF g, h
    <3>4. QED
      BY <2>2, <3>1, <3>2, <3>3
  <2>3. CASE n # 0 /\ n # k
    <3>1. n \in 1 .. Len(a) /\ n - 1 \in 0 .. k /\ n - 1 # k
      BY <1>1, <2>3
    <3>2. g[n] = f[n] /\ g[n - 1] = f[n - 1] /\ b[n] = a[n]
      BY <2>3, <3>1
    <3>3. h[n] = IF IsTradeOf(id, b[n]) THEN Append(g[n - 1], b[n]) ELSE g[n - 1]
      BY <2>3
    <3>4. f[n] = IF IsTradeOf(id, a[n]) THEN Append(f[n - 1], a[n]) ELSE f[n - 1]
      BY <3>1, ChoosesIs
    <3> HIDE DEF g, h
    <3>5. QED
      BY <3>2, <3>3, <3>4, Zenon
  <2>4. QED
    BY <2>1, <2>2, <2>3
<1>3. g = h
  BY <1>2
<1>4. Chooses(g, id, b)
  BY <1>3 DEF Chooses, k
<1>5. QED
  BY <1>4

LEMMA ChoosesExists ==
    ASSUME NEW id, NEW list \in Seq(Trades)
    PROVE  \E f : Chooses(f, id, list)
<1> DEFINE Lacks(n) == \E a \in Seq(Trades) :
                          Len(a) = n /\ ~ \E f : Chooses(f, id, a)
           Bad == { n \in Nat : Lacks(n) }
<1>1. SUFFICES ASSUME Bad # {} PROVE FALSE
  BY LenProperties
<1>2. PICK n \in Bad : \A m \in Bad : n <= m
  <2> HIDE DEF Lacks
  <2>1. QED
    BY <1>1, LeastNumber
<1>3. PICK b \in Seq(Trades) : Len(b) = n /\ ~ \E f : Chooses(f, id, b)
  BY <1>2
<1>4. n # 0
  <2>1. SUFFICES ASSUME n = 0 PROVE FALSE
    OBVIOUS
  <2>2. Chooses([m \in 0 .. 0 |-> << >>], id, b)
    BY <1>3, <2>1 DEF Chooses
  <2>3. QED
    BY <1>3, <2>2
<1>5. PICK a \in Seq(Trades), x \in Trades : b = Append(a, x)
  <2>1. b # << >>
    BY <1>3, <1>4, EmptySeq
  <2>2. \E a \in Seq(Trades), x \in Trades : b = Append(a, x)
    BY <2>1, SequenceEmptyOrAppend
  <2>3. QED
    BY <2>2
<1>6. /\ Len(a) \in Nat /\ Len(b) = Len(a) + 1
      /\ \A i \in 1 .. Len(a) : b[i] = a[i]
  BY <1>5, AppendProperties, LenProperties
<1>7. \E f : Chooses(f, id, a)
  <2>1. Len(a) \notin Bad
    BY <1>2, <1>3, <1>6
  <2>2. QED
    BY <1>6, <2>1
<1>8. QED
  BY <1>3, <1>6, <1>7, ChoosesMore

LEMMA TradesOfIs ==
    ASSUME NEW id, NEW list \in Seq(Trades)
    PROVE  \E f : Chooses(f, id, list) /\ TradesOf(id, list) = f[Len(list)]
<1> DEFINE f == CHOOSE f : Chooses(f, id, list)
<1>1. Chooses(f, id, list)
  BY ChoosesExists
<1>2. TradesOf(id, list) = f[Len(list)]
  BY Zenon DEF TradesOf, Chooses
<1>3. QED
  BY <1>1, <1>2

LEMMA TradesOfEmpty ==
    ASSUME NEW id
    PROVE  TradesOf(id, << >>) = << >>
<1>1. << >> \in Seq(Trades) /\ Len(<< >>) = 0
  BY EmptySeq
<1>2. PICK f : Chooses(f, id, << >>) /\ TradesOf(id, << >>) = f[0]
  BY <1>1, TradesOfIs
<1>3. QED
  BY <1>1, <1>2, ChoosesIs

LEMMA TradesOfAppend ==
    ASSUME NEW id, NEW list \in Seq(Trades), NEW x \in Trades
    PROVE  TradesOf(id, Append(list, x)) =
             IF IsTradeOf(id, x) THEN Append(TradesOf(id, list), x)
             ELSE TradesOf(id, list)
<1> DEFINE more == Append(list, x)
           k == Len(list)
<1>1. /\ more \in Seq(Trades) /\ Len(more) = k + 1 /\ k \in Nat
      /\ \A i \in 1 .. k : list[i] = more[i]
      /\ more[k + 1] = x
  BY AppendProperties, LenProperties
<1>2. PICK f : Chooses(f, id, list) /\ TradesOf(id, list) = f[k]
  BY TradesOfIs
<1> HIDE DEF more
<1>3. PICK g : Chooses(g, id, more) /\ TradesOf(id, more) = g[k + 1]
  BY <1>1, TradesOfIs
<1>4. f[k] = g[k]
  <2>1. Len(list) \in Nat /\ Len(more) \in Nat /\ k <= Len(list) /\ k <= Len(more)
    BY <1>1
  <2>2. QED
    BY <1>1, <1>2, <1>3, <2>1, ChoosesAgree
<1>5. g[k + 1] = IF IsTradeOf(id, more[k + 1]) THEN Append(g[k], more[k + 1])
                 ELSE g[k]
  <2>1. k + 1 \in 1 .. Len(more) /\ (k + 1) - 1 = k /\ Len(more) \in Nat
    BY <1>1
  <2>2. QED
    BY <1>3, <2>1, ChoosesIs
<1>6. QED
  BY <1>1, <1>2, <1>3, <1>4, <1>5, Zenon DEF more

----------------------------------------------------------------------------
(* What the callback gets. *)

(* The invariant of the announcements.  A call's trades are on the tape, then
   in the thread's list, then announced; a call is known by its order's id,
   which no other call has. *)
Active == { t \in Threads : pc[t] # "idle" }

ToAnnounce(id, list) == TradesOf(id, tape) = TradesOf(id, announced) \o list

AnnounceInv ==
    /\ \A t \in Active : order[t].id \in OrderIds /\ order[t].id <= Len(submitted)
    /\ \A t, u \in Active : order[t].id = order[u].id => t = u
    /\ \A t \in Threads \ Active : trades[t] = << >>
    /\ \A t \in Active : \A i \in 1 .. Len(trades[t]) :
          IsTradeOf(order[t].id, trades[t][i])
    /\ \A id \in OrderIds : /\ TradesOf(id, tape) \in Seq(Trades)
                            /\ TradesOf(id, announced) \in Seq(Trades)
    /\ \A t \in Active : ToAnnounce(order[t].id, trades[t])
    /\ \A id \in OrderIds : (\A t \in Active : order[t].id # id) =>
          TradesOf(id, tape) = TradesOf(id, announced)

(* A trade moves from the tape to a list, and from the list to what is
   announced. *)
LEMMA AppendAssociates ==
    ASSUME NEW a \in Seq(Trades), NEW b \in Seq(Trades), NEW x \in Trades
    PROVE  Append(a \o b, x) = a \o Append(b, x)
<1>1. a \o b \in Seq(Trades) /\ <<x>> \in Seq(Trades)
  BY ConcatProperties
<1>2. Append(a \o b, x) = (a \o b) \o <<x>> /\ Append(b, x) = b \o <<x>>
  BY <1>1, AppendIsConcat
<1>3. QED
  BY <1>1, <1>2, ConcatAssociative

LEMMA HeadMoves ==
    ASSUME NEW S, NEW a \in Seq(S), NEW b \in Seq(S), b # << >>
    PROVE  a \o b = Append(a, Head(b)) \o Tail(b)
<1>1. /\ Head(b) \in S /\ Tail(b) \in Seq(S) /\ <<Head(b)>> \in Seq(S)
  BY HeadTailProperties
<1>2. b = <<Head(b)>> \o Tail(b)
  OBVIOUS
<1>3. Append(a, Head(b)) = a \o <<Head(b)>>
  BY <1>1, AppendIsConcat
<1>4. QED
  BY <1>1, <1>2, <1>3, ConcatAssociative

(* A trade is of one order only. *)
LEMMA TradeOfOne ==
    ASSUME NEW x, NEW a, NEW b, IsTradeOf(a, x), IsTradeOf(b, x)
    PROVE  a = b
BY DEF IsTradeOf

LEMMA InitAnnounceInv == Init => AnnounceInv
<1> SUFFICES ASSUME Init PROVE AnnounceInv
  OBVIOUS
<1>1. Active = {} /\ tape = << >> /\ announced = << >>
  BY DEF Init, Active
<1>2. \A id : TradesOf(id, tape) = << >> /\ TradesOf(id, announced) = << >>
  BY <1>1, TradesOfEmpty
<1>3. << >> \in Seq(Trades)
  BY EmptySeq
<1>4. QED
  BY <1>1, <1>2, <1>3 DEF Init, AnnounceInv

(* A step that neither trades nor announces, and leaves the calls there are. *)
LEMMA QuietAnnounceInv ==
    ASSUME AnnounceInv, Active' = Active,
           \A t \in Active : order'[t].id = order[t].id,
           submitted' = submitted, trades' = trades, tape' = tape,
           announced' = announced
    PROVE  AnnounceInv'
<1>1. \A t \in Active' : order'[t].id = order[t].id /\ trades'[t] = trades[t]
  OBVIOUS
<1>2. \A t \in Active' : ToAnnounce(order[t].id, trades[t])'
  BY <1>1 DEF AnnounceInv, ToAnnounce
<1>3. /\ \A t \in Active' : /\ order'[t].id \in OrderIds
                            /\ order'[t].id <= Len(submitted')
      /\ \A t, u \in Active' : order'[t].id = order'[u].id => t = u
      /\ \A t \in Threads \ Active' : trades'[t] = << >>
      /\ \A t \in Active' : \A i \in 1 .. Len(trades'[t]) :
            IsTradeOf(order'[t].id, trades'[t][i])
  BY <1>1 DEF AnnounceInv
<1>4. \A id \in OrderIds : /\ TradesOf(id, tape') \in Seq(Trades)
                           /\ TradesOf(id, announced') \in Seq(Trades)
  BY DEF AnnounceInv
<1>5. \A id \in OrderIds : (\A t \in Active' : order'[t].id # id) =>
         TradesOf(id, tape') = TradesOf(id, announced')
  BY <1>1 DEF AnnounceInv
<1>6. QED
  BY <1>2, <1>3, <1>4, <1>5 DEF AnnounceInv

LEMMA SubmitAnnounceInv ==
    ASSUME TypeOK, AnnounceInv, NEW t \in Threads, SerialSubmit(t)
    PROVE  AnnounceInv'
<1>1. /\ t \notin Active /\ Active' = Active \cup {t}
      /\ trades' = trades /\ tape' = tape /\ announced' = announced
  BY DEF SerialSubmit, SubmitOrder, Active, TypeOK
<1>2. /\ order'[t].id = Len(submitted) + 1
      /\ \A u \in Threads \ {t} : order'[u] = order[u]
      /\ Len(submitted) \in Nat /\ Len(submitted') = Len(submitted) + 1
      /\ DOMAIN submitted = 1 .. Len(submitted)
  BY SubmitStep
<1>3. Len(submitted) + 1 \in OrderIds
  BY <1>2, ConstantsAssumption DEF SerialSubmit, OrderIds
<1>4. \A u \in Active : /\ u # t /\ order'[u].id = order[u].id
                        /\ order[u].id \in Int
                        /\ order[u].id # order'[t].id
                        /\ order[u].id <= Len(submitted')
  <2>1. \A id \in OrderIds : id \in Int
    BY DEF OrderIds
  <2>2. QED
    BY <1>1, <1>2, <2>1 DEF AnnounceInv, Active
<1>5. trades[t] = << >>
  BY <1>1 DEF AnnounceInv
<1>6. TradesOf(order'[t].id, tape) = TradesOf(order'[t].id, announced)
  BY <1>2, <1>3, <1>4 DEF AnnounceInv
<1>7. ToAnnounce(order[t].id, trades[t])'
  <2>1. TradesOf(order'[t].id, announced) \in Seq(Trades)
    BY <1>2, <1>3 DEF AnnounceInv
  <2>2. TradesOf(order'[t].id, announced) \o << >> = TradesOf(order'[t].id, announced)
    BY <2>1, ConcatEmptySeq
  <2>3. QED
    BY <1>1, <1>5, <1>6, <2>2 DEF ToAnnounce
<1>8. ASSUME NEW u \in Active'
      PROVE  /\ order'[u].id \in OrderIds /\ order'[u].id <= Len(submitted')
             /\ \A i \in 1 .. Len(trades'[u]) : IsTradeOf(order'[u].id, trades'[u][i])
             /\ ToAnnounce(order[u].id, trades[u])'
  <2>1. CASE u = t
    <3>1. Len(trades'[t]) = 0
      BY <1>1, <1>5, EmptySeq
    <3>2. QED
      BY <1>2, <1>3, <1>7, <2>1, <3>1
  <2>2. CASE u \in Active
    BY <1>1, <1>4, <2>2 DEF AnnounceInv, ToAnnounce
  <2>3. QED
    BY <1>1, <2>1, <2>2
<1>9. \A u, v \in Active' : order'[u].id = order'[v].id => u = v
  BY <1>1, <1>4 DEF AnnounceInv
<1>10. \A u \in Threads \ Active' : trades'[u] = << >>
  BY <1>1 DEF AnnounceInv
<1>11. \A id \in OrderIds : (\A u \in Active' : order'[u].id # id) =>
          TradesOf(id, tape') = TradesOf(id, announced')
  BY <1>1, <1>4 DEF AnnounceInv
<1>12. QED
  BY <1>1, <1>8, <1>9, <1>10, <1>11 DEF AnnounceInv

(* The older order of a trade is in the book, the younger in the loop. *)
LEMMA TradeOfIncoming ==
    ASSUME TypeOK, SerialInv, MarketInv, NEW t \in Threads, ExecuteTrade(t)
    PROVE  \E x \in Trades :
             /\ IsTradeOf(order[t].id, x)
             /\ tape' = Append(tape, x)
             /\ trades' = [trades EXCEPT ![t] = Append(trades[t], x)]
             /\ order'[t].id = order[t].id
<1>1. PICK c \in candidates[t] :
        LET o == order[t]
            r == c.order
            q == Lesser(Remaining(o), Remaining(r))
        IN  /\ t \in Matching /\ q \in Nat \ {0}
            /\ r \in OrdersOn(books[o.symbol], Opposite(o.side))
            /\ order'[t] = Fill(o, q)
            /\ tape' = Append(tape, CreateTrade(loadedId[t], o, r,
                                                MatchPrice(o, c), q))
  BY ExecuteTradeStep DEF MarketInv
<1> DEFINE o == order[t]
           r == c.order
           q == Lesser(Remaining(o), Remaining(r))
           x == CreateTrade(loadedId[t], o, r, MatchPrice(o, c), q)
<1>2. /\ o \in OrderValues /\ Opposite(o.side) \in Sides
      /\ o.id \in Nat /\ t \in Matching
  BY <1>1, MatchingBook
<1>3. c \in Copies /\ r \in OrderValues /\ loadedId[t] \in Nat /\ q \in Int
  BY <1>1 DEF TypeOK, Copies
<1>4. x \in Trades
  BY <1>2, <1>3, TradeType
<1>5. r.id < o.id /\ r.id \in Nat
  <2>1. Below(books[o.symbol], o.id)
    BY <1>2 DEF SerialInv, OrderInv
  <2>2. PICK p, i : /\ In(books[o.symbol], Opposite(o.side), p, i)
                    /\ r = At(books[o.symbol], Opposite(o.side), p, i)
    BY <1>1, <1>2, OrdersOnAt
  <2>3. QED
    BY <1>2, <1>3, <2>1, <2>2, OrderFields DEF Below
<1>6. IsTradeOf(o.id, x)
  <2>1. {x.buyOrderId, x.sellOrderId} = {o.id, r.id}
    BY DEF CreateTrade
  <2> HIDE DEF x, o, r
  <2>2. QED
    BY <1>2, <1>5, <2>1 DEF IsTradeOf
<1>7. order'[t].id = o.id
  BY <1>1, <1>2, <1>3, FillType
<1>8. PICK y : /\ tape' = Append(tape, y)
               /\ trades' = [trades EXCEPT ![t] = Append(@, y)]
  BY DEF ExecuteTrade
<1>9. tape' = Append(tape, x)
  BY <1>1
<1>10. x = y
  <2>1. tape \in Seq(Trades)
    BY DEF TypeOK
  <2> HIDE DEF x
  <2>2. Append(tape, x)[Len(tape) + 1] = x /\ Append(tape, y)[Len(tape) + 1] = y
    BY <2>1
  <2>3. QED
    BY <1>8, <1>9, <2>2, Zenon
<1>11. QED
  BY <1>4, <1>6, <1>7, <1>8, <1>9, <1>10

LEMMA ExecuteTradeAnnounceInv ==
    ASSUME TypeOK, SerialInv, MarketInv, AnnounceInv, NEW t \in Threads,
           ExecuteTrade(t)
    PROVE  AnnounceInv'
<1>1. PICK x \in Trades :
        /\ IsTradeOf(order[t].id, x)
        /\ tape' = Append(tape, x)
        /\ trades' = [trades EXCEPT ![t] = Append(trades[t], x)]
        /\ order'[t].id = order[t].id
  BY TradeOfIncoming
<1>2. /\ t \in Active /\ Active' = Active /\ submitted' = submitted
      /\ announced' = announced
      /\ \A u \in Threads \ {t} : order'[u] = order[u]
  BY DEF ExecuteTrade, Active, TypeOK
<1>3. /\ trades \in [Threads -> Seq(Trades)] /\ tape \in Seq(Trades)
      /\ trades'[t] = Append(trades[t], x)
      /\ \A u \in Threads \ {t} : trades'[u] = trades[u]
  BY <1>1 DEF TypeOK
<1>4. \A u \in Active : u \in Threads /\ order'[u].id = order[u].id
  BY <1>1, <1>2 DEF Active
<1>5. \A id : TradesOf(id, tape') =
                IF id = order[t].id THEN Append(TradesOf(id, tape), x)
                ELSE TradesOf(id, tape)
  BY <1>1, <1>3, TradesOfAppend, TradeOfOne
<1>6. \A id \in OrderIds : TradesOf(id, tape') \in Seq(Trades)
  BY <1>5 DEF AnnounceInv
<1>7. \A i \in 1 .. Len(trades'[t]) : IsTradeOf(order[t].id, trades'[t][i])
  <2>1. /\ Len(trades'[t]) = Len(trades[t]) + 1 /\ Len(trades[t]) \in Nat
        /\ \A i \in 1 .. Len(trades[t]) : trades'[t][i] = trades[t][i]
        /\ trades'[t][Len(trades[t]) + 1] = x
    BY <1>3, AppendProperties, LenProperties
  <2>2. \A i \in 1 .. Len(trades[t]) : IsTradeOf(order[t].id, trades[t][i])
    BY <1>2 DEF AnnounceInv
  <2>3. QED
    BY <1>1, <2>1, <2>2
<1>8. ToAnnounce(order[t].id, trades[t])'
  <2> DEFINE id == order[t].id
             old == TradesOf(id, announced)
  <2>1. old \in Seq(Trades) /\ TradesOf(id, tape) = old \o trades[t]
    BY <1>2 DEF AnnounceInv, ToAnnounce
  <2>2. trades[t] \in Seq(Trades)
    BY <1>3
  <2> HIDE DEF old
  <2>3. Append(old \o trades[t], x) = old \o Append(trades[t], x)
    BY <2>1, <2>2, AppendAssociates
  <2>4. TradesOf(id, tape') = old \o trades'[t]
    BY <1>3, <1>5, <2>1, <2>3
  <2>5. QED
    BY <1>1, <1>2, <2>4 DEF ToAnnounce, old
<1>9. \A u \in Active :
        /\ \A i \in 1 .. Len(trades'[u]) : IsTradeOf(order'[u].id, trades'[u][i])
        /\ ToAnnounce(order[u].id, trades[u])'
  <2>1. ASSUME NEW u \in Active, u # t
        PROVE  ToAnnounce(order[u].id, trades[u])'
    <3>1. order[u].id # order[t].id
      BY <1>2, <2>1 DEF AnnounceInv
    <3>2. TradesOf(order[u].id, tape') = TradesOf(order[u].id, tape)
      BY <1>5, <3>1
    <3>3. trades'[u] = trades[u] /\ order'[u].id = order[u].id
      BY <1>3, <1>4, <2>1
    <3>4. ToAnnounce(order[u].id, trades[u])
      BY DEF AnnounceInv
    <3>5. QED
      BY <1>2, <3>2, <3>3, <3>4 DEF ToAnnounce
  <2>2. ASSUME NEW u \in Active, u # t
        PROVE  \A i \in 1 .. Len(trades'[u]) : IsTradeOf(order'[u].id, trades'[u][i])
    <3>1. trades'[u] = trades[u] /\ order'[u].id = order[u].id
      BY <1>3, <1>4, <2>2
    <3>2. QED
      BY <3>1 DEF AnnounceInv
  <2>3. QED
    BY <1>1, <1>7, <1>8, <2>1, <2>2
<1>10. \A id \in OrderIds : (\A u \in Active' : order'[u].id # id) =>
          TradesOf(id, tape') = TradesOf(id, announced')
  BY <1>2, <1>4, <1>5 DEF AnnounceInv
<1>11. \A u \in Threads \ Active : trades'[u] = << >>
  BY <1>2, <1>3 DEF AnnounceInv
<1>12. \A u, v \in Active : order'[u].id = order'[v].id => u = v
  BY <1>4 DEF AnnounceInv
<1>13. QED
  BY <1>2, <1>4, <1>6, <1>9, <1>10, <1>11, <1>12 DEF AnnounceInv

LEMMA NotifyTradeAnnounceInv ==
    ASSUME TypeOK, AnnounceInv, NEW t \in Threads, NotifyTrade(t)
    PROVE  AnnounceInv'
<1> DEFINE x == Head(trades[t])
<1>1. /\ t \in Active /\ Active' = Active /\ submitted' = submitted
      /\ order' = order /\ tape' = tape
      /\ announced' = Append(announced, x)
      /\ trades' = [trades EXCEPT ![t] = Tail(trades[t])]
      /\ trades[t] # << >>
  BY DEF NotifyTrade, Active
<1>2. /\ trades \in [Threads -> Seq(Trades)] /\ announced \in Seq(Trades)
      /\ trades'[t] = Tail(trades[t])
      /\ \A u \in Threads \ {t} : trades'[u] = trades[u]
  BY <1>1 DEF TypeOK
<1>3. /\ x \in Trades /\ Tail(trades[t]) \in Seq(Trades)
      /\ Len(trades[t]) \in Nat \ {0} /\ x = trades[t][1]
      /\ Len(Tail(trades[t])) = Len(trades[t]) - 1
      /\ \A i \in 1 .. Len(trades[t]) - 1 : Tail(trades[t])[i] = trades[t][i + 1]
  <2>1. trades[t] \in Seq(Trades)
    BY <1>2
  <2>2. QED
    BY <1>1, <2>1, HeadTailProperties, EmptySeq
<1> HIDE DEF x
<1>4. IsTradeOf(order[t].id, x)
  BY <1>1, <1>3 DEF AnnounceInv
<1>5. \A id : TradesOf(id, announced') =
                IF id = order[t].id THEN Append(TradesOf(id, announced), x)
                ELSE TradesOf(id, announced)
  BY <1>1, <1>2, <1>3, <1>4, TradesOfAppend, TradeOfOne
<1>6. \A id \in OrderIds : TradesOf(id, announced') \in Seq(Trades)
  <2>1. \A id \in OrderIds : TradesOf(id, announced) \in Seq(Trades)
    BY DEF AnnounceInv
  <2>2. QED
    BY <1>3, <1>5, <2>1, AppendProperties
<1>7. \A i \in 1 .. Len(trades'[t]) : IsTradeOf(order[t].id, trades'[t][i])
  <2>1. \A i \in 1 .. Len(trades[t]) : IsTradeOf(order[t].id, trades[t][i])
    BY <1>1 DEF AnnounceInv
  <2>2. \A i \in 1 .. Len(trades[t]) - 1 : i + 1 \in 1 .. Len(trades[t])
    BY <1>3
  <2>3. QED
    BY <1>2, <1>3, <2>1, <2>2
<1>8. ToAnnounce(order[t].id, trades[t])'
  <2> DEFINE id == order[t].id
             old == TradesOf(id, announced)
  <2>1. old \in Seq(Trades) /\ TradesOf(id, tape) = old \o trades[t]
    BY <1>1 DEF AnnounceInv, ToAnnounce
  <2>2. old \o trades[t] = Append(old, x) \o Tail(trades[t])
    <3> HIDE DEF old
    <3>1. trades[t] \in Seq(Trades)
      BY <1>2
    <3>2. QED
      BY <1>1, <2>1, <3>1, HeadMoves DEF x
  <2>3. TradesOf(id, tape) = TradesOf(id, announced') \o trades'[t]
    BY <1>2, <1>5, <2>1, <2>2
  <2>4. QED
    BY <1>1, <2>3 DEF ToAnnounce
<1>9. ASSUME NEW u \in Active, u # t
      PROVE  /\ \A i \in 1 .. Len(trades'[u]) : IsTradeOf(order[u].id, trades'[u][i])
             /\ ToAnnounce(order[u].id, trades[u])'
  <2>1. order[u].id # order[t].id
    BY <1>1, <1>9 DEF AnnounceInv
  <2>2. TradesOf(order[u].id, announced') = TradesOf(order[u].id, announced)
    BY <1>5, <2>1
  <2>3. trades'[u] = trades[u]
    BY <1>2, <1>9 DEF Active
  <2>4. ToAnnounce(order[u].id, trades[u])
    BY DEF AnnounceInv
  <2>5. ToAnnounce(order[u].id, trades[u])'
    BY <1>1, <2>2, <2>3, <2>4 DEF ToAnnounce
  <2>6. QED
    BY <2>3, <2>5 DEF AnnounceInv
<1>10. \A id \in OrderIds : (\A u \in Active : order[u].id # id) =>
          TradesOf(id, tape') = TradesOf(id, announced')
  BY <1>1, <1>5 DEF AnnounceInv
<1>11. \A u \in Threads \ Active : trades'[u] = << >>
  BY <1>1, <1>2 DEF AnnounceInv
<1>12. QED
  BY <1>1, <1>6, <1>7, <1>8, <1>9, <1>10, <1>11 DEF AnnounceInv

LEMMA ReturnAnnounceInv ==
    ASSUME TypeOK, AnnounceInv, NEW t \in Threads, Return(t)
    PROVE  AnnounceInv'
<1>1. /\ t \in Active /\ Active' = Active \ {t} /\ submitted' = submitted
      /\ trades' = trades /\ trades[t] = << >>
      /\ tape' = tape /\ announced' = announced
      /\ \A u \in Threads \ {t} : order'[u] = order[u]
  BY DEF Return, Active, TypeOK, history
<1>2. \A u \in Active' : u \in Active /\ order'[u].id = order[u].id
  BY <1>1 DEF Active
<1>3. TradesOf(order[t].id, tape) = TradesOf(order[t].id, announced)
  <2>1. /\ TradesOf(order[t].id, announced) \in Seq(Trades)
        /\ ToAnnounce(order[t].id, << >>)
    BY <1>1 DEF AnnounceInv
  <2>2. QED
    BY <2>1, ConcatEmptySeq DEF ToAnnounce
<1>4. \A id \in OrderIds : (\A u \in Active' : order'[u].id # id) =>
          TradesOf(id, tape') = TradesOf(id, announced')
  <2>1. ASSUME NEW id \in OrderIds, \A u \in Active' : order'[u].id # id
        PROVE  TradesOf(id, tape) = TradesOf(id, announced)
    <3>1. CASE id = order[t].id
      BY <1>3, <3>1
    <3>2. CASE id # order[t].id
      <4>1. \A u \in Active : order[u].id # id
        BY <1>1, <1>2, <2>1, <3>2
      <4>2. QED
        BY <4>1 DEF AnnounceInv
    <3>3. QED
      BY <3>1, <3>2
  <2>2. QED
    BY <1>1, <2>1
<1>5. \A u \in Threads \ Active' : trades'[u] = << >>
  BY <1>1 DEF AnnounceInv
<1>6. \A u \in Active' : ToAnnounce(order[u].id, trades[u])'
  BY <1>1, <1>2 DEF AnnounceInv, ToAnnounce
<1>7. QED
  BY <1>1, <1>2, <1>4, <1>5, <1>6 DEF AnnounceInv

LEMMA NextAnnounceInv ==
    TypeOK /\ SerialInv /\ MarketInv /\ AnnounceInv /\ [SerialNext]_vars
        => AnnounceInv'
<1> SUFFICES ASSUME TypeOK, SerialInv, MarketInv, AnnounceInv, [SerialNext]_vars
             PROVE  AnnounceInv'
  OBVIOUS
<1>1. ASSUME NEW t \in Threads, ConsiderNext(t)
      PROVE  AnnounceInv'
  <2>1. /\ Active' = Active /\ order' = order /\ trades' = trades
        /\ submitted' = submitted /\ tape' = tape /\ announced' = announced
    BY <1>1 DEF ConsiderNext, Active, TypeOK, history
  <2>2. QED
    BY <2>1, QuietAnnounceInv
<1>2. ASSUME NEW t \in Threads, FinishMatching(t)
      PROVE  AnnounceInv'
  <2>1. /\ Active' = Active /\ trades' = trades
        /\ submitted' = submitted /\ tape' = tape /\ announced' = announced
        /\ t \in Active
    BY <1>2 DEF FinishMatching, Active, TypeOK, history
  <2>2. order' = order \/ order' = [order EXCEPT ![t] = [order[t] EXCEPT !.status = "PENDING"]]
    BY <1>2 DEF FinishMatching
  <2>3. order \in [Threads -> OrderValues \cup {None}] /\ order[t] \in OrderValues
    BY <2>1 DEF TypeOK, Active
  <2>4. [order[t] EXCEPT !.status = "PENDING"].id = order[t].id
    BY <2>3 DEF OrderValues
  <2>5. \A u \in Active : order'[u].id = order[u].id
    BY <2>2, <2>3, <2>4 DEF Active
  <2>6. QED
    BY <2>1, <2>5, QuietAnnounceInv
<1>3. CASE UNCHANGED vars
  <2>1. /\ Active' = Active /\ order' = order /\ trades' = trades
        /\ submitted' = submitted /\ tape' = tape /\ announced' = announced
    BY <1>3 DEF vars, local, history, Active
  <2>2. QED
    BY <2>1, QuietAnnounceInv
<1>4. QED
  BY <1>1, <1>2, <1>3, SubmitAnnounceInv, ExecuteTradeAnnounceInv,
     NotifyTradeAnnounceInv, ReturnAnnounceInv DEF SerialNext, Continue, Loop

(* tradeCallback_ gets each trade of a call once, in the order matchBuyOrder
   and matchSellOrder made them, whatever other threads announce meanwhile. *)
THEOREM TradesAnnouncedInOrder == SerialSpec => []AnnouncedAsTraded
<1>1. TypeOK /\ AnnounceInv => AnnouncedAsTraded
  <2> SUFFICES ASSUME TypeOK, AnnounceInv, NEW id \in DOMAIN submitted
               PROVE  LET waiting == { t \in Threads :
                                         pc[t] # "idle" /\ order[t].id = id }
                      IN  TradesOf(id, tape) =
                            TradesOf(id, announced) \o
                            (IF waiting = {} THEN << >>
                             ELSE trades[CHOOSE t \in waiting : TRUE])
    BY DEF AnnouncedAsTraded
  <2> DEFINE waiting == { t \in Threads : pc[t] # "idle" /\ order[t].id = id }
  <2>1. id \in OrderIds
    BY LenProperties, ConstantsAssumption DEF TypeOK, OrderIds
  <2>2. CASE waiting = {}
    <3>1. TradesOf(id, tape) = TradesOf(id, announced)
      BY <2>1, <2>2 DEF AnnounceInv, Active
    <3>2. TradesOf(id, announced) \in Seq(Trades)
      BY <2>1 DEF AnnounceInv
    <3>3. QED
      BY <2>2, <3>1, <3>2, ConcatEmptySeq
  <2>3. CASE waiting # {}
    <3> DEFINE t == CHOOSE t \in waiting : TRUE
    <3>1. t \in waiting
      BY <2>3
    <3> HIDE DEF t
    <3>2. t \in Active /\ order[t].id = id
      BY <3>1 DEF Active
    <3>3. TradesOf(id, tape) = TradesOf(id, announced) \o trades[t]
      BY <3>2 DEF AnnounceInv, ToAnnounce
    <3>4. QED
      BY <2>3, <3>3 DEF t
  <2>4. QED
    BY <2>2, <2>3
<1>2. SerialSpec => Init /\ [][SerialNext]_vars
  BY DEF SerialSpec
<1>3. QED
  BY <1>1, <1>2, MarketInvHolds, InitAnnounceInv, NextAnnounceInv, PTL

----------------------------------------------------------------------------
(* The matching of every order ends.  A thread in the loop can go on: a set of
   copies that is not empty has a first one.  *)

LEMMA FirstExists ==
    ASSUME NEW copies \in SUBSET Copies, copies # {}, NEW side \in Sides,
           \A c, d \in copies : c.order.id = d.order.id => c = d,
           \A c, d \in copies : c.order.price = d.order.price =>
               (c.pos < d.pos <=> c.order.id < d.order.id)
    PROVE  \E c \in copies : IsFirst(copies, side, c)
<1> DEFINE UpTo(n) == { c \in copies : c.order.id <= n }
           HasFirst(n) == UpTo(n) = {} \/ \E c \in UpTo(n) : IsFirst(UpTo(n), side, c)
           B == { n \in Nat : ~ HasFirst(n) }
<1>1. \A c \in copies : /\ c.pos \in Nat /\ c.order.price \in Int
                        /\ c.order.id \in Nat \ {0} /\ c.order.id <= MaxOrders
  BY OrderFields, ConstantsAssumption DEF Copies, OrderIds
<1>2. B = {}
  <2>1. SUFFICES ASSUME B # {} PROVE FALSE
    OBVIOUS
  <2>2. PICK n \in B : \A m \in B : n <= m
    BY <2>1, LeastNumber
  <2>3. n \in Nat /\ ~ HasFirst(n)
    BY <2>2
  <2>4. n # 0
    BY <1>1, <2>3
  <2>5. HasFirst(n - 1)
    <3> HIDE DEF HasFirst
    <3>1. n - 1 \in Nat /\ ~ (n <= n - 1)
      BY <2>3, <2>4
    <3>2. n - 1 \notin B
      BY <2>2, <3>1
    <3>3. QED
      BY <3>1, <3>2
  <2>6. PICK e \in copies : e.order.id = n
    <3>1. CASE UpTo(n) = UpTo(n - 1)
      BY <2>3, <2>5, <3>1
    <3>2. CASE UpTo(n) # UpTo(n - 1)
      BY <1>1, <2>3, <2>4, <3>2
    <3>3. QED
      BY <3>1, <3>2
  <2>7. UpTo(n) = UpTo(n - 1) \cup {e} /\ e \notin UpTo(n - 1)
    BY <1>1, <2>3, <2>6
  <2>8. UpTo(n - 1) # {}
    BY <2>3, <2>7 DEF IsFirst
  <2>9. PICK f \in UpTo(n - 1) : IsFirst(UpTo(n - 1), side, f)
    BY <2>5, <2>8
  <2>10. f \in copies /\ f # e /\ f.order.id < n
    BY <1>1, <2>3, <2>6, <2>9
  <2>11. f.pos < e.pos \/ f.order.price # e.order.price
    BY <2>6, <2>10
  <2>12. CASE BetterPrice(side, e.order.price, f.order.price)
    <3>1. \A d \in UpTo(n - 1) : BetterPrice(side, e.order.price, d.order.price)
      BY <1>1, <2>9, <2>10, <2>12 DEF IsFirst, BetterPrice
    <3>2. IsFirst(UpTo(n), side, e)
      BY <2>7, <3>1 DEF IsFirst
    <3>3. QED
      BY <2>3, <2>7, <3>2
  <2>13. CASE ~ BetterPrice(side, e.order.price, f.order.price)
    <3>1. \/ BetterPrice(side, f.order.price, e.order.price)
          \/ f.order.price = e.order.price /\ f.pos < e.pos
      BY <1>1, <2>10, <2>11, <2>13 DEF BetterPrice
    <3>2. IsFirst(UpTo(n), side, f)
      BY <2>7, <2>9, <3>1 DEF IsFirst
    <3>3. QED
      BY <2>3, <2>7, <2>9, <3>2
  <2>14. QED
    BY <2>12, <2>13
<1>3. HasFirst(MaxOrders) /\ UpTo(MaxOrders) = copies
  BY <1>1, <1>2, ConstantsAssumption
<1>4. QED
  BY <1>3

(* A thread about to trade has a copy to trade with. *)
CopyToTrade == \A t \in Threads : pc[t] = "trade" => candidates[t] # {}

LEMMA CopyToTradeStep == TypeOK /\ CopyToTrade /\ [Next]_vars => CopyToTrade'
<1> SUFFICES ASSUME TypeOK, CopyToTrade, [Next]_vars, NEW u \in Threads, pc'[u] = "trade"
             PROVE  candidates'[u] # {}
  BY DEF CopyToTrade
<1> USE DEF TypeOK, CopyToTrade
<1>1. ASSUME NEW t \in Threads, NEW o, SubmitOrder(t, o)
      PROVE  candidates'[u] # {}
  BY <1>1 DEF SubmitOrder
<1>2. ASSUME NEW t \in Threads, ConsiderNext(t)
      PROVE  candidates'[u] # {}
  <2>1. CASE candidates' = candidates /\ candidates[t] # {}
    BY <1>2, <2>1 DEF ConsiderNext
  <2>2. CASE candidates' # candidates \/ candidates[t] = {}
    BY <1>2, <2>2 DEF ConsiderNext
  <2>3. QED
    BY <2>1, <2>2
<1>3. ASSUME NEW t \in Threads, ExecuteTrade(t) \/ FinishMatching(t)
      PROVE  candidates'[u] # {}
  BY <1>3 DEF ExecuteTrade, FinishMatching
<1>4. ASSUME NEW t \in Threads, NotifyTrade(t) \/ Return(t)
      PROVE  candidates'[u] # {}
  BY <1>4 DEF NotifyTrade, Return
<1>5. CASE UNCHANGED vars
  BY <1>5 DEF vars, local
<1>6. QED
  BY <1>1, <1>2, <1>3, <1>4, <1>5 DEF Next, Submit, Continue, Loop

ReturnInv == TypeOK /\ SerialInv /\ MarketInv /\ CopyToTrade

LEMMA ReturnInvHolds == SerialSpec => []ReturnInv
<1>1. Init => CopyToTrade
  BY DEF Init, CopyToTrade
<1>2. SerialSpec => Init /\ [][SerialNext]_vars
  BY DEF SerialSpec
<1>3. QED
  BY <1>1, <1>2, CopyToTradeStep, SerialStep, MarketInvHolds, PTL DEF ReturnInv

(* A thread in the loop that has something left has copies of different orders,
   those of a price in the order they came. *)
LEMMA CandidatesApart ==
    ASSUME ReturnInv, NEW t \in Matching, Remaining(order[t]) > 0
    PROVE  /\ candidates[t] \subseteq Copies
           /\ \A c, d \in candidates[t] : c.order.id = d.order.id => c = d
           /\ \A c, d \in candidates[t] : c.order.price = d.order.price =>
                 (c.pos < d.pos <=> c.order.id < d.order.id)
<1> DEFINE side == Opposite(order[t].side)
           book == books[order[t].symbol]
<1>1. t \in Threads
  BY DEF Matching
<1>2. /\ { c.order : c \in candidates[t] } = OrdersOn(book, side)
      /\ \A c, d \in candidates[t] : c.order.price = d.order.price =>
            (c.pos < d.pos <=> c.order.id < d.order.id)
  BY <1>1 DEF ReturnInv, MarketInv, SnapshotInv
<1>3. candidates[t] \subseteq Copies
  BY <1>1 DEF ReturnInv, TypeOK
<1>4. ASSUME NEW c \in candidates[t], NEW d \in candidates[t], c.order.id = d.order.id
      PROVE  c = d
  <2>1. c.order \in OrdersOn(book, side) /\ d.order \in OrdersOn(book, side)
    BY <1>2
  <2>2. WellIndexed(book) /\ side \in Sides
    BY MatchingBook DEF ReturnInv
  <2>3. c.order = d.order
    BY <1>4, <2>1, <2>2, OneOrderPerId
  <2>4. /\ c = [pos |-> c.pos, order |-> c.order] /\ c.pos \in Nat
        /\ d = [pos |-> d.pos, order |-> d.order] /\ d.pos \in Nat
        /\ c.order.id \in Nat
    BY <1>3, OrderFields DEF Copies
  <2>5. ~ (c.pos < d.pos) /\ ~ (d.pos < c.pos)
    BY <1>2, <2>3, <2>4
  <2>6. QED
    BY <2>3, <2>4, <2>5
<1>5. QED
  BY <1>2, <1>3, <1>4

LEMMA ThreadCanLoop ==
    ASSUME ReturnInv, NEW t \in Matching
    PROVE  CanLoop(t)
<1>1. t \in Threads /\ pc[t] \in {"match", "trade"}
  BY DEF Matching
<1>2. ASSUME t \in Matching, Remaining(order[t]) > 0, candidates[t] # {}
      PROVE  \E c \in candidates[t] : IsNext(t, c)
  <2>1. Opposite(order[t].side) \in Sides
    BY <1>2, MatchingBook DEF ReturnInv
  <2>2. \E c \in candidates[t] : IsFirst(candidates[t], Opposite(order[t].side), c)
    BY <1>2, <2>1, CandidatesApart, FirstExists
  <2>3. QED
    BY <2>2 DEF IsNext
<1>3. CASE pc[t] = "match"
  <2>1. t \in Matching /\ Remaining(order[t]) \in Int
    BY <1>3, MatchingBook DEF Matching, ReturnInv
  <2>2. QED
    BY <1>2, <1>3, <2>1 DEF CanLoop, LoopEnds
<1>4. CASE pc[t] = "trade"
  <2>1. t \in Matching /\ Remaining(order[t]) > 0
    BY <1>4 DEF ReturnInv, SerialInv, PointerInv, Matching
  <2>2. candidates[t] # {}
    BY <1>1, <1>4 DEF ReturnInv, CopyToTrade
  <2>3. PICK c \in candidates[t] : IsNext(t, c)
    BY <1>2, <2>1, <2>2
  <2>4. InBounds(books[order[t].symbol], pointer[t])
    BY <1>1, <1>4, <2>3 DEF ReturnInv, SerialInv, PointerInv
  <2>5. QED
    BY <1>4, <2>3, <2>4 DEF CanLoop
<1>5. QED
  BY <1>1, <1>3, <1>4

(* One trade of an order with another: in a call, at most one. *)
TradesWith(t, id) ==
    /\ ExecuteTrade(t)
    /\ \E c \in candidates[t] : c.order.id = id /\ candidates'[t] = candidates[t] \ {c}

TradesNoMore(t, id) == <>[][~ TradesWith(t, id)]_vars

TradesAreOver(t) == <>[][\A id \in OrderIds : ~ TradesWith(t, id)]_vars

(* What a thread does with each of finitely many orders for the last time some
   time, it does for the last time: so it is of any behaviour, by an induction
   over the orders that takes temporal formulas, which the provers do not
   have.  (OrderIds is 1 .. MaxOrders.) *)
FinitelyManyOrders ==
    \A t \in Threads : (\A id \in OrderIds : TradesNoMore(t, id)) => TradesAreOver(t)

StaysInLoop(t) == <>[](t \in Matching)

(* What a step of the loop does to the copies. *)
LEMMA CopiesShrink ==
    ASSUME ReturnInv, NEW t \in Matching, [SerialNext]_vars, t \in Matching'
    PROVE  candidates'[t] \subseteq candidates[t]
<1> USE DEF ReturnInv, TypeOK, Matching
<1>1. ASSUME NEW u \in Threads, NEW o, SubmitOrder(u, o)
      PROVE  candidates'[t] \subseteq candidates[t]
  BY <1>1 DEF SubmitOrder
<1>2. ASSUME NEW u \in Threads, ConsiderNext(u) \/ ExecuteTrade(u) \/ FinishMatching(u)
      PROVE  candidates'[t] \subseteq candidates[t]
  <2>1. CASE ConsiderNext(u)
    <3>1. candidates' = candidates
      BY <2>1, ConsiderNextStep DEF MarketInv
    <3>2. QED
      BY <3>1
  <2>2. CASE ExecuteTrade(u)
    BY <2>2 DEF ExecuteTrade
  <2>3. CASE FinishMatching(u)
    BY <2>3 DEF FinishMatching
  <2>4. QED
    BY <1>2, <2>1, <2>2, <2>3
<1>3. ASSUME NEW u \in Threads, NotifyTrade(u) \/ Return(u)
      PROVE  candidates'[t] \subseteq candidates[t]
  BY <1>3 DEF NotifyTrade, Return
<1>4. CASE UNCHANGED vars
  BY <1>4 DEF vars, local
<1>5. QED
  BY <1>1, <1>2, <1>3, <1>4 DEF SerialNext, SerialSubmit, Continue, Loop

LEMMA TradedWithOnce ==
    ASSUME NEW t \in Threads, NEW id \in OrderIds
    PROVE  [][SerialNext]_vars /\ []ReturnInv /\ StaysInLoop(t) => TradesNoMore(t, id)
<1> DEFINE Gone == \A c \in candidates[t] : c.order.id # id
           Inside == t \in Matching
<1>1. ReturnInv /\ TradesWith(t, id) => Gone'
  <2> SUFFICES ASSUME ReturnInv, TradesWith(t, id) PROVE Gone'
    OBVIOUS
  <2>1. PICK c \in candidates[t] : c.order.id = id /\ candidates'[t] = candidates[t] \ {c}
    BY DEF TradesWith
  <2>2. t \in Matching /\ Remaining(order[t]) > 0
    BY DEF TradesWith, ExecuteTrade, Matching, ReturnInv, SerialInv, PointerInv
  <2>3. QED
    BY <2>1, <2>2, CandidatesApart
<1>2. TradesWith(t, id) => ~ Gone
  BY DEF TradesWith
<1>3. ReturnInv /\ Gone /\ Inside /\ Inside' /\ [SerialNext]_vars => Gone'
  BY CopiesShrink
<1> HIDE DEF Gone
<1>4. QED
  BY <1>1, <1>2, <1>3, PTL DEF StaysInLoop, TradesNoMore

(* A thread in the loop is moved by nobody else. *)
LEMMA OnlyLoopMoves ==
    ASSUME ReturnInv, NEW t \in Matching, [SerialNext]_vars
    PROVE  <<Loop(t)>>_vars \/ UNCHANGED pc[t]
<1> USE DEF ReturnInv, TypeOK, Matching
<1>1. ASSUME NEW u \in Threads, NEW o, SubmitOrder(u, o)
      PROVE  UNCHANGED pc[t]
  BY <1>1 DEF SubmitOrder
<1>2. ASSUME NEW u \in Threads, u # t, ConsiderNext(u)
      PROVE  UNCHANGED pc[t]
  BY <1>2 DEF ConsiderNext
<1>3. ASSUME NEW u \in Threads, u # t, ExecuteTrade(u) \/ FinishMatching(u)
      PROVE  UNCHANGED pc[t]
  BY <1>3 DEF ExecuteTrade, FinishMatching
<1>4. ASSUME NEW u \in Threads, NotifyTrade(u) \/ Return(u)
      PROVE  UNCHANGED pc[t]
  BY <1>4 DEF NotifyTrade, Return
<1>5. UNCHANGED vars => UNCHANGED pc[t]
  BY DEF vars, local
<1>6. Loop(t) => <<Loop(t)>>_vars \/ UNCHANGED pc[t]
  BY <1>5
<1>7. QED
  BY <1>1, <1>2, <1>3, <1>4, <1>5, <1>6 DEF SerialNext, SerialSubmit, Continue, Loop

LEMMA LoopIsLeft ==
    ASSUME NEW t \in Threads
    PROVE  [][SerialNext]_vars /\ []ReturnInv /\ []GuardsEnabled /\ Scheduled(t)
              /\ FinitelyManyOrders => ~ StaysInLoop(t)
<1> DEFINE Looking == pc[t] = "match"
           Trading == pc[t] = "trade"
           Inside == t \in Matching
           Some == ~ (\A id \in OrderIds : ~ TradesWith(t, id))
<1>1. Inside <=> Looking \/ Trading
  BY DEF Matching
<1>2. [][SerialNext]_vars /\ []ReturnInv /\ StaysInLoop(t)
         => \A id \in OrderIds : TradesNoMore(t, id)
  BY TradedWithOnce
<1>3. [][SerialNext]_vars /\ []ReturnInv /\ StaysInLoop(t) /\ FinitelyManyOrders
         => TradesAreOver(t)
  BY <1>2 DEF FinitelyManyOrders
<1>4. TradesAreOver(t) => <>[][~ Some]_vars
  BY PTL DEF TradesAreOver
<1>5. ReturnInv /\ Looking /\ [SerialNext]_vars => Looking' \/ <<Loop(t)>>_vars
  BY OnlyLoopMoves DEF Matching
<1>6. ReturnInv /\ Trading /\ [SerialNext]_vars => Trading' \/ <<Loop(t)>>_vars
  BY OnlyLoopMoves DEF Matching
<1>7. ReturnInv /\ Looking /\ Loop(t) => Trading' \/ ~ Inside'
  <2>1. ASSUME ReturnInv, Looking, ConsiderNext(t)
        PROVE  Trading'
    BY <2>1, ConsiderNextStep DEF ReturnInv, MarketInv
  <2>2. ASSUME ReturnInv, FinishMatching(t)
        PROVE  ~ Inside'
    BY <2>2 DEF FinishMatching, Matching, ReturnInv, TypeOK
  <2>3. Looking => ~ ExecuteTrade(t)
    BY DEF ExecuteTrade
  <2>4. QED
    BY <2>1, <2>2, <2>3 DEF Loop
<1>8. ReturnInv /\ Trading /\ Loop(t) => Some
  <2>1. Trading /\ Loop(t) => ExecuteTrade(t)
    BY DEF Loop, ConsiderNext, FinishMatching
  <2>2. ASSUME ReturnInv, ExecuteTrade(t)
        PROVE  Some
    <3>1. PICK c \in candidates[t] : candidates'[t] = candidates[t] \ {c}
      BY <2>2, ExecuteTradeStep DEF ReturnInv, MarketInv
    <3>2. c.order.id \in OrderIds
      BY OrderFields, <2>2 DEF ReturnInv, TypeOK, Copies
    <3>3. QED
      BY <2>2, <3>1, <3>2 DEF TradesWith
  <2>3. QED
    BY <2>1, <2>2
<1>9. ReturnInv /\ Inside => CanLoop(t)
  BY ThreadCanLoop
<1>10. GuardsEnabled /\ CanLoop(t) => ENABLED <<Loop(t)>>_vars
  BY DEF GuardsEnabled
<1> HIDE DEF Looking, Trading, Some
<1>11. QED
  BY <1>1, <1>3, <1>4, <1>5, <1>6, <1>7, <1>8, <1>9, <1>10, PTL DEF Scheduled, StaysInLoop

(* The matching of every order ends: the loop trades with each of finitely many
   orders once, and is left when nothing is left of the order or of the
   snapshot.  No other thread and no callback can keep it from that. *)
THEOREM MatchingComesToAnEnd ==
    SerialSpec /\ []GuardsEnabled /\ []FinitelyManyOrders => MatchingEnds
<1>1. ASSUME NEW t \in Threads
      PROVE  SerialSpec /\ []GuardsEnabled /\ []FinitelyManyOrders
                => (pc[t] \in {"match", "trade"} ~> pc[t] = "notify")
  <2> DEFINE Notify == pc[t] = "notify"
             Inside == t \in Matching
             Busy == pc[t] \in {"match", "trade"}
  <2>1. [][SerialNext]_vars /\ []ReturnInv /\ []GuardsEnabled /\ Scheduled(t)
        /\ FinitelyManyOrders
           => ~ StaysInLoop(t)
    BY LoopIsLeft
  <2>2. ReturnInv /\ Inside /\ [SerialNext]_vars => Inside' \/ Notify'
    <3>1. CASE UNCHANGED pc[t]
      BY <3>1 DEF Matching
    <3>2. ASSUME ReturnInv, Loop(t)
          PROVE  pc'[t] \in {"match", "trade", "notify"}
      BY <3>2 DEF Loop, ConsiderNext, ExecuteTrade, FinishMatching, ReturnInv, TypeOK
    <3>3. QED
      BY <3>1, <3>2, OnlyLoopMoves DEF Matching
  <2>3. SerialSpec => Init /\ [][SerialNext]_vars /\ Scheduled(t)
    BY DEF SerialSpec, Fairness
  <2>4. Busy <=> Inside
    BY DEF Matching
  <2> HIDE DEF Notify, Inside, Busy
  <2>5. StaysInLoop(t) <=> <>[]Inside
    BY DEF StaysInLoop, Inside
  <2>6. SerialSpec /\ []GuardsEnabled /\ []FinitelyManyOrders => (Busy ~> Notify)
    BY <2>1, <2>2, <2>3, <2>4, <2>5, ReturnInvHolds, PTL
  <2>7. QED
    BY <2>6 DEF Notify, Busy
<1>2. QED
  BY <1>1 DEF MatchingEnds
=============================================================================
