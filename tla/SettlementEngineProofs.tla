----------------------- MODULE SettlementEngineProofs ------------------------
(***************************************************************************)
(* Theorems about SettlementEngine, for every finite set of threads and of *)
(* traders and every set of symbols, prices and quantities.                *)
(***************************************************************************)
EXTENDS SettlementEngine, FiniteSetTheorems, TLAPS

(* Sums.  SumFunctionOnSet takes one element after the other out of a finite
   set; that it is defined, and independent of the order, is proved by
   looking at a smallest set for which it would not be. *)

(* Of a set of subsets of a finite set, one has no other below it. *)
LEMMA SmallestSubset ==
    ASSUME NEW S, IsFiniteSet(S), NEW Q \in SUBSET SUBSET S, Q # {}
    PROVE  \E T \in Q : \A U \in Q : ~ (U \subseteq T /\ U # T)
<1> DEFINE R == StrictSubsetOrdering(S)
<1>1. FiniteSubsetsOf(S) = SUBSET S
  BY FS_FiniteSubsetsOfFinite
<1>2. IsWellFoundedOn(R, SUBSET S)
  BY <1>1, FS_StrictSubsetOrderingWellFounded
<1> HIDE DEF R
<1>3. \E T \in Q : \A U \in Q : ~ (<<U, T>> \in R)
  <2> DEFINE W == SUBSET S
  <2>1. IsWellFoundedOn(R, W) /\ Q \subseteq W
    BY <1>2
  <2> HIDE DEF W
  <2>2. Q \subseteq W
    BY <2>1
  <2>3. \E x \in Q : \A y \in Q : ~ (<<y, x>> \in R)
    BY <2>1, <2>2, WFMin, Zenon
  <2>4. QED
    BY <2>3
<1>0. PICK T \in Q : \A U \in Q : ~ (<<U, T>> \in R)
  BY <1>3
<1>4. \A U \in Q : U \subseteq T /\ U # T => <<U, T>> \in R
  BY DEF R, StrictSubsetOrdering
<1>5. \A U \in Q : ~ (U \subseteq T /\ U # T)
  BY <1>0, <1>4
<1>6. QED
  BY <1>5

(* The element SumFunctionOnSet takes out of a set. *)
Taken(s) == CHOOSE x \in s : TRUE

(* g is a table of the sums of fun over the subsets of S, by the definition
   of SumFunctionOnSet. *)
Sums(g, fun, S) ==
    g = [s \in SUBSET S |-> IF s = {} THEN 0
                            ELSE fun[Taken(s)] + g[s \ {Taken(s)}]]

LEMMA SumsAt ==
    ASSUME NEW g, NEW fun, NEW S, Sums(g, fun, S), NEW s \in SUBSET S
    PROVE  /\ s = {} => g[s] = 0
           /\ s # {} => /\ Taken(s) \in s
                        /\ s \ {Taken(s)} \in SUBSET S
                        /\ g[s] = fun[Taken(s)] + g[s \ {Taken(s)}]
BY DEF Sums, Taken

LEMMA SumsAgree ==
    ASSUME NEW fun, NEW A, NEW B, NEW g, NEW h, Sums(g, fun, A), Sums(h, fun, B),
           NEW S, IsFiniteSet(S), S \subseteq A, S \subseteq B
    PROVE  g[S] = h[S]
<1> DEFINE Q == { s \in SUBSET S : g[s] # h[s] }
<1> SUFFICES ASSUME Q # {} PROVE FALSE
  OBVIOUS
<1>1. PICK T \in Q : \A U \in Q : ~ (U \subseteq T /\ U # T)
  <2> HIDE DEF Q
  <2>1. Q \in SUBSET SUBSET S
    BY DEF Q
  <2>2. QED
    BY <2>1, SmallestSubset
<1>2. T \in SUBSET S /\ T \in SUBSET A /\ T \in SUBSET B /\ g[T] # h[T]
  OBVIOUS
<1>3. T # {}
  BY <1>2, SumsAt
<1>4. /\ Taken(T) \in T
      /\ g[T] = fun[Taken(T)] + g[T \ {Taken(T)}]
      /\ h[T] = fun[Taken(T)] + h[T \ {Taken(T)}]
  <2>1. Taken(T) \in T /\ g[T] = fun[Taken(T)] + g[T \ {Taken(T)}]
    BY <1>2, <1>3, SumsAt
  <2>2. h[T] = fun[Taken(T)] + h[T \ {Taken(T)}]
    BY <1>2, <1>3, SumsAt
  <2>3. QED
    BY <2>1, <2>2
<1>5. g[T \ {Taken(T)}] = h[T \ {Taken(T)}]
  <2>1. T \ {Taken(T)} \notin Q
    BY <1>1, <1>4
  <2>2. QED
    BY <2>1, <1>2
<1>6. QED
  BY <1>2, <1>4, <1>5

LEMMA SumsExist ==
    ASSUME NEW fun, NEW S, IsFiniteSet(S)
    PROVE  \E g : Sums(g, fun, S)
<1> DEFINE Q == { s \in SUBSET S : ~ \E g : Sums(g, fun, s) }
<1> SUFFICES ASSUME Q # {} PROVE FALSE
  OBVIOUS
<1>1. PICK T \in Q : \A U \in Q : ~ (U \subseteq T /\ U # T)
  <2> HIDE DEF Q
  <2>1. Q \in SUBSET SUBSET S
    BY DEF Q
  <2>2. QED
    BY <2>1, SmallestSubset
<1> DEFINE Table(s) == CHOOSE g : Sums(g, fun, s)
           h == [s \in SUBSET T |->
                   IF s = {} THEN 0
                   ELSE fun[Taken(s)] + Table(s \ {Taken(s)})[s \ {Taken(s)}]]
<1>2. \A u \in SUBSET T : u # T => Sums(Table(u), fun, u)
  BY <1>1
<1>3. \A u \in SUBSET T : IsFiniteSet(u)
  <2>1. \A u \in SUBSET T : u \in SUBSET S
    OBVIOUS
  <2>2. QED
    BY <2>1, FS_Subset
<1>4. ASSUME NEW u \in SUBSET T, u # T
      PROVE  h[u] = Table(u)[u]
  <2> DEFINE tu == Table(u)
  <2>1. Sums(tu, fun, u) /\ u \in SUBSET u
    BY <1>2, <1>4
  <2>2. CASE u = {}
    <3> HIDE DEF tu
    <3>1. tu[u] = 0
      BY <2>1, <2>2, SumsAt
    <3>2. h[u] = 0
      BY <2>2
    <3>3. QED
      BY <3>1, <3>2 DEF tu
  <2>3. CASE u # {}
    <3> DEFINE v == u \ {Taken(u)}
               tv == Table(v)
    <3>1. h[u] = fun[Taken(u)] + tv[v]
      BY <2>3
    <3>2. v \in SUBSET T /\ v # T /\ v \subseteq u /\ IsFiniteSet(v)
      <4>1. v \in SUBSET T /\ v # T /\ v \subseteq u
        BY <1>4
      <4>2. QED
        BY <4>1, <1>3
    <3>3. Sums(tv, fun, v)
      BY <1>2, <3>2
    <3>4. tu[u] = fun[Taken(u)] + tu[v]
      <4> HIDE DEF tu
      <4>1. QED
        BY <2>1, <2>3, SumsAt
    <3>5. tu[v] = tv[v]
      <4> HIDE DEF tu, tv, v
      <4>1. QED
        BY <2>1, <3>2, <3>3, SumsAgree
    <3>6. QED
      BY <3>1, <3>4, <3>5
  <2>4. QED
    BY <2>2, <2>3
<1>5. Sums(h, fun, T)
  <2>1. ASSUME NEW s \in SUBSET T, s # {}
        PROVE  h[s \ {Taken(s)}] = Table(s \ {Taken(s)})[s \ {Taken(s)}]
    <3>1. Taken(s) \in s
      BY <2>1 DEF Taken
    <3>2. s \ {Taken(s)} \in SUBSET T /\ s \ {Taken(s)} # T
      BY <3>1
    <3> HIDE DEF h, Table
    <3>3. QED
      BY <1>4, <3>2
  <2>2. h = [s \in SUBSET T |-> IF s = {} THEN 0
                                ELSE fun[Taken(s)] + h[s \ {Taken(s)}]]
    <3> DEFINE E(s) == IF s = {} THEN 0
                     ELSE fun[Taken(s)] + Table(s \ {Taken(s)})[s \ {Taken(s)}]
               F(s) == IF s = {} THEN 0 ELSE fun[Taken(s)] + h[s \ {Taken(s)}]
    <3>1. h = [s \in SUBSET T |-> E(s)]
      OBVIOUS
    <3>2. \A s \in SUBSET T : E(s) = F(s)
      <4> HIDE DEF h, Table
      <4>1. QED
        BY <2>1
    <3>3. [s \in SUBSET T |-> E(s)] = [s \in SUBSET T |-> F(s)]
      <4> HIDE DEF E, F
      <4>1. QED
        BY <3>2
    <3>4. h = [s \in SUBSET T |-> F(s)]
      <4> HIDE DEF h, E, F
      <4>1. QED
        BY <3>1, <3>3
    <3>5. QED
      BY <3>4
  <2> HIDE DEF h
  <2>3. QED
    BY <2>2 DEF Sums
<1>6. T \in Q
  OBVIOUS
<1> HIDE DEF h
<1>7. QED
  BY <1>5, <1>6

----------------------------------------------------------------------------
(* SumFunctionOnSet. *)

LEMMA SumIs ==
    ASSUME NEW fun, NEW S, IsFiniteSet(S)
    PROVE  \E g : Sums(g, fun, S) /\ SumFunctionOnSet(fun, S) = g[S]
<1> DEFINE G == CHOOSE g : Sums(g, fun, S)
<1>1. Sums(G, fun, S)
  BY SumsExist
<1>2. SumFunctionOnSet(fun, S) = G[S]
  BY DEF SumFunctionOnSet, FoldFunctionOnSet, MapThenFoldSet, Sums, Taken
<1>3. QED
  BY <1>1, <1>2

LEMMA SumOfNone ==
    ASSUME NEW fun
    PROVE  SumFunctionOnSet(fun, {}) = 0
<1> DEFINE S == {}
<1>1. IsFiniteSet(S) /\ S \in SUBSET S
  BY FS_EmptySet
<1> SUFFICES SumFunctionOnSet(fun, S) = 0
  OBVIOUS
<1>2. S = {}
  OBVIOUS
<1> HIDE DEF S
<1>3. PICK g : Sums(g, fun, S) /\ SumFunctionOnSet(fun, S) = g[S]
  BY <1>1, SumIs
<1>4. g[S] = 0
  BY <1>1, <1>2, <1>3, SumsAt
<1>5. QED
  BY <1>3, <1>4

LEMMA SumTaken ==
    ASSUME NEW fun, NEW S, IsFiniteSet(S), S # {}
    PROVE  /\ Taken(S) \in S
           /\ SumFunctionOnSet(fun, S) =
                 fun[Taken(S)] + SumFunctionOnSet(fun, S \ {Taken(S)})
<1> DEFINE v == S \ {Taken(S)}
<1>1. PICK g : Sums(g, fun, S) /\ SumFunctionOnSet(fun, S) = g[S]
  BY SumIs
<1>2. Taken(S) \in S /\ g[S] = fun[Taken(S)] + g[v]
  BY <1>1, SumsAt
<1>3. IsFiniteSet(v) /\ v \subseteq S
  BY FS_RemoveElement
<1> HIDE DEF v
<1>4. PICK h : Sums(h, fun, v) /\ SumFunctionOnSet(fun, v) = h[v]
  BY <1>3, SumIs
<1>5. g[v] = h[v]
  BY <1>1, <1>3, <1>4, SumsAgree
<1>6. QED
  BY <1>1, <1>2, <1>4, <1>5 DEF v

LEMMA SumIsInteger ==
    ASSUME NEW S, IsFiniteSet(S), NEW fun, \A x \in S : fun[x] \in Int
    PROVE  SumFunctionOnSet(fun, S) \in Int
<1> DEFINE Q == { s \in SUBSET S : SumFunctionOnSet(fun, s) \notin Int }
<1> SUFFICES ASSUME Q # {} PROVE FALSE
  OBVIOUS
<1>1. PICK T \in Q : \A U \in Q : ~ (U \subseteq T /\ U # T)
  <2> HIDE DEF Q
  <2>1. Q \in SUBSET SUBSET S
    BY DEF Q
  <2>2. QED
    BY <2>1, SmallestSubset
<1>2. T \subseteq S /\ IsFiniteSet(T) /\ SumFunctionOnSet(fun, T) \notin Int
  BY FS_Subset
<1>3. T # {}
  BY <1>2, SumOfNone
<1> DEFINE v == T \ {Taken(T)}
<1>4. /\ Taken(T) \in T
      /\ SumFunctionOnSet(fun, T) = fun[Taken(T)] + SumFunctionOnSet(fun, v)
  BY <1>2, <1>3, SumTaken
<1>5. v \subseteq T /\ v # T /\ v \in SUBSET S
  BY <1>2, <1>4
<1>6. SumFunctionOnSet(fun, v) \in Int
  BY <1>1, <1>5
<1>7. QED
  BY <1>2, <1>4, <1>6

(* Any element may be added last. *)
LEMMA SumOfOneMore ==
    ASSUME NEW S, IsFiniteSet(S), NEW fun, \A x \in S : fun[x] \in Int,
           NEW y \in S
    PROVE  SumFunctionOnSet(fun, S) = fun[y] + SumFunctionOnSet(fun, S \ {y})
<1> DEFINE Sum(s) == SumFunctionOnSet(fun, s)
           Q == { s \in SUBSET S : \E z \in s : Sum(s) # fun[z] + Sum(s \ {z}) }
<1> SUFFICES ASSUME Q # {} PROVE FALSE
  OBVIOUS
<1>1. PICK T \in Q : \A U \in Q : ~ (U \subseteq T /\ U # T)
  <2> HIDE DEF Q
  <2>1. Q \in SUBSET SUBSET S
    BY DEF Q
  <2>2. QED
    BY <2>1, SmallestSubset
<1>2. \A s \in SUBSET S : IsFiniteSet(s) /\ Sum(s) \in Int
  <2>1. ASSUME NEW s \in SUBSET S PROVE IsFiniteSet(s) /\ Sum(s) \in Int
    <3>1. IsFiniteSet(s) /\ \A x \in s : fun[x] \in Int
      BY FS_Subset
    <3>2. QED
      BY <3>1, SumIsInteger
  <2>2. QED
    BY <2>1
<1>3. PICK z \in T : Sum(T) # fun[z] + Sum(T \ {z})
  OBVIOUS
<1> DEFINE x == Taken(T)
<1>4. T \in SUBSET S /\ x \in T /\ Sum(T) = fun[x] + Sum(T \ {x})
  <2>1. T \in SUBSET S /\ T # {}
    OBVIOUS
  <2>2. IsFiniteSet(T)
    BY <1>2, <2>1
  <2>3. QED
    BY <2>1, <2>2, SumTaken
<1> DEFINE a == T \ {x}
           b == T \ {z}
           c == (T \ {x}) \ {z}
<1>5. x # z
  BY <1>3, <1>4
<1>6. /\ a \in SUBSET S /\ a \subseteq T /\ a # T /\ z \in a
      /\ b \in SUBSET S /\ b \subseteq T /\ b # T /\ x \in b
      /\ c \in SUBSET S /\ c = a \ {z} /\ c = b \ {x}
  <2> HIDE DEF x
  <2>1. QED
    BY <1>3, <1>4, <1>5
<1> HIDE DEF x, Sum
<1>7. \A s \in SUBSET S : s \subseteq T /\ s # T =>
         \A w \in s : Sum(s) = fun[w] + Sum(s \ {w})
  BY <1>1
<1> HIDE DEF a, b, c, Q
<1>8. Sum(a) = fun[z] + Sum(c) /\ Sum(b) = fun[x] + Sum(c)
  BY <1>6, <1>7
<1>9. Sum(T) = fun[x] + Sum(a) /\ Sum(T) # fun[z] + Sum(b)
  BY <1>3, <1>4 DEF a, b
<1>10. fun[x] \in Int /\ fun[z] \in Int /\ Sum(c) \in Int
  BY <1>2, <1>3, <1>4, <1>6
<1>11. QED
  BY <1>8, <1>9, <1>10

LEMMA SumOfSame ==
    ASSUME NEW S, IsFiniteSet(S), NEW f, NEW g, \A x \in S : f[x] = g[x]
    PROVE  SumFunctionOnSet(f, S) = SumFunctionOnSet(g, S)
<1> DEFINE Q == { s \in SUBSET S :
                    SumFunctionOnSet(f, s) # SumFunctionOnSet(g, s) }
<1> SUFFICES ASSUME Q # {} PROVE FALSE
  OBVIOUS
<1>1. PICK T \in Q : \A U \in Q : ~ (U \subseteq T /\ U # T)
  <2> HIDE DEF Q
  <2>1. Q \in SUBSET SUBSET S
    BY DEF Q
  <2>2. QED
    BY <2>1, SmallestSubset
<1>2. /\ T \subseteq S /\ IsFiniteSet(T)
      /\ SumFunctionOnSet(f, T) # SumFunctionOnSet(g, T)
  BY FS_Subset
<1>3. T # {}
  BY <1>2, SumOfNone
<1> DEFINE v == T \ {Taken(T)}
<1>4. Taken(T) \in T
  BY <1>3 DEF Taken
<1>5. /\ SumFunctionOnSet(f, T) = f[Taken(T)] + SumFunctionOnSet(f, v)
      /\ SumFunctionOnSet(g, T) = g[Taken(T)] + SumFunctionOnSet(g, v)
  BY <1>2, <1>3, SumTaken
<1>6. v \subseteq T /\ v # T /\ v \in SUBSET S
  BY <1>2, <1>4
<1>7. SumFunctionOnSet(f, v) = SumFunctionOnSet(g, v)
  BY <1>1, <1>6
<1>8. QED
  BY <1>2, <1>4, <1>5, <1>7

LEMMA SumChangedAt ==
    ASSUME NEW S, IsFiniteSet(S), NEW f, NEW g,
           \A x \in S : f[x] \in Int /\ g[x] \in Int,
           NEW y \in S, \A x \in S \ {y} : f[x] = g[x]
    PROVE  SumFunctionOnSet(g, S) = SumFunctionOnSet(f, S) + (g[y] - f[y])
<1> DEFINE v == S \ {y}
<1>1. IsFiniteSet(v) /\ \A x \in v : f[x] \in Int /\ g[x] \in Int
  BY FS_RemoveElement
<1>2. /\ SumFunctionOnSet(f, S) = f[y] + SumFunctionOnSet(f, v)
      /\ SumFunctionOnSet(g, S) = g[y] + SumFunctionOnSet(g, v)
  BY SumOfOneMore
<1>3. SumFunctionOnSet(f, v) = SumFunctionOnSet(g, v)
  <2>1. \A x \in v : f[x] = g[x]
    OBVIOUS
  <2> HIDE DEF v
  <2>2. QED
    BY <1>1, <2>1, SumOfSame
<1>4. SumFunctionOnSet(f, v) \in Int
  <2> HIDE DEF v
  <2>1. QED
    BY <1>1, SumIsInteger
<1> HIDE DEF v
<1>5. f[y] \in Int /\ g[y] \in Int
  OBVIOUS
<1>6. QED
  BY <1>2, <1>3, <1>4, <1>5

(* What goes from one to another leaves the sum. *)
LEMMA SumKeptByTransfer ==
    ASSUME NEW S, IsFiniteSet(S), NEW f, NEW g,
           \A x \in S : f[x] \in Int /\ g[x] \in Int,
           NEW y \in S, NEW z \in S, y # z,
           \A x \in S \ {y, z} : f[x] = g[x], f[y] + f[z] = g[y] + g[z]
    PROVE  SumFunctionOnSet(g, S) = SumFunctionOnSet(f, S)
<1> DEFINE v == S \ {y}
<1>1. /\ IsFiniteSet(v) /\ \A x \in v : f[x] \in Int /\ g[x] \in Int
      /\ z \in v /\ \A x \in v \ {z} : f[x] = g[x]
  BY FS_RemoveElement
<1>2. /\ SumFunctionOnSet(f, S) = f[y] + SumFunctionOnSet(f, v)
      /\ SumFunctionOnSet(g, S) = g[y] + SumFunctionOnSet(g, v)
  BY SumOfOneMore
<1> HIDE DEF v
<1>3. SumFunctionOnSet(g, v) = SumFunctionOnSet(f, v) + (g[z] - f[z])
  BY <1>1, SumChangedAt
<1>4. SumFunctionOnSet(f, v) \in Int
  BY <1>1, SumIsInteger
<1> DEFINE a == f[y]
           b == f[z]
           c == g[y]
           d == g[z]
           s == SumFunctionOnSet(f, v)
<1>5. a \in Int /\ b \in Int /\ c \in Int /\ d \in Int /\ s \in Int /\ a + b = c + d
  BY <1>4
<1>6. /\ SumFunctionOnSet(f, S) = a + s
      /\ SumFunctionOnSet(g, S) = c + (s + (d - b))
  BY <1>2, <1>3
<1> HIDE DEF a, b, c, d, s
<1>7. c + (s + (d - b)) = a + s
  BY <1>5
<1>8. QED
  BY <1>6, <1>7

LEMMA SumOfEqual ==
    ASSUME NEW S, IsFiniteSet(S), NEW c \in Int, NEW f, \A x \in S : f[x] = c
    PROVE  SumFunctionOnSet(f, S) = c * Cardinality(S)
<1> DEFINE Q == { s \in SUBSET S : SumFunctionOnSet(f, s) # c * Cardinality(s) }
<1> SUFFICES ASSUME Q # {} PROVE FALSE
  OBVIOUS
<1>1. PICK T \in Q : \A U \in Q : ~ (U \subseteq T /\ U # T)
  <2> HIDE DEF Q
  <2>1. Q \in SUBSET SUBSET S
    BY DEF Q
  <2>2. QED
    BY <2>1, SmallestSubset
<1>2. /\ T \subseteq S /\ IsFiniteSet(T)
      /\ SumFunctionOnSet(f, T) # c * Cardinality(T)
  BY FS_Subset
<1>3. T # {}
  <2>1. c * 0 = 0
    OBVIOUS
  <2>2. QED
    BY <1>2, <2>1, SumOfNone, FS_EmptySet
<1> DEFINE v == T \ {Taken(T)}
<1>4. Taken(T) \in T
  BY <1>3 DEF Taken
<1>5. SumFunctionOnSet(f, T) = c + SumFunctionOnSet(f, v)
  BY <1>2, <1>3, <1>4, SumTaken
<1>6. v \subseteq T /\ v # T /\ v \in SUBSET S
  BY <1>2, <1>4
<1>7. SumFunctionOnSet(f, v) = c * Cardinality(v)
  BY <1>1, <1>6
<1>8. Cardinality(v) = Cardinality(T) - 1 /\ Cardinality(T) \in Nat
  BY <1>2, <1>4, FS_RemoveElement, FS_CardinalityType
<1>9. \A n \in Nat : c + c * (n - 1) = c * n
  OBVIOUS
<1>10. QED
  BY <1>2, <1>5, <1>7, <1>8, <1>9

----------------------------------------------------------------------------
(* Threads and trades. *)

(* A thread between two trades has loaded nothing, and one that has trades
   to settle is in settleTrades. *)
ThreadsInOrder ==
    \A t \in Threads :
        /\ batch[t] # << >> => t \in running
        /\ loaded[t] # None => step[t] \in 1 .. 4

TypeInv == TypeOK /\ ThreadsInOrder

----------------------------------------------------------------------------
(* Operators. *)

LEMMA CostInt ==
    ASSUME NEW trade \in TradeValues
    PROVE  /\ Cost(trade) \in Int /\ - Cost(trade) \in Int
           /\ trade.buyer \in Traders /\ trade.seller \in Traders
           /\ trade.symbol \in Assets /\ trade.symbol # Cash /\ Cash \in Assets
           /\ trade.quantity \in Int /\ - trade.quantity \in Int
<1>1. trade.price \in Int /\ trade.quantity \in Int
  <2>1. trade.price \in Prices /\ trade.quantity \in Quantities
    BY DEF TradeValues
  <2>2. Prices \subseteq Int /\ Quantities \subseteq Nat
    BY SettlementAssumption
  <2>3. trade.price \in Int /\ trade.quantity \in Nat
    BY <2>1, <2>2
  <2>4. QED
    BY <2>3
<1>2. Cost(trade) \in Int /\ - Cost(trade) \in Int /\ - trade.quantity \in Int
  BY <1>1 DEF Cost
<1>3. trade.buyer \in Traders /\ trade.seller \in Traders /\ trade.symbol \in Symbols
  BY DEF TradeValues
<1>4. trade.symbol \in Assets /\ trade.symbol # Cash /\ Cash \in Assets
  BY <1>3, SettlementAssumption DEF Assets
<1>5. QED
  BY <1>1, <1>2, <1>3, <1>4

(* An update is of an account of one of the trade's two parties; of the two
   that change a balance the first takes the cost and the third gives it. *)
LEMMA UpdateValue ==
    ASSUME NEW trade \in TradeValues, NEW i \in 1 .. 4
    PROVE  /\ Updates(trade)[i].account \in {trade.buyer, trade.seller}
           /\ Updates(trade)[i].asset \in Assets
           /\ Updates(trade)[i].by \in Int
           /\ i = 1 => /\ Updates(trade)[i].account = trade.buyer
                       /\ Updates(trade)[i].asset = Cash
                       /\ Updates(trade)[i].by = - Cost(trade)
           /\ i # 1 /\ Updates(trade)[i].asset = Cash =>
                 Updates(trade)[i].by = Cost(trade)
<1>1. CASE i = 1
  BY <1>1, CostInt DEF Updates
<1>2. CASE i = 2
  BY <1>2, CostInt DEF Updates
<1>3. CASE i = 3
  BY <1>3, CostInt DEF Updates
<1>4. CASE i = 4
  BY <1>4, CostInt DEF Updates
<1>5. QED
  BY <1>1, <1>2, <1>3, <1>4

LEMMA BatchesAreSequences ==
    ASSUME NEW list \in Batches
    PROVE  list \in Seq(TradeValues)
<1>1. PICK n \in 1 .. MaxBatch : list \in [1 .. n -> TradeValues]
  BY DEF Batches
<1>2. n \in Nat
  BY SettlementAssumption
<1>3. QED
  BY <1>1, <1>2

LEMMA PartiesOfTail ==
    ASSUME NEW list \in Seq(TradeValues), list # << >>
    PROVE  /\ Head(list) \in TradeValues
           /\ Tail(list) \in Seq(TradeValues)
           /\ Parties(Tail(list)) \subseteq Parties(list)
           /\ {Head(list).buyer, Head(list).seller} \subseteq Parties(list)
<1>1. Head(list) \in TradeValues /\ Tail(list) \in Seq(TradeValues)
  OBVIOUS
<1>2. 1 \in DOMAIN list /\ Head(list) = list[1]
  OBVIOUS
<1>3. \A i \in DOMAIN Tail(list) : i + 1 \in DOMAIN list /\ Tail(list)[i] = list[i + 1]
  OBVIOUS
<1>4. QED
  BY <1>1, <1>2, <1>3 DEF Parties

LEMMA PartiesAreTraders ==
    ASSUME NEW list \in Seq(TradeValues)
    PROVE  Parties(list) \subseteq Traders
<1>1. ASSUME NEW i \in DOMAIN list
      PROVE  list[i].buyer \in Traders /\ list[i].seller \in Traders
  <2>1. list[i] \in TradeValues
    OBVIOUS
  <2>2. QED
    BY <2>1 DEF TradeValues
<1>2. QED
  BY <1>1 DEF Parties

----------------------------------------------------------------------------
(* Types. *)

LEMMA SettleInit == Init => TypeInv
<1> SUFFICES ASSUME Init PROVE TypeInv
  OBVIOUS
<1>1. holding \in [Traders -> [Assets -> Int]]
  <2>1. InitialBalance \in Int /\ 0 \in Int
    BY SettlementAssumption
  <2>2. QED
    BY <2>1 DEF Init
<1>2. calls \in 0 .. MaxCalls
  BY SettlementAssumption DEF Init
<1>3. TypeOK
  <2>1. << >> \in Seq(TradeValues)
    OBVIOUS
  <2>2. batch \in [Threads -> Seq(TradeValues)]
    BY <2>1 DEF Init
  <2>3. accounts \in [Threads -> SUBSET Traders]
    BY DEF Init
  <2>4. step \in [Threads -> 0 .. 5] /\ running \subseteq Threads
    BY DEF Init
  <2>5. loaded \in [Threads -> Int \cup {None}]
    BY DEF Init
  <2>6. terminated \in BOOLEAN
    BY DEF Init
  <2>7. \A t \in Threads : step[t] = 0
    BY DEF Init
  <2>8. QED
    BY <1>1, <1>2, <2>2, <2>3, <2>4, <2>5, <2>6, <2>7 DEF TypeOK
<1>4. ThreadsInOrder
  BY DEF Init, ThreadsInOrder
<1>5. QED
  BY <1>3, <1>4 DEF TypeInv

(* What a thread in a trade may rely on. *)
LEMMA InTrade ==
    ASSUME TypeInv, NEW t \in Threads, step[t] # 0
    PROVE  /\ batch[t] \in Seq(TradeValues) /\ batch[t] # << >>
           /\ Trade(t) \in TradeValues
           /\ step[t] \in 1 .. 4 =>
                 /\ Update(t).account \in {Trade(t).buyer, Trade(t).seller}
                 /\ Update(t).account \in Traders
                 /\ Update(t).asset \in Assets
                 /\ Update(t).by \in Int
<1>1. batch[t] \in Seq(TradeValues) /\ batch[t] # << >>
  BY DEF TypeInv, TypeOK
<1>2. Trade(t) \in TradeValues
  BY <1>1, PartiesOfTail DEF Trade
<1>3. QED
  BY <1>1, <1>2, UpdateValue, CostInt DEF Update

LEMMA CallKeepsTypes ==
    ASSUME TypeInv, NEW t \in Threads, NEW lists \in SUBSET Batches, Call(t, lists)
    PROVE  TypeInv'
<1> USE DEF TypeInv
<1>1. PICK list \in lists : \E passed \in Passed(list) : SettleTrades(t, list, passed)
  BY DEF Call
<1>2. PICK passed \in Passed(list) : SettleTrades(t, list, passed)
  BY <1>1
<1>3. list \in Seq(TradeValues)
  BY BatchesAreSequences
<1>4. passed \subseteq Traders
  BY <1>3, PartiesAreTraders DEF Passed
<1>5. calls' \in 0 .. MaxCalls
  BY SettlementAssumption DEF Call, TypeOK
<1>7. step[t] = 0 /\ loaded[t] = None
  BY DEF Call, ThreadsInOrder, TypeOK
<1>6. TypeOK'
  <2>1. \A u \in Threads : u # t => /\ batch'[u] = batch[u] /\ step'[u] = step[u]
                                    /\ accounts'[u] = accounts[u] /\ Trade(u)' = Trade(u)
    BY <1>2 DEF SettleTrades, TypeOK, Trade
  <2>2. \A u \in Threads : step'[u] # 0 =>
          batch'[u] # << >> /\ {Trade(u)'.buyer, Trade(u)'.seller} \subseteq accounts'[u]
    BY <1>2, <1>7, <2>1 DEF SettleTrades, TypeOK
  <2>3. QED
    BY <1>2, <1>3, <1>4, <1>5, <2>2 DEF SettleTrades, TypeOK
<1>8. ThreadsInOrder'
  BY <1>2, <1>7 DEF SettleTrades, ThreadsInOrder, TypeOK
<1>9. QED
  BY <1>6, <1>8

LEMMA NextTradeKeepsTypes ==
    ASSUME TypeInv, NEW t \in Threads, batch[t] # << >>, loaded[t] = None,
           NextTrade(t),
           UNCHANGED <<holding, accounts, loaded, running, terminated, calls>>
    PROVE  TypeInv'
<1> USE DEF TypeInv
<1>1. Tail(batch[t]) \in Seq(TradeValues)
  BY PartiesOfTail DEF TypeOK
<1>2. TypeOK'
  <2>1. step'[t] = 0 /\ \A u \in Threads : u # t =>
          /\ batch'[u] = batch[u] /\ step'[u] = step[u] /\ Trade(u)' = Trade(u)
    BY DEF NextTrade, TypeOK, Trade
  <2>2. \A u \in Threads : step'[u] # 0 =>
          batch'[u] # << >> /\ {Trade(u)'.buyer, Trade(u)'.seller} \subseteq accounts'[u]
    BY <2>1 DEF TypeOK
  <2>3. QED
    BY <1>1, <2>2 DEF NextTrade, TypeOK
<1>3. ThreadsInOrder'
  BY DEF NextTrade, ThreadsInOrder, TypeOK
<1>4. QED
  BY <1>2, <1>3

LEMMA StoreKeepsTypes ==
    ASSUME TypeInv, NEW t \in Threads, Store(t)
    PROVE  TypeInv'
<1> USE DEF TypeInv, Store
<1>1. step[t] \in 1 .. 4 /\ loaded[t] \in Int
  BY DEF ThreadsInOrder, TypeOK
<1>2. /\ Update(t).account \in Traders /\ Update(t).asset \in Assets
      /\ Update(t).by \in Int
  BY <1>1, InTrade
<1>3. loaded[t] + Update(t).by \in Int
  BY <1>1, <1>2
<1>4. holding' \in [Traders -> [Assets -> Int]]
  BY <1>2, <1>3 DEF TypeOK
<1>5. TypeOK'
  BY <1>1, <1>4 DEF TypeOK, Trade
<1>6. ThreadsInOrder'
  BY <1>1 DEF ThreadsInOrder, TypeOK
<1>7. QED
  BY <1>5, <1>6

LEMMA ContinueKeepsTypes ==
    ASSUME TypeInv, NEW t \in Threads, Continue(t)
    PROVE  TypeInv'
<1> USE DEF TypeInv
<1>1. CASE SettleTrade(t)
  <2>1. step[t] = 0 /\ loaded[t] = None /\ batch[t] # << >>
    BY <1>1 DEF SettleTrade, ThreadsInOrder
  <2>2. CASE NextTrade(t) /\ UNCHANGED terminated
    BY <1>1, <2>1, <2>2, NextTradeKeepsTypes DEF SettleTrade
  <2>3. CASE terminated' = TRUE /\ UNCHANGED <<batch, step>>
    BY <1>1, <2>3 DEF SettleTrade, TypeOK, ThreadsInOrder, Trade
  <2>4. CASE /\ AccountsFound(Trade(t), accounts[t])
             /\ step' = [step EXCEPT ![t] = 1] /\ UNCHANGED <<batch, terminated>>
    <3>1. \A u \in Threads : Trade(u)' = Trade(u)
      BY <2>4 DEF Trade
    <3>2. \A u \in Threads : step'[u] # 0 =>
            batch'[u] # << >> /\ {Trade(u)'.buyer, Trade(u)'.seller} \subseteq accounts'[u]
      BY <1>1, <2>1, <2>4, <3>1 DEF SettleTrade, TypeOK, AccountsFound
    <3>3. TypeOK'
      BY <1>1, <2>4, <3>2 DEF SettleTrade, TypeOK
    <3>4. ThreadsInOrder'
      BY <1>1, <2>1, <2>4 DEF SettleTrade, TypeOK, ThreadsInOrder
    <3>5. QED
      BY <3>3, <3>4
  <2>5. QED
    BY <1>1, <2>2, <2>3, <2>4 DEF SettleTrade, Withdraw
<1>3. CASE Load(t)
  <2>1. Update(t).account \in Traders /\ Update(t).asset \in Assets
    BY <1>3, InTrade DEF Load
  <2>2. holding[Update(t).account][Update(t).asset] \in Int
    BY <2>1 DEF TypeOK
  <2>3. UNCHANGED <<batch, step, accounts>> /\ \A u \in Threads : Trade(u)' = Trade(u)
    BY <1>3 DEF Load, Trade
  <2>4. loaded' \in [Threads -> Int \cup {None}]
    BY <1>3, <2>2 DEF Load, TypeOK
  <2>5. TypeOK'
    BY <1>3, <2>3, <2>4 DEF Load, TypeOK
  <2>6. ThreadsInOrder'
    BY <1>3, <2>3 DEF Load, TypeOK, ThreadsInOrder
  <2>7. QED
    BY <2>5, <2>6
<1>4. CASE Store(t)
  BY <1>4, StoreKeepsTypes
<1>5. CASE NotifySettlement(t)
  <2>1. batch[t] # << >> /\ loaded[t] = None
    <3>1. step[t] = 5 /\ step[t] \notin 1 .. 4 /\ step[t] # 0
      BY <1>5 DEF NotifySettlement
    <3>2. batch[t] # << >>
      BY <3>1 DEF TypeOK
    <3>3. loaded[t] = None
      BY <3>1 DEF ThreadsInOrder
    <3>4. QED
      BY <3>2, <3>3
  <2>2. QED
    BY <1>5, <2>1, NextTradeKeepsTypes DEF NotifySettlement
<1>6. CASE Return(t)
  <2>1. /\ step[t] = 0 /\ UNCHANGED <<batch, step>>
        /\ \A u \in Threads : u # t => accounts'[u] = accounts[u]
    BY <1>6 DEF Return, TypeOK
  <2>2. QED
    BY <1>6, <2>1 DEF Return, TypeOK, ThreadsInOrder, Trade
<1>7. QED
  BY <1>1, <1>3, <1>4, <1>5, <1>6 DEF Continue

LEMMA StutterKeepsTypes == TypeInv /\ UNCHANGED vars => TypeInv'
BY DEF vars, TypeInv, TypeOK, ThreadsInOrder, Trade

LEMMA TypeStep == TypeInv /\ [Next]_vars => TypeInv'
BY CallKeepsTypes, ContinueKeepsTypes, StutterKeepsTypes DEF Next

LEMMA TypeInvariant == Spec => []TypeInv
BY SettleInit, TypeStep, PTL DEF Spec

(* The variables keep their types however the settlements of different
   threads overlap: no thread reads past its trades, and settleTrade always
   has both accounts of its trade. *)
THEOREM SettlementTypesCorrect == Spec => []TypeOK
<1>1. TypeInv => TypeOK
  BY DEF TypeInv
<1>2. QED
  BY <1>1, TypeInvariant, PTL

----------------------------------------------------------------------------
(* No overdraft, when settlements under way have no account in common. *)

(* The discipline of SerialNext. *)
AccountsApart ==
    \A t, u \in Threads : t # u => Parties(batch[t]) \cap Parties(batch[u]) = {}

(* A value loaded is still what the account holds. *)
LoadedIsHeld ==
    \A t \in Threads : loaded[t] # None =>
        loaded[t] = holding[Update(t).account][Update(t).asset]

(* withdraw has looked at the cost before any update is stored, and until the
   first is, the balance covers it. *)
CostChecked ==
    \A t \in Threads :
        /\ step[t] # 0 => Cost(Trade(t)) >= 0
        /\ step[t] = 1 => Cost(Trade(t)) <= holding[Trade(t).buyer][Cash]

OverdraftInv == AccountsApart /\ LoadedIsHeld /\ CostChecked /\ NoOverdraft

LEMMA OverdraftInit == Init => OverdraftInv
<1> SUFFICES ASSUME Init PROVE OverdraftInv
  OBVIOUS
<1>1. AccountsApart
  BY DEF Init, AccountsApart, Parties
<1>2. LoadedIsHeld /\ CostChecked
  BY DEF Init, LoadedIsHeld, CostChecked
<1>3. NoOverdraft
  BY SettlementAssumption DEF Init, NoOverdraft, Assets
<1>4. QED
  BY <1>1, <1>2, <1>3 DEF OverdraftInv

LEMMA CallKeepsFunds ==
    ASSUME TypeInv, OverdraftInv, NEW t \in Threads,
           Call(t, { list \in Batches : AccountsFree(Parties(list)) })
    PROVE  OverdraftInv'
<1> USE DEF OverdraftInv
<1> DEFINE Free == { l \in Batches : AccountsFree(Parties(l)) }
<1>a. PICK list \in Free : \E passed \in Passed(list) : SettleTrades(t, list, passed)
  BY DEF Call
<1>b. PICK passed \in Passed(list) : SettleTrades(t, list, passed)
  BY <1>a
<1>1. AccountsFree(Parties(list)) /\ SettleTrades(t, list, passed)
  BY <1>b
<1>2. step[t] = 0 /\ loaded[t] = None
  <2>1. batch[t] = << >>
    BY DEF Call, TypeInv, ThreadsInOrder
  <2>2. step[t] = 0
    BY <2>1 DEF TypeInv, TypeOK
  <2>3. QED
    BY <2>2 DEF TypeInv, ThreadsInOrder
<1>3. batch'[t] = list /\ \A u \in Threads \ {t} : batch'[u] = batch[u]
  BY <1>1 DEF SettleTrades, TypeInv, TypeOK
<1>4. UNCHANGED <<holding, step, loaded>>
  BY <1>1 DEF SettleTrades
<1>5. AccountsApart'
  BY <1>1, <1>3 DEF AccountsApart, AccountsFree
<1>6. LoadedIsHeld' /\ CostChecked'
  BY <1>2, <1>3, <1>4 DEF LoadedIsHeld, CostChecked, Update, Trade
<1>7. NoOverdraft'
  BY <1>4 DEF NoOverdraft
<1>8. QED
  BY <1>5, <1>6, <1>7

LEMMA NextTradeKeepsFunds ==
    ASSUME TypeInv, OverdraftInv, NEW t \in Threads,
           batch[t] # << >>, loaded[t] = None, NextTrade(t), UNCHANGED <<holding, loaded>>
    PROVE  OverdraftInv'
<1> USE DEF OverdraftInv
<1>1. /\ batch'[t] = Tail(batch[t]) /\ step'[t] = 0
      /\ \A u \in Threads \ {t} : batch'[u] = batch[u] /\ step'[u] = step[u]
  BY DEF NextTrade, TypeInv, TypeOK
<1>2. \A u \in Threads : Parties(batch'[u]) \subseteq Parties(batch[u])
  BY <1>1, PartiesOfTail DEF TypeInv, TypeOK
<1>3. AccountsApart'
  BY <1>2 DEF AccountsApart
<1>4. LoadedIsHeld' /\ CostChecked'
  BY <1>1 DEF LoadedIsHeld, CostChecked, Update, Trade
<1>5. NoOverdraft'
  BY DEF NoOverdraft
<1>6. QED
  BY <1>3, <1>4, <1>5

(* The store: nobody else is at the account, and only the first of the four
   updates takes from a balance, which was compared with the cost. *)
LEMMA StoreKeepsFunds ==
    ASSUME TypeInv, OverdraftInv, NEW t \in Threads, Store(t)
    PROVE  OverdraftInv'
<1> USE DEF OverdraftInv
<1> DEFINE a == Update(t).account
           x == Update(t).asset
<1>1. /\ step[t] \in 1 .. 4 /\ loaded[t] \in Int
      /\ batch[t] \in Seq(TradeValues) /\ batch[t] # << >>
      /\ Trade(t) \in TradeValues
      /\ a \in {Trade(t).buyer, Trade(t).seller} /\ a \in Traders /\ x \in Assets
      /\ Update(t).by \in Int
  BY InTrade DEF Store, TypeInv, TypeOK, ThreadsInOrder
<1>2. loaded[t] = holding[a][x]
  BY DEF LoadedIsHeld, Store
<1>3. Cost(Trade(t)) \in Int /\ Cost(Trade(t)) >= 0
  BY <1>1, CostInt DEF CostChecked, Store
<1>4. /\ holding'[a][x] = loaded[t] + Update(t).by
      /\ \A b \in Traders, y \in Assets :
            b # a \/ y # x => holding'[b][y] = holding[b][y]
  BY <1>1 DEF Store, TypeInv, TypeOK
<1>5. /\ loaded'[t] = None /\ step'[t] = step[t] + 1 /\ UNCHANGED batch
      /\ \A u \in Threads \ {t} : loaded'[u] = loaded[u] /\ step'[u] = step[u]
  BY DEF Store, TypeInv, TypeOK
<1>6. AccountsApart'
  BY <1>5 DEF AccountsApart
<1>7. LoadedIsHeld'
  <2> SUFFICES ASSUME NEW u \in Threads, loaded'[u] # None
               PROVE  loaded'[u] = holding'[Update(u)'.account][Update(u)'.asset]
    BY DEF LoadedIsHeld
  <2>1. u # t /\ loaded'[u] = loaded[u] /\ Update(u)' = Update(u)
    BY <1>5 DEF Update, Trade
  <2>2. /\ step[u] \in 1 .. 4 /\ batch[u] \in Seq(TradeValues) /\ batch[u] # << >>
        /\ Update(u).account \in {Trade(u).buyer, Trade(u).seller}
        /\ Update(u).account \in Traders /\ Update(u).asset \in Assets
    BY <2>1, InTrade DEF TypeInv, ThreadsInOrder
  <2>3. Update(u).account \in Parties(batch[u]) /\ a \in Parties(batch[t])
    BY <1>1, <2>2, PartiesOfTail DEF Trade
  <2>4. Update(u).account # a
    BY <2>1, <2>3 DEF AccountsApart
  <2>5. QED
    BY <1>4, <2>1, <2>2, <2>4 DEF LoadedIsHeld
<1>8. CostChecked'
  <2> SUFFICES ASSUME NEW u \in Threads, step'[u] # 0
               PROVE  /\ Cost(Trade(u)') >= 0
                      /\ step'[u] = 1 =>
                            Cost(Trade(u)') <= holding'[Trade(u)'.buyer][Cash]
    BY DEF CostChecked
  <2>1. CASE u = t
    BY <1>1, <1>3, <1>5, <2>1 DEF Trade
  <2>2. CASE u # t
    <3>1. step'[u] = step[u] /\ Trade(u)' = Trade(u)
      BY <1>5, <2>2 DEF Trade
    <3>2. /\ batch[u] \in Seq(TradeValues) /\ batch[u] # << >>
          /\ Trade(u) \in TradeValues /\ Trade(u).buyer \in Traders /\ Cash \in Assets
      BY <3>1, InTrade, CostInt
    <3>3. Trade(u).buyer \in Parties(batch[u]) /\ a \in Parties(batch[t])
      BY <1>1, <3>2, PartiesOfTail DEF Trade
    <3>4. Trade(u).buyer # a
      BY <2>2, <3>3 DEF AccountsApart
    <3>5. holding'[Trade(u).buyer][Cash] = holding[Trade(u).buyer][Cash]
      BY <1>4, <3>2, <3>4
    <3>6. QED
      BY <3>1, <3>5 DEF CostChecked
  <2>3. QED
    BY <2>1, <2>2
<1>9. NoOverdraft'
  <2>1. a \in Traders /\ Cash \in Assets /\ holding[a][Cash] >= 0 /\ holding[a][Cash] \in Int
    BY <1>1 DEF NoOverdraft, Assets, TypeInv, TypeOK
  <2>2. CASE step[t] = 1
    <3>1. x = Cash /\ Update(t).by = - Cost(Trade(t))
      BY <1>1, <2>2, UpdateValue DEF Update
    <3>2. a = Trade(t).buyer /\ Cost(Trade(t)) <= loaded[t]
      BY <1>1, <1>2, <2>2, <3>1, UpdateValue DEF CostChecked, Update
    <3>3. holding'[a][Cash] >= 0
      BY <1>1, <1>3, <1>4, <3>1, <3>2
    <3>4. QED
      BY <1>4, <2>1, <3>3 DEF NoOverdraft
  <2>3. CASE step[t] # 1 /\ x = Cash
    <3>1. Update(t).by = Cost(Trade(t))
      BY <1>1, <2>3, UpdateValue DEF Update
    <3>2. holding'[a][Cash] >= 0
      BY <1>1, <1>2, <1>3, <1>4, <2>1, <2>3, <3>1
    <3>3. QED
      BY <1>4, <2>1, <3>2 DEF NoOverdraft
  <2>4. CASE x # Cash
    BY <1>4, <2>1, <2>4 DEF NoOverdraft
  <2>5. QED
    BY <2>2, <2>3, <2>4
<1>10. QED
  BY <1>6, <1>7, <1>8, <1>9

LEMMA ContinueKeepsFunds ==
    ASSUME TypeInv, OverdraftInv, NEW t \in Threads, Continue(t)
    PROVE  OverdraftInv'
<1> USE DEF OverdraftInv
<1>1. CASE SettleTrade(t)
  <2>1. /\ step[t] = 0 /\ loaded[t] = None /\ batch[t] # << >> /\ UNCHANGED <<holding, loaded>>
        /\ Trade(t) \in TradeValues /\ Cost(Trade(t)) \in Int
        /\ Trade(t).buyer \in Traders /\ Cash \in Assets
        /\ holding[Trade(t).buyer][Cash] \in Int
    <3>1. /\ step[t] = 0 /\ loaded[t] = None /\ batch[t] # << >>
          /\ UNCHANGED <<holding, loaded>>
      BY <1>1 DEF SettleTrade, TypeInv, ThreadsInOrder
    <3>2. Trade(t) \in TradeValues
      BY <3>1, PartiesOfTail DEF TypeInv, TypeOK, Trade
    <3>3. QED
      BY <3>1, <3>2, CostInt DEF TypeInv, TypeOK
  <2>2. CASE NextTrade(t)
    BY <2>1, <2>2, NextTradeKeepsFunds
  <2>3. CASE UNCHANGED <<batch, step>>
    BY <2>1, <2>3 DEF AccountsApart, LoadedIsHeld, CostChecked, NoOverdraft, Update, Trade
  <2>4. CASE /\ step' = [step EXCEPT ![t] = 1] /\ UNCHANGED batch
             /\ Cost(Trade(t)) >= 0 /\ ~ Refused(Trade(t), holding[Trade(t).buyer][Cash])
    <3>1. step'[t] = 1 /\ \A u \in Threads : u # t => step'[u] = step[u]
      BY <2>4 DEF TypeInv, TypeOK
    <3>2. \A u \in Threads : Trade(u)' = Trade(u)
      BY <2>4 DEF Trade
    <3>3. Cost(Trade(t)) <= holding[Trade(t).buyer][Cash]
      BY <2>1, <2>4 DEF Refused
    <3>4. CostChecked'
      BY <2>1, <2>4, <3>1, <3>2, <3>3 DEF CostChecked
    <3>5. LoadedIsHeld'
      BY <2>1, <2>4, <3>1 DEF LoadedIsHeld, Update, Trade
    <3>6. QED
      BY <2>1, <2>4, <3>4, <3>5 DEF AccountsApart, NoOverdraft
  <2>5. QED
    BY <1>1, <2>2, <2>3, <2>4 DEF SettleTrade, Withdraw
<1>3. CASE Load(t)
  <2>1. /\ UNCHANGED <<holding, batch, step>> /\ step[t] \in 1 .. 4
        /\ loaded'[t] = holding[Update(t).account][Update(t).asset]
        /\ \A u \in Threads \ {t} : loaded'[u] = loaded[u]
    BY <1>3 DEF Load, TypeInv, TypeOK
  <2>2. \A u \in Threads : Update(u)' = Update(u) /\ Trade(u)' = Trade(u)
    BY <2>1 DEF Update, Trade
  <2>3. LoadedIsHeld'
    BY <2>1, <2>2 DEF LoadedIsHeld
  <2>4. CostChecked'
    BY <2>1, <2>2 DEF CostChecked
  <2>5. AccountsApart' /\ NoOverdraft'
    BY <2>1 DEF AccountsApart, NoOverdraft
  <2>6. QED
    BY <2>3, <2>4, <2>5
<1>4. CASE Store(t)
  BY <1>4, StoreKeepsFunds
<1>5. CASE NotifySettlement(t)
  <2>1. step[t] = 5 /\ UNCHANGED <<holding, loaded>> /\ NextTrade(t)
    BY <1>5 DEF NotifySettlement
  <2>2. batch[t] # << >> /\ loaded[t] = None
    <3>1. step[t] \notin 1 .. 4 /\ step[t] # 0
      BY <2>1
    <3>2. batch[t] # << >>
      BY <3>1 DEF TypeInv, TypeOK
    <3>3. loaded[t] = None
      BY <3>1 DEF TypeInv, ThreadsInOrder
    <3>4. QED
      BY <3>2, <3>3
  <2>3. QED
    BY <2>1, <2>2, NextTradeKeepsFunds
<1>6. CASE Return(t)
  BY <1>6 DEF Return, AccountsApart, LoadedIsHeld, CostChecked, NoOverdraft, Update, Trade
<1>7. QED
  BY <1>1, <1>3, <1>4, <1>5, <1>6 DEF Continue

LEMMA SerialStep ==
    TypeInv /\ OverdraftInv /\ [SerialNext]_vars => TypeInv' /\ OverdraftInv'
<1> SUFFICES ASSUME TypeInv, OverdraftInv, [SerialNext]_vars
             PROVE  TypeInv' /\ OverdraftInv'
  OBVIOUS
<1>1. ASSUME NEW t \in Threads,
             Call(t, { list \in Batches : AccountsFree(Parties(list)) })
      PROVE  TypeInv' /\ OverdraftInv'
  BY <1>1, CallKeepsTypes, CallKeepsFunds
<1>2. ASSUME NEW t \in Threads, Continue(t)
      PROVE  TypeInv' /\ OverdraftInv'
  BY <1>2, ContinueKeepsTypes, ContinueKeepsFunds
<1>3. CASE UNCHANGED vars
  BY <1>3, StutterKeepsTypes
  DEF vars, OverdraftInv, AccountsApart, LoadedIsHeld, CostChecked, NoOverdraft, Update, Trade
<1>4. QED
  BY <1>1, <1>2, <1>3 DEF SerialNext

(* The types again, for settlements that share no account. *)
THEOREM SerialSettlementTypesCorrect == SerialSpec => []TypeOK
<1>1. TypeInv => TypeOK
  BY DEF TypeInv
<1>2. QED
  BY <1>1, SettleInit, OverdraftInit, SerialStep, PTL DEF SerialSpec

(* When settlements under way have no account in common none of them
   overdraws one: between withdraw's test of the balance, its second reading
   of it and the store, other threads take their steps, but on other accounts;
   the balance tested is still the balance subtracted from.  Without that
   discipline it is not, and the server has none (SettleOverdraft.cfg). *)
THEOREM BalancesStayFunded == SerialSpec => []NoOverdraft
<1>1. OverdraftInv => NoOverdraft
  BY DEF OverdraftInv
<1>2. QED
  BY <1>1, SettleInit, OverdraftInit, SerialStep, PTL DEF SerialSpec

----------------------------------------------------------------------------
(* The updates of a trade. *)

(* An update of a trade, as far as it is of an amount. *)
Part(trade, i, trader, asset) ==
    IF Updates(trade)[i].account = trader /\ Updates(trade)[i].asset = asset
    THEN Updates(trade)[i].by ELSE 0

(* A whole settlement. *)
Effect(trade, trader, asset) ==
    Part(trade, 1, trader, asset) + Part(trade, 2, trader, asset)
        + Part(trade, 3, trader, asset) + Part(trade, 4, trader, asset)

LEMMA PartIsInteger ==
    ASSUME NEW trade \in TradeValues, NEW i \in 1 .. 4, NEW trader, NEW asset
    PROVE  Part(trade, i, trader, asset) \in Int
BY UpdateValue DEF Part

(* What a buyer and a seller gain and lose; in a trade with oneself, nothing
   at all. *)
LEMMA EffectIs ==
    ASSUME NEW trade \in TradeValues, NEW trader \in Traders, NEW asset \in Assets
    PROVE  LET e == Effect(trade, trader, asset)
               cost == Cost(trade)
           IN  /\ trade.buyer = trade.seller => e = 0
               /\ trader \notin {trade.buyer, trade.seller} => e = 0
               /\ asset \notin {Cash, trade.symbol} => e = 0
               /\ trade.buyer # trade.seller =>
                    /\ trader = trade.buyer /\ asset = Cash => e = - cost
                    /\ trader = trade.seller /\ asset = Cash => e = cost
                    /\ trader = trade.buyer /\ asset = trade.symbol =>
                          e = trade.quantity
                    /\ trader = trade.seller /\ asset = trade.symbol =>
                          e = - trade.quantity
               /\ e \in Int
<1> DEFINE cost == Cost(trade)
           q == trade.quantity
           b == trade.buyer
           s == trade.seller
           y == trade.symbol
<1>1. cost \in Int /\ q \in Int /\ y # Cash
  BY CostInt
<1>2. /\ Part(trade, 1, trader, asset) = IF b = trader /\ Cash = asset
                                         THEN - cost ELSE 0
      /\ Part(trade, 2, trader, asset) = IF b = trader /\ y = asset
                                         THEN q ELSE 0
      /\ Part(trade, 3, trader, asset) = IF s = trader /\ Cash = asset
                                         THEN cost ELSE 0
      /\ Part(trade, 4, trader, asset) = IF s = trader /\ y = asset
                                         THEN - q ELSE 0
  BY DEF Part, Updates
<1> HIDE DEF cost, q, b, s, y
<1>3. CASE b = s
  BY <1>1, <1>2, <1>3 DEF Effect, cost, q, b, s, y
<1>4. CASE b # s /\ trader = b
  BY <1>1, <1>2, <1>4 DEF Effect, cost, q, b, s, y
<1>5. CASE b # s /\ trader = s
  BY <1>1, <1>2, <1>5 DEF Effect, cost, q, b, s, y
<1>6. CASE trader # b /\ trader # s
  BY <1>1, <1>2, <1>6 DEF Effect, cost, q, b, s, y
<1>7. QED
  BY <1>3, <1>4, <1>5, <1>6

----------------------------------------------------------------------------
(* What is left of a settlement that is at update k. *)
Left(k, trade, trader, asset) ==
    LET by(i) == IF /\ k \in 1 .. i
                    /\ Updates(trade)[i].account = trader
                    /\ Updates(trade)[i].asset = asset
                 THEN Updates(trade)[i].by ELSE 0
    IN  by(1) + by(2) + by(3) + by(4)

LEMMA DueIsLeft ==
    ASSUME NEW t, NEW trader, NEW asset
    PROVE  /\ Due(t, trader, asset) =
                Left(step[t], Trade(t), trader, asset)
           /\ Due(t, trader, asset)' =
                Left(step'[t], Trade(t)', trader, asset)
BY DEF Due, Left

LEMMA LeftNothing ==
    ASSUME NEW k \in {0, 5}, NEW trade, NEW trader, NEW asset
    PROVE  Left(k, trade, trader, asset) = 0
<1>1. \A i \in 1 .. 4 : ~ (k \in 1 .. i)
  OBVIOUS
<1>2. QED
  BY <1>1 DEF Left

LEMMA LeftIs ==
    ASSUME NEW trade, NEW trader, NEW asset,
           \A i \in 1 .. 4 : Part(trade, i, trader, asset) \in Int
    PROVE  /\ Left(1, trade, trader, asset) = Effect(trade, trader, asset)
           /\ Left(2, trade, trader, asset) =
                Part(trade, 2, trader, asset) + Part(trade, 3, trader, asset)
                    + Part(trade, 4, trader, asset)
           /\ Left(3, trade, trader, asset) =
                Part(trade, 3, trader, asset) + Part(trade, 4, trader, asset)
           /\ Left(4, trade, trader, asset) = Part(trade, 4, trader, asset)
<1>1. Left(1, trade, trader, asset) = Effect(trade, trader, asset)
  BY DEF Left, Effect, Part
<1>2. Left(2, trade, trader, asset) =
        Part(trade, 2, trader, asset) + Part(trade, 3, trader, asset)
            + Part(trade, 4, trader, asset)
  BY DEF Left, Part
<1>3. Left(3, trade, trader, asset) =
        Part(trade, 3, trader, asset) + Part(trade, 4, trader, asset)
  BY DEF Left, Part
<1>4. Left(4, trade, trader, asset) = Part(trade, 4, trader, asset)
  BY DEF Left, Part
<1>5. QED
  BY <1>1, <1>2, <1>3, <1>4

(* Storing update k leaves the rest. *)
LEMMA LeftAfter ==
    ASSUME NEW trade \in TradeValues, NEW trader, NEW asset,
           NEW k \in 1 .. 4
    PROVE  /\ Left(k, trade, trader, asset) =
                Part(trade, k, trader, asset)
                    + Left(k + 1, trade, trader, asset)
           /\ Left(k, trade, trader, asset) \in Int
           /\ Left(k + 1, trade, trader, asset) \in Int
<1> DEFINE P(i) == Part(trade, i, trader, asset)
           L(i) == Left(i, trade, trader, asset)
<1>1. /\ P(1) \in Int /\ P(2) \in Int /\ P(3) \in Int /\ P(4) \in Int
      /\ \A i \in 1 .. 4 : P(i) \in Int
  BY PartIsInteger
<1>2. /\ L(1) = P(1) + P(2) + P(3) + P(4)
      /\ L(2) = P(2) + P(3) + P(4)
      /\ L(3) = P(3) + P(4)
      /\ L(4) = P(4)
  BY <1>1, LeftIs DEF Effect
<1>3. L(5) = 0
  BY LeftNothing
<1> HIDE DEF P, L
<1>4. k \in {1, 2, 3, 4}
  OBVIOUS
<1>5. CASE k = 1
  <2>1. /\ L(1) = P(1) + L(2)
        /\ L(1) \in Int /\ L(2) \in Int
    <3>1. /\ L(1) = P(1) + P(2) + P(3) + P(4)
          /\ L(2) = P(2) + P(3) + P(4)
      BY <1>2, <1>5
    <3>2. \A a, b, c, d \in Int : /\ a + b + c + d = a + (b + c + d)
                                  /\ a + b + c + d \in Int /\ b + c + d \in Int
      OBVIOUS
    <3>3. /\ P(1) + P(2) + P(3) + P(4) = P(1) + (P(2) + P(3) + P(4))
          /\ P(1) + P(2) + P(3) + P(4) \in Int
          /\ P(2) + P(3) + P(4) \in Int
      BY <1>1, <3>2
    <3>4. QED
      BY <3>1, <3>3
  <2>2. k + 1 = 2
    BY <1>5
  <2>3. QED
    BY <2>1, <2>2, <1>5 DEF P, L
<1>6. CASE k = 2
  <2>1. /\ L(2) = P(2) + L(3)
        /\ L(2) \in Int /\ L(3) \in Int
    BY <1>1, <1>2, <1>3, <1>6
  <2>2. k + 1 = 3
    BY <1>6
  <2>3. QED
    BY <2>1, <2>2, <1>6 DEF P, L
<1>7. CASE k = 3
  <2>1. /\ L(3) = P(3) + L(4)
        /\ L(3) \in Int /\ L(4) \in Int
    BY <1>1, <1>2, <1>3, <1>7
  <2>2. k + 1 = 4
    BY <1>7
  <2>3. QED
    BY <2>1, <2>2, <1>7 DEF P, L
<1>8. CASE k = 4
  <2>1. /\ L(4) = P(4) + L(5)
        /\ L(4) \in Int /\ L(5) \in Int
    BY <1>1, <1>2, <1>3, <1>8
  <2>2. k + 1 = 5
    BY <1>8
  <2>3. QED
    BY <2>1, <2>2, <1>8 DEF P, L
<1>9. QED
  BY <1>4, <1>5, <1>6, <1>7, <1>8

LEMMA DueIsInteger ==
    ASSUME TypeInv, NEW t \in Threads, NEW trader, NEW asset
    PROVE  Due(t, trader, asset) \in Int
<1>1. step[t] \in 0 .. 5
  BY DEF TypeInv, TypeOK
<1>2. CASE step[t] \in {0, 5}
  <2>1. Left(step[t], Trade(t), trader, asset) = 0
    BY <1>1, <1>2, LeftNothing
  <2>2. QED
    BY <2>1, DueIsLeft
<1>3. CASE step[t] \in 1 .. 4
  <2>1. Trade(t) \in TradeValues
    BY <1>3, InTrade
  <2>2. Left(step[t], Trade(t), trader, asset) \in Int
    BY <1>1, <1>3, <2>1, LeftAfter
  <2>3. QED
    BY <2>2, DueIsLeft
<1>4. QED
  BY <1>1, <1>2, <1>3

LEMMA DueNothing ==
    ASSUME TypeInv, NEW t \in Threads, NEW trader, NEW asset,
           step[t] \in {0, 5}
    PROVE  Due(t, trader, asset) = 0
<1>1. step[t] \in 0 .. 5
  BY DEF TypeInv, TypeOK
<1>2. Left(step[t], Trade(t), trader, asset) = 0
  BY <1>1, LeftNothing
<1>3. QED
  BY <1>2, DueIsLeft

LEMMA DueNothingNext ==
    ASSUME TypeInv', NEW t \in Threads, NEW trader, NEW asset,
           step'[t] \in {0, 5}
    PROVE  Due(t, trader, asset)' = 0
<1>1. step'[t] \in 0 .. 5
  BY DEF TypeInv, TypeOK
<1>2. Left(step'[t], Trade(t)', trader, asset) = 0
  BY <1>1, LeftNothing
<1>3. QED
  BY <1>2, DueIsLeft

LEMMA DueOfOthers ==
    ASSUME NEW u, batch'[u] = batch[u], step'[u] = step[u],
           NEW trader, NEW asset
    PROVE  Due(u, trader, asset)' = Due(u, trader, asset)
<1>1. Trade(u)' = Trade(u)
  BY DEF Trade
<1>2. QED
  BY <1>1, DueIsLeft

LEMMA PendingKept ==
    ASSUME NEW trader, NEW asset,
           \A u \in Threads : Due(u, trader, asset)' = Due(u, trader, asset)
    PROVE  Pending(trader, asset)' = Pending(trader, asset)
BY DEF Pending

LEMMA PendingChanged ==
    ASSUME NEW trader, NEW asset, NEW t \in Threads,
           \A u \in Threads : /\ Due(u, trader, asset) \in Int
                              /\ Due(u, trader, asset)' \in Int,
           \A u \in Threads \ {t} : Due(u, trader, asset)' = Due(u, trader, asset)
    PROVE  /\ Pending(trader, asset)' = Pending(trader, asset)
                + (Due(t, trader, asset)' - Due(t, trader, asset))
           /\ Pending(trader, asset) \in Int
<1> DEFINE f == [u \in Threads |-> Due(u, trader, asset)]
           g == [u \in Threads |-> Due(u, trader, asset)']
<1>1. /\ Pending(trader, asset) = SumFunctionOnSet(f, Threads)
      /\ Pending(trader, asset)' = SumFunctionOnSet(g, Threads)
  <2>1. DOMAIN f = Threads /\ DOMAIN g = Threads
    OBVIOUS
  <2>2. Pending(trader, asset) = SumFunction(f)
    BY DEF Pending
  <2>3. Pending(trader, asset)' = SumFunction(g)
    BY DEF Pending
  <2> HIDE DEF f, g
  <2>4. QED
    BY <2>1, <2>2, <2>3 DEF SumFunction
<1>2. /\ \A u \in Threads : f[u] \in Int /\ g[u] \in Int
      /\ \A u \in Threads \ {t} : f[u] = g[u]
      /\ f[t] = Due(t, trader, asset) /\ g[t] = Due(t, trader, asset)'
  OBVIOUS
<1>3. IsFiniteSet(Threads)
  BY SettlementAssumption
<1> HIDE DEF f, g
<1>4. /\ SumFunctionOnSet(g, Threads) = SumFunctionOnSet(f, Threads) + (g[t] - f[t])
      /\ SumFunctionOnSet(f, Threads) \in Int
  BY <1>2, <1>3, SumChangedAt, SumIsInteger
<1>5. QED
  BY <1>1, <1>2, <1>4

LEMMA PendingNothing ==
    ASSUME NEW trader, NEW asset,
           \A u \in Threads : Due(u, trader, asset) = 0
    PROVE  Pending(trader, asset) = 0
<1> DEFINE f == [u \in Threads |-> Due(u, trader, asset)]
<1>1. /\ Pending(trader, asset) = SumFunction(f) /\ DOMAIN f = Threads
      /\ \A u \in Threads : f[u] = 0
  BY DEF Pending
<1>2. IsFiniteSet(Threads)
  BY SettlementAssumption
<1> HIDE DEF f
<1>3. SumFunctionOnSet(f, Threads) = 0 * Cardinality(Threads)
  BY <1>1, <1>2, SumOfEqual
<1>4. Cardinality(Threads) \in Nat
  BY <1>2, FS_CardinalityType
<1>5. QED
  BY <1>1, <1>3, <1>4 DEF SumFunction

LEMMA SettledIsInteger ==
    ASSUME TypeInv, NEW trader \in Traders, NEW asset \in Assets
    PROVE  Settled(trader, asset) \in Int /\ Pending(trader, asset) \in Int
<1>1. holding[trader][asset] \in Int
  BY DEF TypeInv, TypeOK
<1> DEFINE f == [u \in Threads |-> Due(u, trader, asset)]
<1>2. /\ Pending(trader, asset) = SumFunction(f) /\ DOMAIN f = Threads
      /\ \A u \in Threads : f[u] \in Int
  BY DueIsInteger DEF Pending
<1>3. IsFiniteSet(Threads)
  BY SettlementAssumption
<1> HIDE DEF f
<1>4. Pending(trader, asset) \in Int
  BY <1>2, <1>3, SumIsInteger DEF SumFunction
<1>5. QED
  BY <1>1, <1>4 DEF Settled

----------------------------------------------------------------------------
(* The steps: each settles one trade, or none. *)

SettledKept ==
    \A trader \in Traders, asset \in Assets :
        Settled(trader, asset)' = Settled(trader, asset)

(* A settlement of the trade that the buyer can pay. *)
SettledBy(trade) ==
    /\ Cost(trade) \in 0 .. Settled(trade.buyer, Cash)
    /\ \A trader \in Traders, asset \in Assets :
          Settled(trader, asset)' =
              Settled(trader, asset) + Effect(trade, trader, asset)

LEMMA QuietStep ==
    ASSUME NEW t \in Threads, UNCHANGED holding,
           \A u \in Threads \ {t} :
              batch'[u] = batch[u] /\ step'[u] = step[u],
           \A trader \in Traders, asset \in Assets :
              Due(t, trader, asset)' = Due(t, trader, asset)
    PROVE  SettledKept
<1> SUFFICES ASSUME NEW trader \in Traders, NEW asset \in Assets
             PROVE  Settled(trader, asset)' = Settled(trader, asset)
  BY DEF SettledKept
<1>1. \A u \in Threads \ {t} : Due(u, trader, asset)' = Due(u, trader, asset)
  BY DueOfOthers
<1>2. \A u \in Threads : Due(u, trader, asset)' = Due(u, trader, asset)
  BY <1>1
<1>3. Pending(trader, asset)' = Pending(trader, asset)
  BY <1>2, PendingKept
<1>4. QED
  BY <1>3 DEF Settled

(* Between two trades a thread has nothing to store. *)
LEMMA IdleStep ==
    ASSUME TypeInv, TypeInv', NEW t \in Threads, UNCHANGED holding,
           \A u \in Threads \ {t} :
              batch'[u] = batch[u] /\ step'[u] = step[u],
           step[t] \in {0, 5}, step'[t] \in {0, 5}
    PROVE  SettledKept
<1>1. ASSUME NEW trader \in Traders, NEW asset \in Assets
      PROVE  Due(t, trader, asset)' = Due(t, trader, asset)
  BY DueNothing, DueNothingNext
<1>2. QED
  BY <1>1, QuietStep

(* A load leaves what is due as it is. *)
LEMMA LoadSettled ==
    ASSUME NEW t \in Threads, Load(t)
    PROVE  SettledKept
<1>1. UNCHANGED <<holding, batch, step>>
  BY DEF Load
<1>2. \A trader \in Traders, asset \in Assets :
         Due(t, trader, asset)' = Due(t, trader, asset)
  BY <1>1, DueOfOthers
<1>3. QED
  BY <1>1, <1>2, QuietStep

(* A store moves an amount from what is due to what is held. *)
LEMMA StoreSettled ==
    ASSUME TypeInv, TypeInv', LoadedIsHeld, NEW t \in Threads, Store(t)
    PROVE  SettledKept
<1> DEFINE k == step[t]
           trade == Trade(t)
           a == Update(t).account
           x == Update(t).asset
<1>1. /\ k \in 1 .. 4 /\ loaded[t] \in Int /\ step'[t] = k + 1
      /\ trade \in TradeValues /\ a \in Traders /\ x \in Assets
      /\ Update(t) = Updates(trade)[k] /\ Update(t).by \in Int
      /\ Trade(t)' = trade /\ UNCHANGED batch
      /\ \A u \in Threads \ {t} : step'[u] = step[u]
  <2>1. k \in 1 .. 4 /\ loaded[t] \in Int
    BY DEF Store, TypeInv, TypeOK, ThreadsInOrder
  <2>2. /\ trade \in TradeValues /\ a \in Traders /\ x \in Assets
        /\ Update(t).by \in Int
    BY <2>1, InTrade
  <2>3. Update(t) = Updates(trade)[k]
    BY DEF Update
  <2>4. /\ step'[t] = k + 1 /\ UNCHANGED batch
        /\ \A u \in Threads \ {t} : step'[u] = step[u]
    BY DEF Store, TypeInv, TypeOK
  <2>5. Trade(t)' = trade
    BY <2>4 DEF Trade
  <2>6. QED
    BY <2>1, <2>2, <2>3, <2>4, <2>5
<1>2. \A trader \in Traders, asset \in Assets :
         /\ holding[trader][asset] \in Int
         /\ holding'[trader][asset] =
              IF trader = a /\ asset = x
              THEN holding[trader][asset] + Update(t).by ELSE holding[trader][asset]
  <2>1. loaded[t] = holding[a][x]
    BY DEF LoadedIsHeld, Store
  <2>2. holding' = [holding EXCEPT ![a][x] = loaded[t] + Update(t).by]
    BY DEF Store
  <2>3. holding \in [Traders -> [Assets -> Int]]
    BY DEF TypeInv, TypeOK
  <2> HIDE DEF a, x
  <2>4. QED
    BY <1>1, <2>1, <2>2, <2>3
<1> SUFFICES ASSUME NEW trader \in Traders, NEW asset \in Assets
             PROVE  Settled(trader, asset)' = Settled(trader, asset)
  BY DEF SettledKept
<1>3. /\ Due(t, trader, asset) = Left(k, trade, trader, asset)
      /\ Due(t, trader, asset)' = Left(k + 1, trade, trader, asset)
  BY <1>1, DueIsLeft
<1>4. holding'[trader][asset] =
        holding[trader][asset] + Part(trade, k, trader, asset)
  <2>1. Part(trade, k, trader, asset) =
          IF a = trader /\ x = asset THEN Update(t).by ELSE 0
    BY <1>1 DEF Part
  <2>2. QED
    BY <1>1, <1>2, <2>1
<1>6. /\ \A u \in Threads : /\ Due(u, trader, asset) \in Int
                            /\ Due(u, trader, asset)' \in Int
      /\ \A u \in Threads \ {t} : Due(u, trader, asset)' = Due(u, trader, asset)
  <2>1. \A u \in Threads \ {t} : Due(u, trader, asset)' = Due(u, trader, asset)
    BY <1>1, DueOfOthers
  <2>2. \A u \in Threads : Due(u, trader, asset) \in Int
    BY DueIsInteger
  <2> HIDE DEF k, trade, a, x
  <2>3. Due(t, trader, asset)' \in Int
    BY <1>1, <1>3, LeftAfter
  <2>4. QED
    BY <2>1, <2>2, <2>3
<1> HIDE DEF k, trade, a, x
<1>7. /\ Due(t, trader, asset) =
           Part(trade, k, trader, asset) + Due(t, trader, asset)'
      /\ Part(trade, k, trader, asset) \in Int
  BY <1>1, <1>3, LeftAfter, PartIsInteger
<1>8. /\ Pending(trader, asset)' = Pending(trader, asset)
           + (Due(t, trader, asset)' - Due(t, trader, asset))
      /\ Pending(trader, asset) \in Int
  BY <1>6, PendingChanged
<1>9. \A h, p, d, e, b \in Int :
         d = b + e => (h + b) + (p + (e - d)) = h + p
  OBVIOUS
<1>10. Settled(trader, asset)' = holding'[trader][asset] + Pending(trader, asset)'
  BY DEF Settled
<1>11. QED
  <2> DEFINE h == holding[trader][asset]
             p == Pending(trader, asset)
             d == Due(t, trader, asset)
             e == Due(t, trader, asset)'
             b == Part(trade, k, trader, asset)
  <2>1. h \in Int /\ p \in Int /\ d \in Int /\ e \in Int /\ b \in Int /\ d = b + e
    BY <1>2, <1>6, <1>7, <1>8
  <2>2. Settled(trader, asset)' = (h + b) + (p + (e - d))
    BY <1>4, <1>8, <1>10
  <2>3. Settled(trader, asset) = h + p
    BY DEF Settled
  <2> HIDE DEF h, p, d, e, b
  <2>4. QED
    BY <1>9, <2>1, <2>2, <2>3

(* withdraw has found that the balance covers the cost: all four updates are
   due from now on. *)
LEMMA WithdrawSettled ==
    ASSUME TypeInv, TypeInv', AccountsApart, NEW t \in Threads, SettleTrade(t),
           Cost(Trade(t)) >= 0, ~ Refused(Trade(t), holding[Trade(t).buyer][Cash]),
           step' = [step EXCEPT ![t] = 1], UNCHANGED batch
    PROVE  Trade(t) \in TradeValues /\ SettledBy(Trade(t))
<1> DEFINE trade == Trade(t)
           b == trade.buyer
<1>1. /\ step[t] = 0 /\ trade \in TradeValues
      /\ batch[t] \in Seq(TradeValues) /\ batch[t] # << >>
      /\ step'[t] = 1 /\ Trade(t)' = trade
      /\ UNCHANGED <<holding, batch>>
      /\ \A u \in Threads \ {t} : step'[u] = step[u]
  <2>1. /\ step[t] = 0 /\ batch[t] \in Seq(TradeValues) /\ batch[t] # << >>
        /\ UNCHANGED <<holding, batch>>
    BY DEF SettleTrade, TypeInv, TypeOK
  <2>2. trade \in TradeValues
    BY <2>1, PartiesOfTail DEF Trade
  <2>3. QED
    BY <2>1, <2>2 DEF TypeInv, TypeOK, Trade
<1>2. ASSUME NEW trader \in Traders, NEW asset \in Assets
      PROVE  Settled(trader, asset)' =
               Settled(trader, asset) + Effect(trade, trader, asset)
  <2>1. Due(t, trader, asset) = 0
    BY <1>1, DueNothing
  <2>2. Due(t, trader, asset)' = Effect(trade, trader, asset)
    <3>1. Due(t, trader, asset)' = Left(1, trade, trader, asset)
      <4>1. Due(t, trader, asset)' = Left(step'[t], Trade(t)', trader, asset)
        BY DueIsLeft
      <4>2. QED
        BY <1>1, <4>1
    <3>2. \A i \in 1 .. 4 : Part(trade, i, trader, asset) \in Int
      BY <1>1, PartIsInteger
    <3> HIDE DEF trade
    <3>3. Left(1, trade, trader, asset) = Effect(trade, trader, asset)
      BY <3>2, LeftIs
    <3>4. QED
      BY <3>1, <3>3
  <2>3. Effect(trade, trader, asset) \in Int
    BY <1>1, EffectIs
  <2>4. \A u \in Threads \ {t} : Due(u, trader, asset)' = Due(u, trader, asset)
    <3>1. \A u \in Threads \ {t} : batch'[u] = batch[u] /\ step'[u] = step[u]
      BY <1>1
    <3>2. QED
      BY <3>1, DueOfOthers
  <2>5. \A u \in Threads : Due(u, trader, asset) \in Int
    BY DueIsInteger
  <2> HIDE DEF trade
  <2>6. \A u \in Threads : Due(u, trader, asset)' \in Int
    BY <2>2, <2>3, <2>4, <2>5
  <2>7. /\ Pending(trader, asset)' = Pending(trader, asset)
             + (Due(t, trader, asset)' - Due(t, trader, asset))
        /\ Pending(trader, asset) \in Int
    BY <2>4, <2>5, <2>6, PendingChanged
  <2>8. holding[trader][asset] \in Int
    BY DEF TypeInv, TypeOK
  <2> DEFINE h == holding[trader][asset]
             p == Pending(trader, asset)
             e == Effect(trade, trader, asset)
  <2>9. Settled(trader, asset)' = h + (p + (e - 0)) /\ Settled(trader, asset) = h + p
    BY <1>1, <2>1, <2>2, <2>7 DEF Settled
  <2>10. h \in Int /\ p \in Int /\ e \in Int
    BY <2>3, <2>7, <2>8
  <2> HIDE DEF h, p, e
  <2>11. h + (p + (e - 0)) = (h + p) + e
    BY <2>10
  <2>12. QED
    BY <2>9, <2>11 DEF e
<1>3. Cost(trade) \in 0 .. Settled(b, Cash)
  <2>1. b \in Traders /\ Cash \in Assets /\ Cost(trade) \in Int
    BY <1>1, CostInt
  <2>2. ASSUME NEW u \in Threads PROVE Due(u, b, Cash) = 0
    <3>1. CASE u = t
      BY <1>1, <3>1, DueNothing
    <3>2. CASE step[u] \in {0, 5}
      BY <3>2, DueNothing
    <3>3. CASE u # t /\ step[u] \in 1 .. 4
      <4> DEFINE other == Trade(u)
      <4>1. /\ other \in TradeValues
            /\ batch[u] \in Seq(TradeValues) /\ batch[u] # << >>
            /\ batch[t] \in Seq(TradeValues) /\ batch[t] # << >>
        BY <1>1, <3>3, InTrade
      <4>2. b \notin {other.buyer, other.seller}
        <5>1. b \in Parties(batch[t])
          BY <4>1, PartiesOfTail DEF Trade
        <5>2. {other.buyer, other.seller} \subseteq Parties(batch[u])
          BY <4>1, PartiesOfTail DEF Trade
        <5>3. Parties(batch[t]) \cap Parties(batch[u]) = {}
          BY <3>3 DEF AccountsApart
        <5>4. QED
          BY <5>1, <5>2, <5>3
      <4>3. \A i \in 1 .. 4 : Updates(other)[i].account # b
        BY <4>1, <4>2, UpdateValue
      <4>4. Left(step[u], other, b, Cash) = 0
        <5> HIDE DEF other, b
        <5>1. QED
          BY <4>3 DEF Left
      <4>5. QED
        BY <4>4, DueIsLeft
    <3>4. step[u] \in 0 .. 5
      BY DEF TypeInv, TypeOK
    <3>5. QED
      BY <3>1, <3>2, <3>3, <3>4
  <2>3. Pending(b, Cash) = 0
    BY <2>2, PendingNothing
  <2>4. holding[b][Cash] \in Int /\ holding[b][Cash] >= Cost(trade)
    BY <2>1 DEF Refused, TypeInv, TypeOK
  <2>5. Settled(b, Cash) = holding[b][Cash]
    BY <2>3, <2>4 DEF Settled
  <2>6. QED
    BY <2>1, <2>4, <2>5
<1>4. QED
  BY <1>1, <1>2, <1>3 DEF SettledBy

(* Every step settles one trade, or none. *)
LEMMA SerialStepSettles ==
    ASSUME TypeInv, TypeInv', OverdraftInv, [SerialNext]_vars
    PROVE  SettledKept \/ \E trade \in TradeValues : SettledBy(trade)
<1>1. ASSUME NEW t \in Threads,
             Call(t, { list \in Batches : AccountsFree(Parties(list)) })
      PROVE  SettledKept
  <2>1. step[t] = 0
    <3>1. batch[t] = << >>
      BY <1>1 DEF Call, TypeInv, ThreadsInOrder
    <3>2. QED
      BY <3>1 DEF TypeInv, TypeOK
  <2>2. /\ UNCHANGED <<holding, step, loaded>>
        /\ \A u \in Threads \ {t} : batch'[u] = batch[u]
    BY <1>1 DEF Call, SettleTrades, TypeInv, TypeOK
  <2>3. QED
    BY <2>1, <2>2, IdleStep
<1>2. ASSUME NEW t \in Threads, SettleTrade(t)
      PROVE  SettledKept \/ \E trade \in TradeValues : SettledBy(trade)
  <2>1. step[t] = 0 /\ UNCHANGED holding
    BY <1>2 DEF SettleTrade
  <2>2. CASE terminated' = TRUE /\ UNCHANGED <<batch, step>>
    <3>1. SettledKept
      BY <2>1, <2>2, IdleStep
    <3>2. QED
      BY <3>1
  <2>3. CASE NextTrade(t) /\ UNCHANGED terminated
    <3>1. /\ step'[t] = 0
          /\ \A u \in Threads \ {t} : batch'[u] = batch[u] /\ step'[u] = step[u]
      BY <2>3 DEF NextTrade, TypeInv, TypeOK
    <3>2. SettledKept
      BY <2>1, <3>1, IdleStep
    <3>3. QED
      BY <3>2
  <2>4. CASE /\ Cost(Trade(t)) >= 0
             /\ ~ Refused(Trade(t), holding[Trade(t).buyer][Cash])
             /\ step' = [step EXCEPT ![t] = 1] /\ UNCHANGED batch
    <3>1. Trade(t) \in TradeValues /\ SettledBy(Trade(t))
      BY <1>2, <2>4, WithdrawSettled DEF OverdraftInv
    <3>2. QED
      BY <3>1
  <2>5. QED
    BY <1>2, <2>2, <2>3, <2>4 DEF SettleTrade, Withdraw
<1>4. ASSUME NEW t \in Threads, NotifySettlement(t)
      PROVE  SettledKept
  <2>1. step[t] = 5
    BY <1>4 DEF NotifySettlement
  <2>2. /\ UNCHANGED <<holding, loaded>> /\ step'[t] = 0
        /\ \A u \in Threads \ {t} : batch'[u] = batch[u] /\ step'[u] = step[u]
    BY <1>4 DEF NotifySettlement, NextTrade, TypeInv, TypeOK
  <2>3. QED
    BY <2>1, <2>2, IdleStep
<1>5. ASSUME holding' = holding, batch' = batch, step' = step
      PROVE  SettledKept
  <2>1. \A u \in Threads : \A trader, asset :
           Due(u, trader, asset)' = Due(u, trader, asset)
    BY <1>5, DueOfOthers
  <2>2. \A trader, asset : Pending(trader, asset)' = Pending(trader, asset)
    BY <2>1, PendingKept
  <2> SUFFICES ASSUME NEW trader \in Traders, NEW asset \in Assets
               PROVE  Settled(trader, asset)' = Settled(trader, asset)
    BY DEF SettledKept
  <2>3. Pending(trader, asset)' = Pending(trader, asset)
    BY <2>2
  <2>4. QED
    BY <1>5, <2>3 DEF Settled
<1>6. ASSUME NEW t \in Threads, Return(t)
      PROVE  SettledKept
  <2>1. /\ holding' = holding /\ batch' = batch /\ step' = step
    BY <1>6 DEF Return
  <2>2. QED
    BY <1>5, <2>1
<1>7. ASSUME NEW t \in Threads, Continue(t)
      PROVE  SettledKept \/ \E trade \in TradeValues : SettledBy(trade)
  BY <1>2, <1>4, <1>6, <1>7, LoadSettled, StoreSettled
     DEF Continue, OverdraftInv
<1>8. CASE UNCHANGED vars
  BY <1>5, <1>8 DEF vars
<1>9. QED
  BY <1>1, <1>7, <1>8 DEF SerialNext

----------------------------------------------------------------------------
(* Nothing is lost. *)

Total(asset) == SumFunction([trader \in Traders |-> Settled(trader, asset)])

(* A settlement moves what it moves from one to the other. *)
LEMMA SettlementKeepsTotal ==
    ASSUME TypeInv, TypeInv', NEW trade \in TradeValues, SettledBy(trade),
           NEW asset \in Assets
    PROVE  Total(asset)' = Total(asset)
<1> DEFINE f == [trader \in Traders |-> Settled(trader, asset)]
           g == [trader \in Traders |-> Settled(trader, asset)']
           e(trader) == Effect(trade, trader, asset)
           b == trade.buyer
           s == trade.seller
<1>1. /\ Total(asset) = SumFunction(f) /\ Total(asset)' = SumFunction(g)
      /\ DOMAIN f = Traders /\ DOMAIN g = Traders
  BY DEF Total
<1>2. \A trader \in Traders :
         /\ f[trader] \in Int /\ e(trader) \in Int
         /\ g[trader] = f[trader] + e(trader)
  BY SettledIsInteger, EffectIs DEF SettledBy
<1>3. /\ b \in Traders /\ s \in Traders
      /\ b = s => \A trader \in Traders : e(trader) = 0
      /\ \A trader \in Traders \ {b, s} : e(trader) = 0
  BY CostInt, EffectIs
<1>4. b # s => e(b) + e(s) = 0
  <2> SUFFICES ASSUME b # s PROVE e(b) + e(s) = 0
    OBVIOUS
  <2>1. Cost(trade) \in Int /\ trade.quantity \in Int /\ trade.symbol # Cash
    BY CostInt
  <2>2. CASE asset = Cash
    <3>1. e(b) = - Cost(trade) /\ e(s) = Cost(trade)
      BY <1>3, <2>2, EffectIs
    <3>2. QED
      BY <2>1, <3>1
  <2>3. CASE asset = trade.symbol
    <3>1. e(b) = trade.quantity /\ e(s) = - trade.quantity
      BY <1>3, <2>3, EffectIs
    <3>2. QED
      BY <2>1, <3>1
  <2>4. CASE asset \notin {Cash, trade.symbol}
    <3>1. e(b) = 0 /\ e(s) = 0
      BY <1>3, <2>4, EffectIs
    <3>2. QED
      BY <3>1
  <2>5. QED
    BY <2>2, <2>3, <2>4
<1>5. IsFiniteSet(Traders)
  BY SettlementAssumption
<1> HIDE DEF f, g, e, b, s
<1>6. \A trader \in Traders : f[trader] \in Int /\ g[trader] \in Int
  BY <1>2
<1>7. CASE b = s
  <2>1. \A trader \in Traders : g[trader] = f[trader]
    BY <1>2, <1>3, <1>7
  <2>2. SumFunctionOnSet(g, Traders) = SumFunctionOnSet(f, Traders)
    BY <1>5, <2>1, SumOfSame
  <2>3. QED
    BY <1>1, <2>2 DEF SumFunction
<1>8. CASE b # s
  <2>1. \A trader \in Traders \ {b, s} : f[trader] = g[trader]
    BY <1>2, <1>3
  <2>2. f[b] + f[s] = g[b] + g[s]
    BY <1>2, <1>3, <1>4, <1>8
  <2>3. SumFunctionOnSet(g, Traders) = SumFunctionOnSet(f, Traders)
    BY <1>3, <1>5, <1>6, <1>8, <2>1, <2>2, SumKeptByTransfer
  <2>4. QED
    BY <1>1, <2>3 DEF SumFunction
<1>9. QED
  BY <1>7, <1>8

LEMMA NothingLostInit == Init => NothingLost
<1> SUFFICES ASSUME Init, NEW asset \in Assets
             PROVE  SumFunction([trader \in Traders |-> Settled(trader, asset)])
                       = IF asset = Cash THEN InitialBalance * Cardinality(Traders)
                         ELSE 0
  BY DEF NothingLost
<1> DEFINE f == [trader \in Traders |-> Settled(trader, asset)]
           c == IF asset = Cash THEN InitialBalance ELSE 0
<1>1. TypeInv
  BY SettleInit
<1>2. ASSUME NEW trader \in Traders PROVE Settled(trader, asset) = c
  <2>1. \A t \in Threads : Due(t, trader, asset) = 0
    BY <1>1, DueNothing DEF Init
  <2>2. Pending(trader, asset) = 0
    BY <2>1, PendingNothing
  <2>3. holding[trader][asset] = c /\ c \in Int
    BY SettlementAssumption DEF Init
  <2>4. QED
    BY <2>2, <2>3 DEF Settled
<1>3. \A trader \in Traders : f[trader] = c
  BY <1>2
<1>4. c \in Int /\ IsFiniteSet(Traders) /\ DOMAIN f = Traders
  BY SettlementAssumption
<1>5. Cardinality(Traders) \in Nat
  BY <1>4, FS_CardinalityType
<1> HIDE DEF f
<1>6. SumFunctionOnSet(f, Traders) = c * Cardinality(Traders)
  <2> HIDE DEF c
  <2>1. QED
    BY <1>3, <1>4, SumOfEqual
<1>7. SumFunction(f) = c * Cardinality(Traders)
  BY <1>4, <1>6 DEF SumFunction
<1>8. 0 * Cardinality(Traders) = 0
  BY <1>5
<1>9. QED
  BY <1>7, <1>8 DEF f

LEMMA NothingLostStep ==
    TypeInv /\ TypeInv' /\ OverdraftInv /\ NothingLost /\ [SerialNext]_vars
        => NothingLost'
<1> SUFFICES ASSUME TypeInv, TypeInv', OverdraftInv, NothingLost, [SerialNext]_vars,
                    NEW asset \in Assets
             PROVE  Total(asset)' = Total(asset)
  BY DEF NothingLost, Total
<1>1. CASE SettledKept
  BY <1>1 DEF SettledKept, Total
<1>2. CASE \E trade \in TradeValues : SettledBy(trade)
  BY <1>2, SettlementKeepsTotal
<1>3. QED
  BY <1>1, <1>2, SerialStepSettles

(* What the accounts hold and what the settlements under way have still to
   store is, for the money and for every symbol, what was there at the start:
   the four updates of settleTrade, with the steps of other settlements in
   between, a trade of a trader with himself, a trade that cannot be paid
   and an exception on the way included. *)
THEOREM NothingIsLost == SerialSpec => []NothingLost
BY SettleInit, OverdraftInit, NothingLostInit, SerialStep, NothingLostStep, PTL
   DEF SerialSpec

----------------------------------------------------------------------------
(* Settlement as a Ledger. *)

LEMMA LedgerInit == Init => Transfers!Init
<1> SUFFICES ASSUME Init PROVE Transfers!Init
  OBVIOUS
<1>1. TypeInv
  BY SettleInit
<1>2. ASSUME NEW trader \in Traders, NEW asset \in Assets
      PROVE  Settled(trader, asset) = IF asset = Cash THEN InitialBalance ELSE 0
  <2>1. \A t \in Threads : Due(t, trader, asset) = 0
    BY <1>1, DueNothing DEF Init
  <2>2. Pending(trader, asset) = 0
    BY <2>1, PendingNothing
  <2>3. /\ holding[trader][asset] = IF asset = Cash THEN InitialBalance ELSE 0
        /\ holding[trader][asset] \in Int
    BY SettlementAssumption DEF Init
  <2>4. QED
    BY <2>2, <2>3 DEF Settled
<1>3. QED
  BY <1>2 DEF Transfers!Init, Assets, SettledHoldings

(* What a table of accounts says. *)
Amount(h, trader, asset) == h[trader][asset]

Tables == [Traders -> [Assets -> Int]]

(* An amount moved from one account to another. *)
LEMMA MoveIs ==
    ASSUME NEW h \in Tables, NEW from \in Traders,
           NEW to \in Traders, NEW asset \in Assets, NEW amount \in Int
    PROVE  LET moved == Transfers!Move(from, to, asset, amount, h) IN
           /\ moved \in Tables
           /\ \A trader \in Traders, a \in Assets :
                 /\ a # asset \/ from = to \/ trader \notin {from, to} =>
                       Amount(moved, trader, a) = Amount(h, trader, a)
                 /\ a = asset /\ from # to /\ trader = from =>
                       Amount(moved, trader, a) = Amount(h, trader, a) - amount
                 /\ a = asset /\ from # to /\ trader = to =>
                       Amount(moved, trader, a) = Amount(h, trader, a) + amount
<1> DEFINE taken == [h EXCEPT ![from][asset] = @ - amount]
           given == [taken EXCEPT ![to][asset] = @ + amount]
<1>0. h \in [Traders -> [Assets -> Int]]
  BY DEF Tables
<1>1. /\ taken \in [Traders -> [Assets -> Int]]
      /\ \A trader \in Traders, a \in Assets :
            taken[trader][a] = IF trader = from /\ a = asset
                               THEN h[trader][a] - amount ELSE h[trader][a]
  BY <1>0
<1>2. /\ given \in [Traders -> [Assets -> Int]]
      /\ \A trader \in Traders, a \in Assets :
            given[trader][a] = IF trader = to /\ a = asset
                               THEN taken[trader][a] + amount ELSE taken[trader][a]
  <2> HIDE DEF taken
  <2>1. QED
    BY <1>1
<1>3. \A m, n \in Int : (m - n) + n = m
  OBVIOUS
<1>4. Transfers!Move(from, to, asset, amount, h) = given
  BY DEF Transfers!Move
<1> HIDE DEF taken, given
<1>5. ASSUME NEW trader \in Traders, NEW a \in Assets
      PROVE  /\ a # asset \/ from = to \/ trader \notin {from, to} =>
                    given[trader][a] = h[trader][a]
             /\ a = asset /\ from # to /\ trader = from =>
                    given[trader][a] = h[trader][a] - amount
             /\ a = asset /\ from # to /\ trader = to =>
                    given[trader][a] = h[trader][a] + amount
  <2>1. /\ taken[trader][a] = IF trader = from /\ a = asset
                              THEN h[trader][a] - amount ELSE h[trader][a]
        /\ given[trader][a] = IF trader = to /\ a = asset
                              THEN taken[trader][a] + amount ELSE taken[trader][a]
        /\ h[trader][a] \in Int
    BY <1>0, <1>1, <1>2
  <2>2. QED
    BY <2>1, <1>3
<1>6. QED
  BY <1>2, <1>4, <1>5 DEF Amount, Tables

LEMMA SettlementIsTransfer ==
    ASSUME TypeInv, TypeInv', NEW trade \in TradeValues, SettledBy(trade)
    PROVE  [Transfers!Next]_SettledHoldings
<1> DEFINE h == SettledHoldings
           b == trade.buyer
           s == trade.seller
           y == trade.symbol
           cost == Cost(trade)
           q == trade.quantity
           one == Transfers!Move(s, b, y, q, h)
           two == Transfers!Move(b, s, Cash, cost, one)
<1>1. /\ b \in Traders /\ s \in Traders /\ y \in Assets /\ y # Cash
      /\ Cash \in Assets /\ cost \in Int /\ q \in Int
      /\ cost = trade.price * trade.quantity
      /\ y \in Symbols /\ trade.price \in Prices /\ q \in Quantities
  BY CostInt DEF TradeValues, Cost
<1>2. /\ h \in Tables
      /\ \A trader \in Traders, asset \in Assets :
            Amount(h, trader, asset) = Settled(trader, asset)
  BY SettledIsInteger DEF SettledHoldings, Amount, Tables
<1> HIDE DEF h, b, s, y, cost, q
<1>3. /\ one \in Tables
      /\ \A trader \in Traders, a \in Assets :
            /\ a # y \/ s = b \/ trader \notin {s, b} =>
                  Amount(one, trader, a) = Amount(h, trader, a)
            /\ a = y /\ s # b /\ trader = s =>
                  Amount(one, trader, a) = Amount(h, trader, a) - q
            /\ a = y /\ s # b /\ trader = b =>
                  Amount(one, trader, a) = Amount(h, trader, a) + q
  BY <1>1, <1>2, MoveIs
<1> HIDE DEF one
<1>4. /\ two \in Tables
      /\ \A trader \in Traders, a \in Assets :
            /\ a # Cash \/ b = s \/ trader \notin {b, s} =>
                  Amount(two, trader, a) = Amount(one, trader, a)
            /\ a = Cash /\ b # s /\ trader = b =>
                  Amount(two, trader, a) = Amount(one, trader, a) - cost
            /\ a = Cash /\ b # s /\ trader = s =>
                  Amount(two, trader, a) = Amount(one, trader, a) + cost
  BY <1>1, <1>3, MoveIs
<1> HIDE DEF two
<1>5. ASSUME NEW trader \in Traders, NEW asset \in Assets
      PROVE  Amount(two, trader, asset) = Settled(trader, asset)'
  <2> DEFINE e == Effect(trade, trader, asset)
             amount == Amount(h, trader, asset)
  <2>1. /\ Settled(trader, asset)' = amount + e /\ amount \in Int
        /\ amount + 0 = amount
        /\ amount - cost = amount + (- cost) /\ amount - q = amount + (- q)
    BY <1>1, <1>2, SettledIsInteger DEF SettledBy
  <2>2. /\ b = s => e = 0
        /\ trader \notin {b, s} => e = 0
        /\ asset \notin {Cash, y} => e = 0
        /\ b # s => /\ trader = b /\ asset = Cash => e = - cost
                    /\ trader = s /\ asset = Cash => e = cost
                    /\ trader = b /\ asset = y => e = q
                    /\ trader = s /\ asset = y => e = - q
    BY EffectIs DEF b, s, y, cost, q
  <2> HIDE DEF e
  <2>3. CASE b = s \/ trader \notin {b, s} \/ asset \notin {Cash, y}
    BY <1>1, <1>3, <1>4, <2>1, <2>2, <2>3
  <2>4. CASE b # s /\ asset = Cash
    BY <1>1, <1>3, <1>4, <2>1, <2>2, <2>4
  <2>5. CASE b # s /\ asset = y
    BY <1>1, <1>3, <1>4, <2>1, <2>2, <2>5
  <2>6. QED
    BY <2>3, <2>4, <2>5
<1>6. h' = two
  <2>1. h' = [trader \in Traders |-> [asset \in Assets |-> Settled(trader, asset)']]
    BY DEF h, SettledHoldings
  <2>2. two = [trader \in Traders |-> [asset \in Assets |-> two[trader][asset]]]
    BY <1>4 DEF Tables
  <2>3. \A trader \in Traders, asset \in Assets :
           two[trader][asset] = Settled(trader, asset)'
    BY <1>5 DEF Amount
  <2>4. QED
    BY <2>1, <2>2, <2>3
<1>7. cost \in 0 .. h[b][Cash]
  BY <1>1, <1>2 DEF Amount, SettledBy, b, cost
<1>8. Transfers!Settle(b, s, y, trade.price, q)
  <2>1. two = Transfers!Move(b, s, Cash, trade.price * trade.quantity,
                            Transfers!Move(s, b, y, q, h))
    BY <1>1 DEF one, two, cost, q
  <2>2. QED
    BY <1>1, <1>6, <1>7, <2>1 DEF Transfers!Settle, h, SettledHoldings, cost, q
<1>9. QED
  BY <1>1, <1>8 DEF Transfers!Next, SettledHoldings

LEMMA StepTransfers ==
    TypeInv /\ TypeInv' /\ OverdraftInv /\ [SerialNext]_vars
        => [Transfers!Next]_SettledHoldings
<1> SUFFICES ASSUME TypeInv, TypeInv', OverdraftInv, [SerialNext]_vars
             PROVE  [Transfers!Next]_SettledHoldings
  OBVIOUS
<1>1. CASE SettledKept
  <2>1. SettledHoldings' = SettledHoldings
    BY <1>1 DEF SettledKept, SettledHoldings
  <2>2. QED
    BY <2>1
<1>2. CASE \E trade \in TradeValues : SettledBy(trade)
  BY <1>2, SettlementIsTransfer
<1>3. QED
  BY <1>1, <1>2, SerialStepSettles

(* As long as settlements that overlap have no account in common, every step
   of the engine is a whole transfer of Ledger that the buyer can pay, or
   changes nothing Ledger can see.  The transfer happens when withdraw has
   found the balance sufficient: the updates that follow are bound to be
   made. *)
THEOREM SettlementImplementsLedger == SerialSpec => ImplementsLedger
<1>1. Init => TypeInv /\ OverdraftInv /\ Transfers!Init
  BY SettleInit, OverdraftInit, LedgerInit
<1>2. TypeInv /\ OverdraftInv /\ [SerialNext]_vars => TypeInv' /\ OverdraftInv'
  BY SerialStep
<1>3. TypeInv /\ OverdraftInv /\ [SerialNext]_vars => [Transfers!Next]_SettledHoldings
  BY <1>2, StepTransfers
<1>4. QED
  BY <1>1, <1>2, <1>3, PTL DEF SerialSpec, ImplementsLedger, Transfers!Spec
=============================================================================
