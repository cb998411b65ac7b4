---------------------------- MODULE EngineProofs ----------------------------
(***************************************************************************)
(* Proofs about Engine, for every set of keys and symbols, every largest   *)
(* price and every width of a size.                                        *)
(*                                                                         *)
(* The first part shows that the engine's state is well typed, that its    *)
(* books are never crossed and that their levels stay in time priority;    *)
(* the second, that its index and its books agree: active_orders_ holds    *)
(* exactly the resting orders, under handles that never dangle; and that   *)
(* priority is never gained by an update.                                  *)
(***************************************************************************)
EXTENDS Engine, SequenceTheorems, WellFoundedInduction, TLAPS

-----------------------------------------------------------------------------
(* The best price of a side exists: prices are bounded.                    *)

\* A set of naturals that is not empty has a least element.
LEMMA LowestExists ==
    ASSUME NEW T, T \subseteq Nat, T # {}
    PROVE  \E x \in T : \A y \in T : ~ (y < x)
<1>1. \E x \in T : \A y \in T : ~ (<<y, x>> \in OpToRel(<, Nat))
  BY NatLessThanWellFounded, WFMin
<1>2. \A x, y \in Nat : <<y, x>> \in OpToRel(<, Nat) <=> y < x
  BY DEF OpToRel
<1> QED BY <1>1, <1>2

\* A set of prices that is not empty has a greatest element: prices are
\* bounded by MaxPrice.
LEMMA HighestExists ==
    ASSUME NEW T, T \subseteq Price, T # {}
    PROVE  \E x \in T : \A y \in T : ~ (y > x)
<1> DEFINE U == {MaxPrice - x : x \in T}
<1>1. U \subseteq Nat /\ U # {}
  BY MaxPriceAssumption DEF Price
<1>2. PICK u \in U : \A w \in U : ~ (w < u)
  BY <1>1, LowestExists
<1>3. PICK x \in T : u = MaxPrice - x
  BY <1>2
<1>4. ASSUME NEW y \in T PROVE ~ (y > x)
  <2>1. MaxPrice - y \in U
    OBVIOUS
  <2>2. ~ (MaxPrice - y < MaxPrice - x)
    BY <1>2, <1>3, <2>1
  <2>3. x \in Nat /\ y \in Nat /\ MaxPrice \in Nat
    BY MaxPriceAssumption DEF Price
  <2> QED BY <2>2, <2>3
<1> QED BY <1>4

\* begin() is well defined: on a side that has a level it is the price of one
\* and no level is better (the ordering of bid_levels and ask_levels).
LEMMA BeginIsBest ==
    ASSUME NEW direction, NEW levels,
           DOMAIN levels \subseteq Price, DOMAIN levels # {}
    PROVE  /\ begin(direction, levels) \in DOMAIN levels
           /\ \A q \in DOMAIN levels :
                 ~ Better(direction, q, begin(direction, levels))
<1>1. \E p \in DOMAIN levels :
         \A q \in DOMAIN levels : ~ Better(direction, q, p)
  <2>1. CASE direction = "buy"
    BY <2>1, HighestExists DEF Better
  <2>2. CASE direction # "buy"
    BY <2>2, LowestExists DEF Better, Price
  <2> QED BY <2>1, <2>2
<1> QED BY <1>1 DEF begin

-----------------------------------------------------------------------------
(* Sizes.                                                                  *)

\* -= on std::uint64_t yields a std::uint64_t.
LEMMA MinusType ==
    ASSUME NEW a \in Int, NEW b \in Int
    PROVE  Minus(a, b) \in Size
BY SizeModulusAssumption DEF Minus, Size

\* += on std::uint64_t yields a std::uint64_t.
LEMMA PlusType ==
    ASSUME NEW a \in Int, NEW b \in Int
    PROVE  Plus(a, b) \in Size
BY SizeModulusAssumption DEF Plus, Size

-----------------------------------------------------------------------------
(* Lists of orders.                                                        *)

\* The orders of a list, which may be empty, are as OrderedLevel says.
OrderedList(orders, direction, p, n) ==
    /\ \A i \in DOMAIN orders :
          /\ orders[i].limit_price = p
          /\ orders[i].direction = direction
          /\ orders[i].sequence < n
    /\ \A i, j \in DOMAIN orders :
          i < j => orders[i].sequence < orders[j].sequence

\* list::erase keeps the other elements, in their order.
LEMMA RemoveAtElements ==
    ASSUME NEW S, NEW s \in Seq(S), NEW i \in 1 .. Len(s)
    PROVE  /\ RemoveAt(s, i) \in Seq(S)
           /\ Len(RemoveAt(s, i)) = Len(s) - 1
           /\ \A j \in 1 .. Len(s) - 1 :
                 RemoveAt(s, i)[j] = IF j < i THEN s[j] ELSE s[j + 1]
<1> DEFINE a == SubSeq(s, 1, i - 1)
           b == SubSeq(s, i + 1, Len(s))
<1>1. /\ a \in Seq(S) /\ Len(a) = i - 1
      /\ \A j \in 1 .. i - 1 : a[j] = s[j]
  BY SubSeqProperties
<1>2. /\ b \in Seq(S) /\ Len(b) = Len(s) - i
      /\ \A j \in 1 .. Len(s) - i : b[j] = s[i + j]
  BY SubSeqProperties
<1>3. RemoveAt(s, i) = a \o b
  BY DEF RemoveAt
<1> HIDE DEF a, b
<1>4. /\ a \o b \in Seq(S)
      /\ Len(a \o b) = Len(a) + Len(b)
      /\ \A j \in 1 .. Len(a) + Len(b) :
            (a \o b)[j] = IF j <= Len(a) THEN a[j] ELSE b[j - Len(a)]
  BY <1>1, <1>2, ConcatProperties
<1>5. ASSUME NEW j \in 1 .. Len(s) - 1
      PROVE  (a \o b)[j] = IF j < i THEN s[j] ELSE s[j + 1]
  <2>1. j \in 1 .. Len(a) + Len(b)
    BY <1>1, <1>2
  <2>2. CASE j < i
    BY <1>1, <1>4, <2>1, <2>2
  <2>3. CASE ~ (j < i)
    <3>1. j - Len(a) \in 1 .. Len(s) - i /\ ~ (j <= Len(a))
      BY <1>1, <2>3
    <3>2. b[j - Len(a)] = s[i + (j - Len(a))]
      BY <1>2, <3>1
    <3>3. i + (j - Len(a)) = j + 1
      BY <1>1
    <3> QED BY <1>4, <2>1, <2>3, <3>1, <3>2, <3>3
  <2> QED BY <2>2, <2>3
<1> QED BY <1>1, <1>2, <1>3, <1>4, <1>5

\* list::erase keeps a list in time priority.
LEMMA RemoveAtOrdered ==
    ASSUME NEW orders \in Seq(resting_order), NEW i \in 1 .. Len(orders),
           NEW direction, NEW p, NEW n \in Nat,
           OrderedList(orders, direction, p, n)
    PROVE  /\ RemoveAt(orders, i) \in Seq(resting_order)
           /\ OrderedList(RemoveAt(orders, i), direction, p, n)
<1> DEFINE rest == RemoveAt(orders, i)
           old(j) == IF j < i THEN j ELSE j + 1
<1>1. /\ rest \in Seq(resting_order)
      /\ Len(rest) = Len(orders) - 1
      /\ \A j \in 1 .. Len(orders) - 1 :
            rest[j] = IF j < i THEN orders[j] ELSE orders[j + 1]
  BY RemoveAtElements
<1> HIDE DEF rest
<1>2. DOMAIN rest = 1 .. Len(orders) - 1 /\ DOMAIN orders = 1 .. Len(orders)
  BY <1>1
<1>3. \A j \in DOMAIN rest : old(j) \in DOMAIN orders /\ rest[j] = orders[old(j)]
  BY <1>1, <1>2
<1>4. \A j, k \in DOMAIN rest : j < k => old(j) < old(k)
  BY <1>2
<1> HIDE DEF old
<1>5. OrderedList(rest, direction, p, n)
  BY <1>3, <1>4 DEF OrderedList
<1> QED BY <1>1, <1>5 DEF rest

\* pop_front keeps a list in time priority.
LEMMA TailOrdered ==
    ASSUME NEW orders \in Seq(resting_order), orders # <<>>,
           NEW direction, NEW p, NEW n \in Nat,
           OrderedList(orders, direction, p, n)
    PROVE  /\ Tail(orders) \in Seq(resting_order)
           /\ OrderedList(Tail(orders), direction, p, n)
<1>1. /\ Tail(orders) \in Seq(resting_order)
      /\ Len(Tail(orders)) = Len(orders) - 1
      /\ \A i \in 1 .. Len(Tail(orders)) : Tail(orders)[i] = orders[i + 1]
  BY HeadTailProperties
<1>2. /\ DOMAIN Tail(orders) = 1 .. Len(orders) - 1
      /\ DOMAIN orders = 1 .. Len(orders)
      /\ Len(orders) \in Nat
  BY <1>1
<1> HIDE DEF OrderedList
<1>3. OrderedList(Tail(orders), direction, p, n)
  BY <1>1, <1>2 DEF OrderedList
<1> QED BY <1>1, <1>3

\* A new size changes nothing that the order of the list depends on.
LEMMA ResizeOrdered ==
    ASSUME NEW orders \in Seq(resting_order), NEW i \in 1 .. Len(orders),
           NEW size \in Quantity,
           NEW direction, NEW p, NEW n \in Nat,
           OrderedList(orders, direction, p, n)
    PROVE  /\ [orders EXCEPT ![i].open_size = size] \in Seq(resting_order)
           /\ [orders EXCEPT ![i].open_size = size] # <<>>
           /\ OrderedList([orders EXCEPT ![i].open_size = size],
                          direction, p, n)
<1> DEFINE e == [orders[i] EXCEPT !.open_size = size]
           new == [orders EXCEPT ![i] = e]
<1>1. orders[i] \in resting_order
  BY ElementOfSeq
<1>2. /\ e \in resting_order
      /\ e.limit_price = orders[i].limit_price
      /\ e.direction = orders[i].direction
      /\ e.sequence = orders[i].sequence
  BY <1>1 DEF resting_order
<1>3. [orders EXCEPT ![i].open_size = size] = new
  OBVIOUS
<1> HIDE DEF e
<1>4. /\ new \in Seq(resting_order)
      /\ Len(new) = Len(orders)
      /\ \A j \in 1 .. Len(orders) : new[j] = IF j = i THEN e ELSE orders[j]
  BY <1>2, ExceptSeq
<1> HIDE DEF new
<1>5. DOMAIN new = 1 .. Len(orders) /\ DOMAIN orders = 1 .. Len(orders)
  BY <1>4
<1>6. OrderedList(new, direction, p, n)
  BY <1>2, <1>4, <1>5 DEF OrderedList
<1>7. new # <<>>
  BY <1>4
<1> QED BY <1>3, <1>4, <1>6, <1>7

\* push_back of an order with a number above all others keeps a list in time
\* priority.
LEMMA AppendOrdered ==
    ASSUME NEW orders \in Seq(resting_order), NEW order \in resting_order,
           NEW direction, NEW p, NEW n \in Nat, NEW m \in Nat,
           OrderedList(orders, direction, p, n),
           order.limit_price = p, order.direction = direction,
           n <= order.sequence, order.sequence < m
    PROVE  /\ Append(orders, order) \in Seq(resting_order)
           /\ Append(orders, order) # <<>>
           /\ OrderedList(Append(orders, order), direction, p, m)
<1> DEFINE new == Append(orders, order)
<1>1. /\ new \in Seq(resting_order)
      /\ Len(new) = Len(orders) + 1
      /\ \A j \in 1 .. Len(orders) : new[j] = orders[j]
      /\ new[Len(orders) + 1] = order
  BY AppendProperties
<1> HIDE DEF new
<1>2. /\ DOMAIN new = 1 .. Len(orders) + 1
      /\ DOMAIN orders = 1 .. Len(orders)
      /\ Len(orders) \in Nat
  BY <1>1
<1>3. /\ \A j \in 1 .. Len(orders) : orders[j].sequence \in Nat
      /\ order.sequence \in Nat
  <2>1. \A j \in 1 .. Len(orders) : orders[j] \in resting_order
    BY ElementOfSeq
  <2> QED BY <2>1 DEF resting_order, Sequence
<1>4. ASSUME NEW i \in DOMAIN new
      PROVE  /\ new[i].limit_price = p
             /\ new[i].direction = direction
             /\ new[i].sequence < m
  <2>1. CASE i \in 1 .. Len(orders)
    BY <1>1, <1>2, <1>3, <2>1 DEF OrderedList
  <2>2. CASE i = Len(orders) + 1
    BY <1>1, <2>2
  <2> QED BY <1>2, <2>1, <2>2
<1>5. ASSUME NEW i \in DOMAIN new, NEW j \in DOMAIN new, i < j
      PROVE  new[i].sequence < new[j].sequence
  <2>1. i \in 1 .. Len(orders)
    BY <1>2, <1>5
  <2>2. CASE j \in 1 .. Len(orders)
    BY <1>1, <1>2, <1>5, <2>1, <2>2 DEF OrderedList
  <2>3. CASE j = Len(orders) + 1
    BY <1>1, <1>2, <1>3, <2>1, <2>3 DEF OrderedList
  <2> QED BY <1>2, <2>2, <2>3
<1>6. OrderedList(new, direction, p, m)
  BY <1>4, <1>5 DEF OrderedList
<1>7. new # <<>>
  BY <1>1
<1> QED BY <1>1, <1>6, <1>7 DEF new

-----------------------------------------------------------------------------
(* One side of a book.                                                     *)

GoodLevels(levels, direction, n) ==
    /\ IsLevels(levels)
    /\ \A p \in DOMAIN levels : OrderedLevel(levels[p], direction, p, n)

\* A level is ordered when it has an order and its list is ordered.
LEMMA OrderedLevelIsList ==
    ASSUME NEW level, NEW direction, NEW p, NEW n
    PROVE  OrderedLevel(level, direction, p, n) <=>
              /\ level.orders # <<>>
              /\ OrderedList(level.orders, direction, p, n)
BY DEF OrderedLevel, OrderedList

\* A list below a sequence number is below every greater one.
LEMMA OrderedListWeaken ==
    ASSUME NEW orders \in Seq(resting_order), NEW direction, NEW p,
           NEW n \in Nat, NEW m \in Nat, n <= m,
           OrderedList(orders, direction, p, n)
    PROVE  OrderedList(orders, direction, p, m)
<1>1. \A i \in DOMAIN orders : orders[i] \in resting_order
  BY ElementOfSeq
<1>2. \A i \in DOMAIN orders : orders[i].sequence \in Nat
  BY <1>1 DEF resting_order, Sequence
<1> QED BY <1>2 DEF OrderedList

\* So is a side.
LEMMA GoodLevelsWeaken ==
    ASSUME NEW levels, NEW direction, NEW n \in Nat, NEW m \in Nat, n <= m,
           GoodLevels(levels, direction, n)
    PROVE  GoodLevels(levels, direction, m)
<1>1. \A p \in DOMAIN levels : levels[p].orders \in Seq(resting_order)
  BY DEF GoodLevels, IsLevels, price_level
<1>2. \A p \in DOMAIN levels : OrderedLevel(levels[p], direction, p, m)
  BY <1>1, OrderedLevelIsList, OrderedListWeaken DEF GoodLevels
<1> QED BY <1>2 DEF GoodLevels

\* A side without levels is good.
LEMMA EmptyGood ==
    ASSUME NEW direction, NEW n
    PROVE  GoodLevels(EmptyMap, direction, n) /\ DOMAIN EmptyMap = {}
<1>1. DOMAIN EmptyMap = {}
  BY DEF EmptyMap
<1>2. EmptyMap = [x \in DOMAIN EmptyMap |-> EmptyMap[x]]
  BY DEF EmptyMap
<1> QED BY <1>1, <1>2 DEF GoodLevels, IsLevels, IsMap

\* Storing a good level keeps a side good.
LEMMA PutGood ==
    ASSUME NEW levels, NEW direction, NEW n, GoodLevels(levels, direction, n),
           NEW p, p \in Price, NEW level, level \in price_level,
           OrderedLevel(level, direction, p, n)
    PROVE  /\ GoodLevels(Put(levels, p, level), direction, n)
           /\ DOMAIN Put(levels, p, level) = DOMAIN levels \cup {p}
<1> DEFINE new == Put(levels, p, level)
<1>1. /\ DOMAIN new = DOMAIN levels \cup {p}
      /\ new = [x \in DOMAIN new |-> new[x]]
      /\ \A q \in DOMAIN new : new[q] = IF q = p THEN level ELSE levels[q]
  BY DEF Put
<1> HIDE DEF new
<1>2. IsLevels(new)
  BY <1>1 DEF GoodLevels, IsLevels, IsMap
<1>3. \A q \in DOMAIN new : OrderedLevel(new[q], direction, q, n)
  BY <1>1 DEF GoodLevels
<1> QED BY <1>1, <1>2, <1>3 DEF GoodLevels, new

\* Erasing a level keeps a side good.
LEMMA EraseGood ==
    ASSUME NEW levels, NEW direction, NEW n, GoodLevels(levels, direction, n),
           NEW S
    PROVE  /\ GoodLevels(Erase(levels, S), direction, n)
           /\ DOMAIN Erase(levels, S) = DOMAIN levels \ S
<1> DEFINE new == Erase(levels, S)
<1>1. /\ DOMAIN new = DOMAIN levels \ S
      /\ new = [x \in DOMAIN new |-> new[x]]
      /\ \A q \in DOMAIN new : new[q] = levels[q]
  BY DEF Erase
<1> HIDE DEF new
<1>2. IsLevels(new)
  BY <1>1 DEF GoodLevels, IsLevels, IsMap
<1>3. \A q \in DOMAIN new : OrderedLevel(new[q], direction, q, n)
  BY <1>1 DEF GoodLevels
<1> QED BY <1>1, <1>2, <1>3 DEF GoodLevels, new

\* Storing a level, or erasing it when it is empty, keeps a side good and adds
\* no price but the one stored.
LEMMA StoreGood ==
    ASSUME NEW levels, NEW direction, NEW n, GoodLevels(levels, direction, n),
           NEW p \in DOMAIN levels, NEW level \in price_level,
           OrderedList(level.orders, direction, p, n)
    PROVE  /\ GoodLevels(StoreLevel(levels, p, level), direction, n)
           /\ DOMAIN StoreLevel(levels, p, level) \subseteq DOMAIN levels
<1>1. p \in Price
  BY DEF GoodLevels, IsLevels, IsMap
<1>2. CASE level.orders = <<>>
  <2>1. StoreLevel(levels, p, level) = Erase(levels, {p})
    BY <1>2 DEF StoreLevel
  <2>2. /\ GoodLevels(Erase(levels, {p}), direction, n)
        /\ DOMAIN Erase(levels, {p}) = DOMAIN levels \ {p}
    BY EraseGood
  <2> QED BY <2>1, <2>2
<1>3. CASE level.orders # <<>>
  <2>1. StoreLevel(levels, p, level) = Put(levels, p, level)
    BY <1>3 DEF StoreLevel
  <2>2. OrderedLevel(level, direction, p, n)
    BY <1>3, OrderedLevelIsList
  <2>3. /\ GoodLevels(Put(levels, p, level), direction, n)
        /\ DOMAIN Put(levels, p, level) = DOMAIN levels \cup {p}
    <3>1. GoodLevels(Put(levels, p, level), direction, n)
      BY <1>1, <2>2, PutGood
    <3>2. DOMAIN Put(levels, p, level) = DOMAIN levels \cup {p}
      BY DEF Put
    <3> QED BY <3>1, <3>2
  <2> QED BY <2>1, <2>3
<1> QED BY <1>2, <1>3

\* What a level of a good side looks like.
LEMMA LevelFacts ==
    ASSUME NEW levels, NEW direction, NEW n, GoodLevels(levels, direction, n),
           NEW p \in DOMAIN levels
    PROVE  /\ p \in Price
           /\ levels[p] \in price_level
           /\ levels[p].total_size \in Size
           /\ levels[p].orders \in Seq(resting_order)
           /\ levels[p].orders # <<>>
           /\ OrderedList(levels[p].orders, direction, p, n)
BY OrderedLevelIsList DEF GoodLevels, IsLevels, IsMap, price_level

\* A handle that is held finds its node.
LEMMA PositionFacts ==
    ASSUME NEW levels, NEW direction, NEW n, GoodLevels(levels, direction, n),
           NEW handle, NEW key, Holds(levels, handle, key)
    PROVE  /\ handle.limit_price \in DOMAIN levels
           /\ LET orders == levels[handle.limit_price].orders
                  i == PositionOf(orders, handle.node)
              IN  /\ i \in 1 .. Len(orders)
                  /\ orders[i] \in resting_order
                  /\ orders[i].sequence = handle.node
<1> DEFINE orders == levels[handle.limit_price].orders
           i == PositionOf(orders, handle.node)
<1>1. handle.limit_price \in DOMAIN levels
  BY DEF Holds
<1>2. orders \in Seq(resting_order)
  BY <1>1, LevelFacts
<1>3. i \in DOMAIN orders /\ orders[i].sequence = handle.node
  BY DEF Holds, PositionOf
<1> HIDE DEF i
<1>4. i \in 1 .. Len(orders) /\ orders[i] \in resting_order
  BY <1>2, <1>3, ElementOfSeq
<1> QED BY <1>1, <1>3, <1>4 DEF i

\* remove_order (order_book.cpp:345) keeps a side good and adds no level.
LEMMA RemoveOrderGood ==
    ASSUME NEW levels, NEW direction, NEW n \in Nat,
           GoodLevels(levels, direction, n),
           NEW handle, NEW key, Holds(levels, handle, key)
    PROVE  /\ GoodLevels(remove_order(levels, handle), direction, n)
           /\ DOMAIN remove_order(levels, handle) \subseteq DOMAIN levels
<1> DEFINE p == handle.limit_price
           orders == levels[p].orders
           i == PositionOf(orders, handle.node)
           level == [total_size |-> Minus(levels[p].total_size,
                                          orders[i].open_size),
                     orders     |-> RemoveAt(orders, i)]
<1>1. /\ p \in DOMAIN levels /\ i \in 1 .. Len(orders)
      /\ orders[i] \in resting_order
  BY PositionFacts
<1>2. /\ orders \in Seq(resting_order)
      /\ OrderedList(orders, direction, p, n)
      /\ levels[p].total_size \in Size
  BY <1>1, LevelFacts
<1>3. remove_order(levels, handle) = StoreLevel(levels, p, level)
  BY DEF remove_order
<1>4. levels[p].total_size \in Int /\ orders[i].open_size \in Int
  BY <1>1, <1>2, SizeModulusAssumption DEF Size, resting_order, Quantity
<1> HIDE DEF i
<1>5. /\ RemoveAt(orders, i) \in Seq(resting_order)
      /\ OrderedList(RemoveAt(orders, i), direction, p, n)
  BY <1>1, <1>2, RemoveAtOrdered
<1>6. Minus(levels[p].total_size, orders[i].open_size) \in Size
  BY <1>4, MinusType
<1>7. level \in price_level
  BY <1>5, <1>6 DEF price_level
<1>8. OrderedList(level.orders, direction, p, n)
  BY <1>5
<1> HIDE DEF level, p
<1> QED BY <1>1, <1>3, <1>7, <1>8, StoreGood

\* reduce_order_size (order_book.cpp:311) keeps a side good and its levels.
LEMMA ReduceOrderGood ==
    ASSUME NEW levels, NEW direction, NEW n \in Nat,
           GoodLevels(levels, direction, n), NEW size \in Quantity,
           NEW handle, NEW key, Holds(levels, handle, key)
    PROVE  /\ GoodLevels(reduce_order_size(levels, handle, size), direction, n)
           /\ DOMAIN reduce_order_size(levels, handle, size) = DOMAIN levels
<1> DEFINE p == handle.limit_price
           orders == levels[p].orders
           i == PositionOf(orders, handle.node)
           new == [orders EXCEPT ![i].open_size = size]
           total == Minus(levels[p].total_size, orders[i].open_size - size)
           level == [total_size |-> total, orders |-> new]
<1>1. /\ p \in DOMAIN levels /\ i \in 1 .. Len(orders)
      /\ orders[i] \in resting_order
  BY PositionFacts
<1>2. /\ orders \in Seq(resting_order)
      /\ OrderedList(orders, direction, p, n)
      /\ levels[p].total_size \in Size
      /\ p \in Price
  BY <1>1, LevelFacts
<1>3. reduce_order_size(levels, handle, size) = Put(levels, p, level)
  BY DEF reduce_order_size
<1>4. /\ levels[p].total_size \in Int
      /\ orders[i].open_size - size \in Int
  BY <1>1, <1>2, SizeModulusAssumption DEF Size, resting_order, Quantity
<1> HIDE DEF i
<1>5. /\ new \in Seq(resting_order) /\ new # <<>>
      /\ OrderedList(new, direction, p, n)
  BY <1>1, <1>2, ResizeOrdered
<1>6. total \in Size
  BY <1>4, MinusType
<1> HIDE DEF new, total
<1>7. level \in price_level /\ level.orders = new
  BY <1>5, <1>6 DEF price_level
<1>8. OrderedLevel(level, direction, p, n)
  BY <1>5, <1>7, OrderedLevelIsList
<1> HIDE DEF level, p
<1>9. GoodLevels(Put(levels, p, level), direction, n)
  BY <1>2, <1>7, <1>8, PutGood
<1>10. DOMAIN Put(levels, p, level) = DOMAIN levels
  BY <1>1 DEF Put
<1> QED BY <1>3, <1>9, <1>10

\* An iteration of match_against_level (order_book.cpp:462) keeps a side good
\* and adds no level.
LEMMA TakeFromFrontGood ==
    ASSUME NEW levels, NEW direction, NEW n \in Nat,
           GoodLevels(levels, direction, n), NEW p \in DOMAIN levels,
           NEW executed \in Nat \ {0},
           executed <= Head(levels[p].orders).open_size
    PROVE  /\ GoodLevels(take_from_front(levels, p, executed), direction, n)
           /\ DOMAIN take_from_front(levels, p, executed)
                 \subseteq DOMAIN levels
<1> DEFINE orders == levels[p].orders
           resting == Head(orders)
           new == IF executed = resting.open_size THEN Tail(orders)
                  ELSE [orders EXCEPT ![1].open_size = @ - executed]
           total == Minus(levels[p].total_size, executed)
           level == [total_size |-> total, orders |-> new]
<1>1. /\ orders \in Seq(resting_order) /\ orders # <<>>
      /\ OrderedList(orders, direction, p, n)
      /\ levels[p].total_size \in Size
  BY LevelFacts
<1>2. /\ 1 \in 1 .. Len(orders) /\ resting = orders[1]
      /\ orders[1] \in resting_order
  BY <1>1, ElementOfSeq
<1>3. /\ levels[p].total_size \in Int /\ executed \in Int
      /\ orders[1].open_size \in Quantity
  BY <1>1, <1>2, SizeModulusAssumption DEF Size, resting_order
<1>4. take_from_front(levels, p, executed) = StoreLevel(levels, p, level)
  BY DEF take_from_front
<1>5. total \in Size
  BY <1>3, MinusType
<1>6. new \in Seq(resting_order) /\ OrderedList(new, direction, p, n)
  <2>1. CASE executed = resting.open_size
    BY <1>1, <2>1, TailOrdered
  <2>2. CASE executed # resting.open_size
    <3>1. orders[1].open_size - executed \in Quantity
      BY <1>2, <1>3, <2>2, SizeModulusAssumption DEF Quantity
    <3>2. new = [orders EXCEPT ![1].open_size = orders[1].open_size - executed]
      BY <1>2, <2>2
    <3> HIDE DEF new
    <3> QED BY <1>1, <1>2, <3>1, <3>2, ResizeOrdered
  <2> QED BY <2>1, <2>2
<1> HIDE DEF new, total
<1>7. level \in price_level /\ OrderedList(level.orders, direction, p, n)
  BY <1>5, <1>6 DEF price_level
<1> HIDE DEF level
<1> QED BY <1>4, <1>7, StoreGood

\* rest_order (order_book.cpp:496) keeps a side good and adds no level but the
\* one of the order.
LEMMA RestOrderGood ==
    ASSUME NEW levels, NEW direction, NEW n \in Nat, NEW m \in Nat,
           GoodLevels(levels, direction, n), NEW order \in resting_order,
           order.direction = direction,
           n <= order.sequence, order.sequence < m
    PROVE  /\ GoodLevels(rest_order(levels, order), direction, m)
           /\ DOMAIN rest_order(levels, order) =
                 DOMAIN levels \cup {order.limit_price}
<1> DEFINE p == order.limit_price
           old == IF p \in DOMAIN levels THEN levels[p]
                  ELSE [total_size |-> 0, orders |-> <<>>]
           total == Plus(old.total_size, order.open_size)
           new == Append(old.orders, order)
           level == [total_size |-> total, orders |-> new]
<1>1. /\ p \in Price /\ order.open_size \in Int /\ order.sequence \in Nat
  BY SizeModulusAssumption DEF resting_order, Quantity, Sequence
<1>2. /\ old.orders \in Seq(resting_order)
      /\ OrderedList(old.orders, direction, p, n)
      /\ old.total_size \in Size
  <2>1. CASE p \in DOMAIN levels
    BY <2>1, LevelFacts
  <2>2. CASE p \notin DOMAIN levels
    <3>1. old.orders = <<>> /\ old.total_size = 0
      BY <2>2
    <3>2. <<>> \in Seq(resting_order) /\ DOMAIN <<>> = {}
      OBVIOUS
    <3>3. 0 \in Size
      BY SizeModulusAssumption DEF Size
    <3> QED BY <3>1, <3>2, <3>3 DEF OrderedList
  <2> QED BY <2>1, <2>2
<1>3. rest_order(levels, order) = Put(levels, p, level)
  BY DEF rest_order
<1> HIDE DEF old
<1>4. total \in Size
  <2>1. old.total_size \in Int
    BY <1>2, SizeModulusAssumption DEF Size
  <2> QED BY <1>1, <2>1, PlusType
<1>5. /\ new \in Seq(resting_order) /\ new # <<>>
      /\ OrderedList(new, direction, p, m)
  BY <1>2, AppendOrdered
<1> HIDE DEF total, new
<1>6. level \in price_level /\ OrderedLevel(level, direction, p, m)
  BY <1>4, <1>5, OrderedLevelIsList DEF price_level
<1>7. GoodLevels(levels, direction, m)
  BY <1>1, GoodLevelsWeaken
<1> HIDE DEF level, p
<1>8. /\ GoodLevels(Put(levels, p, level), direction, m)
      /\ DOMAIN Put(levels, p, level) = DOMAIN levels \cup {p}
  BY <1>1, <1>6, <1>7, PutGood
<1> QED BY <1>3, <1>8 DEF p

\* top_of_book (order_book.cpp:527) of a good side is well typed.
LEMMA TopOfBookType ==
    ASSUME NEW levels, NEW direction, NEW other, NEW n,
           GoodLevels(levels, other, n)
    PROVE  top_of_book(direction, levels) \in top_of_book_state
<1>1. CASE DOMAIN levels = {}
  BY <1>1, SizeModulusAssumption
     DEF top_of_book, top_of_book_state, NoTop, NoPrice, Size
<1>2. CASE DOMAIN levels # {}
  <2>1. DOMAIN levels \subseteq Price
    BY DEF GoodLevels, IsLevels, IsMap
  <2>2. begin(direction, levels) \in DOMAIN levels
    BY <1>2, <2>1, BeginIsBest
  <2>3. /\ begin(direction, levels) \in Price
        /\ levels[begin(direction, levels)].total_size \in Size
    BY <2>2, LevelFacts
  <2> QED BY <1>2, <2>3 DEF top_of_book, top_of_book_state
<1> QED BY <1>1, <1>2

-----------------------------------------------------------------------------
(* All books.                                                              *)

GoodBooks(b, n) ==
    /\ IsMap(b, Symbols)
    /\ \A s \in DOMAIN b : IsBook(b[s])
    /\ \A s \in DOMAIN b : \A d \in Side : GoodLevels(b[s][d], d, n)

Uncrossed(b) ==
    \A s \in DOMAIN b :
        \A bid \in DOMAIN b[s]["buy"], ask \in DOMAIN b[s]["sell"] : bid < ask

\* The effect of books[s][d] = x.
Stored(b, s, d, x) == [b EXCEPT ![s][d] = x]

\* What books[s][d] = x changes, and what it leaves alone.
LEMMA StoreSide ==
    ASSUME NEW b, NEW n, GoodBooks(b, n),
           NEW s \in DOMAIN b, NEW d \in Side, NEW x
    PROVE  /\ DOMAIN Stored(b, s, d, x) = DOMAIN b
           /\ IsMap(Stored(b, s, d, x), Symbols)
           /\ \A t \in DOMAIN b :
                 /\ DOMAIN Stored(b, s, d, x)[t] = Side
                 /\ Stored(b, s, d, x)[t] =
                       [e \in Side |-> Stored(b, s, d, x)[t][e]]
                 /\ \A e \in Side :
                       Stored(b, s, d, x)[t][e] =
                          IF t = s /\ e = d THEN x ELSE b[t][e]
<1> DEFINE new == [b EXCEPT ![s][d] = x]
<1>1. /\ b = [t \in DOMAIN b |-> b[t]]
      /\ DOMAIN b \subseteq Symbols
      /\ \A t \in DOMAIN b : DOMAIN b[t] = Side /\ b[t] = [e \in Side |-> b[t][e]]
  BY DEF GoodBooks, IsMap, IsBook
<1>2. DOMAIN new = DOMAIN b /\ new = [t \in DOMAIN b |-> new[t]]
  BY <1>1
<1>3. \A t \in DOMAIN b : new[t] = IF t = s THEN [b[s] EXCEPT ![d] = x] ELSE b[t]
  BY <1>1
<1>4. ASSUME NEW t \in DOMAIN b
      PROVE  /\ DOMAIN new[t] = Side
             /\ new[t] = [e \in Side |-> new[t][e]]
             /\ \A e \in Side :
                   new[t][e] = IF t = s /\ e = d THEN x ELSE b[t][e]
  <2> HIDE DEF new
  <2>1. CASE t = s
    BY <1>1, <1>3, <2>1
  <2>2. CASE t # s
    BY <1>1, <1>3, <2>2
  <2> QED BY <2>1, <2>2
<1>5. IsMap(new, Symbols)
  BY <1>1, <1>2 DEF IsMap
<1> QED BY <1>2, <1>4, <1>5 DEF Stored

\* Replacing a side by a good one keeps the books good.
LEMMA StoreSideGood ==
    ASSUME NEW b, NEW n \in Nat, NEW m \in Nat, n <= m, GoodBooks(b, n),
           NEW s \in DOMAIN b, NEW d \in Side, NEW x, GoodLevels(x, d, m)
    PROVE  GoodBooks(Stored(b, s, d, x), m)
<1> DEFINE new == Stored(b, s, d, x)
<1>1. /\ DOMAIN new = DOMAIN b
      /\ IsMap(new, Symbols)
      /\ \A t \in DOMAIN b :
            /\ DOMAIN new[t] = Side
            /\ new[t] = [e \in Side |-> new[t][e]]
            /\ \A e \in Side :
                  new[t][e] = IF t = s /\ e = d THEN x ELSE b[t][e]
  BY StoreSide
<1> HIDE DEF new
<1>2. \A t \in DOMAIN b : \A e \in Side : GoodLevels(b[t][e], e, m)
  BY GoodLevelsWeaken DEF GoodBooks
<1>3. \A t \in DOMAIN b : \A e \in Side : GoodLevels(new[t][e], e, m)
  BY <1>1, <1>2
<1>4. \A t \in DOMAIN b : IsBook(new[t])
  BY <1>1, <1>3 DEF IsBook, GoodLevels
<1>5. GoodBooks(new, m)
  BY <1>1, <1>3, <1>4 DEF GoodBooks
<1> QED BY <1>5 DEF new

\* A side that loses levels does not cross a book.
LEMMA ShrinkUncrossed ==
    ASSUME NEW b, NEW n, GoodBooks(b, n), Uncrossed(b),
           NEW s \in DOMAIN b, NEW d \in Side, NEW x,
           DOMAIN x \subseteq DOMAIN b[s][d]
    PROVE  Uncrossed(Stored(b, s, d, x))
<1> DEFINE new == Stored(b, s, d, x)
<1>1. /\ DOMAIN new = DOMAIN b
      /\ IsMap(new, Symbols)
      /\ \A t \in DOMAIN b :
            /\ DOMAIN new[t] = Side
            /\ new[t] = [e \in Side |-> new[t][e]]
            /\ \A e \in Side :
                  new[t][e] = IF t = s /\ e = d THEN x ELSE b[t][e]
  BY StoreSide
<1> HIDE DEF new
<1>2. \A t \in DOMAIN b : \A e \in Side : DOMAIN new[t][e] \subseteq DOMAIN b[t][e]
  BY <1>1
<1>3. "buy" \in Side /\ "sell" \in Side
  BY DEF Side
<1>4. Uncrossed(new)
  BY <1>1, <1>2, <1>3 DEF Uncrossed
<1> QED BY <1>4 DEF new

\* Nor does a side that gains a price no opposite price crosses.
LEMMA RestUncrossed ==
    ASSUME NEW b, NEW n, GoodBooks(b, n), Uncrossed(b),
           NEW s \in DOMAIN b, NEW d \in Side, NEW x, NEW p,
           DOMAIN x = DOMAIN b[s][d] \cup {p},
           \A q \in DOMAIN b[s][Opposite(d)] :
              (d = "buy" => p < q) /\ (d = "sell" => q < p)
    PROVE  Uncrossed(Stored(b, s, d, x))
<1> DEFINE new == Stored(b, s, d, x)
<1>1. /\ DOMAIN new = DOMAIN b
      /\ IsMap(new, Symbols)
      /\ \A t \in DOMAIN b :
            /\ DOMAIN new[t] = Side
            /\ new[t] = [e \in Side |-> new[t][e]]
            /\ \A e \in Side :
                  new[t][e] = IF t = s /\ e = d THEN x ELSE b[t][e]
  BY StoreSide
<1> HIDE DEF new
<1>2. ASSUME NEW t \in DOMAIN b,
             NEW bid \in DOMAIN new[t]["buy"], NEW ask \in DOMAIN new[t]["sell"]
      PROVE  bid < ask
  <2>1. CASE t # s
    BY <1>1, <1>2, <2>1 DEF Uncrossed, Side
  <2>2. CASE t = s /\ d = "buy"
    <3>1. ask \in DOMAIN b[s]["sell"] /\ bid \in DOMAIN b[s]["buy"] \cup {p}
      BY <1>1, <2>2 DEF Side
    <3> QED BY <2>2, <3>1 DEF Uncrossed, Opposite
  <2>3. CASE t = s /\ d = "sell"
    <3>1. bid \in DOMAIN b[s]["buy"] /\ ask \in DOMAIN b[s]["sell"] \cup {p}
      BY <1>1, <2>3 DEF Side
    <3> QED BY <2>3, <3>1 DEF Uncrossed, Opposite
  <2> QED BY <2>1, <2>2, <2>3 DEF Side
<1>3. Uncrossed(new)
  BY <1>1, <1>2 DEF Uncrossed
<1> QED BY <1>3 DEF new

\* The opposite of a side is a side.
LEMMA OppositeSide ==
    ASSUME NEW d \in Side
    PROVE  Opposite(d) \in Side
BY DEF Opposite, Side

\* Books below a sequence number are below every greater one.
LEMMA GoodBooksWeaken ==
    ASSUME NEW b, NEW n \in Nat, NEW m \in Nat, n <= m, GoodBooks(b, n)
    PROVE  GoodBooks(b, m)
BY GoodLevelsWeaken DEF GoodBooks

\* get_or_create_book
LEMMA BookOfGood ==
    ASSUME NEW n, GoodBooks(books, n), Uncrossed(books), NEW s \in Symbols
    PROVE  /\ IsBook(BookOf(s))
           /\ \A d \in Side : GoodLevels(BookOf(s)[d], d, n)
           /\ GoodBooks(Put(books, s, BookOf(s)), n)
           /\ Uncrossed(Put(books, s, BookOf(s)))
           /\ s \in DOMAIN Put(books, s, BookOf(s))
<1> DEFINE book == BookOf(s)
           new == Put(books, s, book)
<1>1. /\ IsBook(book)
      /\ \A d \in Side : GoodLevels(book[d], d, n)
      /\ \A bid \in DOMAIN book["buy"], ask \in DOMAIN book["sell"] : bid < ask
  <2>1. CASE s \in DOMAIN books
    BY <2>1 DEF BookOf, GoodBooks, Uncrossed
  <2>2. CASE s \notin DOMAIN books
    <3>1. book = [d \in Side |-> EmptyMap]
      BY <2>2 DEF BookOf
    <3>2. \A d \in Side : GoodLevels(EmptyMap, d, n)
      BY EmptyGood
    <3>3. DOMAIN EmptyMap = {}
      BY EmptyGood
    <3> HIDE DEF book
    <3>4. \A d \in Side : book[d] = EmptyMap
      BY <3>1
    <3>5. IsBook(book)
      BY <3>1, <3>2, <3>4 DEF IsBook, GoodLevels
    <3>6. "buy" \in Side /\ "sell" \in Side
      BY DEF Side
    <3> QED BY <3>2, <3>3, <3>4, <3>5, <3>6
  <2> QED BY <2>1, <2>2
<1> HIDE DEF book
<1>2. /\ DOMAIN new = DOMAIN books \cup {s}
      /\ new = [t \in DOMAIN new |-> new[t]]
      /\ \A t \in DOMAIN new : new[t] = IF t = s THEN book ELSE books[t]
  BY DEF Put
<1> HIDE DEF new
<1>3. IsMap(new, Symbols)
  BY <1>2 DEF GoodBooks, IsMap
<1>4. \A t \in DOMAIN new : IsBook(new[t])
  BY <1>1, <1>2 DEF GoodBooks
<1>5. \A t \in DOMAIN new : \A d \in Side : GoodLevels(new[t][d], d, n)
  BY <1>1, <1>2 DEF GoodBooks
<1>6. GoodBooks(new, n)
  BY <1>3, <1>4, <1>5 DEF GoodBooks
<1>7. Uncrossed(new)
  BY <1>1, <1>2 DEF Uncrossed
<1>8. s \in DOMAIN new
  BY <1>2
<1> QED BY <1>1, <1>6, <1>7, <1>8 DEF new, book

-----------------------------------------------------------------------------
(* Events.                                                                 *)

\* The events of commands that are accepted are well formed.
LEMMA AcceptedType ==
    ASSUME NEW type \in {"submit_accepted", "update_accepted",
                         "order_cancelled"},
           NEW key \in Keys
    PROVE  accepted(type, key) \in event
BY DEF accepted, event

\* The events of commands that are rejected are well formed.
LEMMA RejectedType ==
    ASSUME NEW type \in {"submit_rejected", "update_rejected",
                         "cancel_rejected"},
           NEW key \in Keys, NEW reason \in Reason
    PROVE  rejected(type, key, reason) \in event
BY DEF rejected, event

\* Trades are well formed.
LEMMA TradeType ==
    ASSUME NEW aggressor \in Keys, NEW resting \in Keys,
           NEW instrument \in Symbols, NEW p \in Price, NEW size \in Quantity
    PROVE  trade_executed(aggressor, resting, instrument, p, size) \in event
BY DEF trade_executed, event

\* append_book_update_if_changed (order_book.cpp:561) appends well-formed
\* events.
LEMMA BookUpdateType ==
    ASSUME NEW instrument \in Symbols, NEW d \in Side,
           NEW before, NEW after \in top_of_book_state
    PROVE  book_update_if_changed(instrument, d, before, after) \in Seq(event)
<1>1. book_updated(instrument, d, after) \in event
  BY DEF book_updated, event, top_of_book_state
<1> QED BY <1>1 DEF book_update_if_changed

-----------------------------------------------------------------------------
(* The inductive invariant.                                                *)

\* All resting orders have sequence numbers below this one: the number of the
\* command in progress, if there is one, is already handed out but not yet in
\* a book.
Bound == IF call = NoCall THEN next_sequence ELSE call.sequence

IInv ==
    /\ GoodBooks(books, Bound)
    /\ Uncrossed(books)
    /\ IsMap(active_orders, Keys)
    /\ \A key \in DOMAIN active_orders : active_orders[key] \in active_order
    /\ next_sequence \in Sequence
    /\ events \in Seq(event)
    /\ call \in Call \cup {NoCall}
    /\ call # NoCall => /\ call.instrument \in DOMAIN books
                        /\ next_sequence = call.sequence + 1

\* The inductive invariant implies the properties the runs check.
LEMMA IInvImplies ==
    IInv => TypeOK /\ LevelsOrdered /\ BookUncrossed
<1> SUFFICES ASSUME IInv PROVE TypeOK /\ LevelsOrdered /\ BookUncrossed
  OBVIOUS
<1>1. TypeOK
  BY DEF IInv, TypeOK, GoodBooks
<1>2. Bound \in Nat /\ next_sequence \in Nat /\ Bound <= next_sequence
  <2>1. CASE call = NoCall
    BY <2>1 DEF IInv, Bound, Sequence
  <2>2. CASE call # NoCall
    <3>1. call \in Call
      BY <2>2 DEF IInv
    <3>2. call.sequence \in Nat
      BY <3>1 DEF Call, Sequence
    <3> QED BY <2>2, <3>2 DEF IInv, Bound, Sequence
  <2> QED BY <2>1, <2>2
<1>3. GoodBooks(books, next_sequence)
  BY <1>2, GoodBooksWeaken DEF IInv
<1>4. LevelsOrdered
  BY <1>3 DEF LevelsOrdered, GoodBooks, GoodLevels
<1>5. BookUncrossed
  BY DEF IInv, Uncrossed, BookUncrossed
<1> QED BY <1>1, <1>4, <1>5

\* A new engine satisfies the invariant.
LEMMA InitIInv == Init => IInv
<1> SUFFICES ASSUME Init PROVE IInv
  OBVIOUS
<1>1. DOMAIN EmptyMap = {} /\ EmptyMap = [x \in DOMAIN EmptyMap |-> EmptyMap[x]]
  BY DEF EmptyMap
<1>2. IsMap(books, Symbols) /\ IsMap(active_orders, Keys)
  BY <1>1 DEF Init, IsMap
<1>3. DOMAIN books = {} /\ DOMAIN active_orders = {}
  BY <1>1 DEF Init
<1>4. GoodBooks(books, Bound) /\ Uncrossed(books)
  BY <1>2, <1>3 DEF GoodBooks, Uncrossed
<1>5. events \in Seq(event)
  BY DEF Init
<1>6. next_sequence \in Sequence
  BY DEF Init, Sequence
<1> QED BY <1>2, <1>3, <1>4, <1>5, <1>6 DEF IInv, Init

-----------------------------------------------------------------------------
(* The index of active orders.                                             *)

GoodIndex(a) ==
    IsMap(a, Keys) /\ \A key \in DOMAIN a : a[key] \in active_order

\* Erasing keys keeps the index well typed.
LEMMA IndexErase ==
    ASSUME NEW a, GoodIndex(a), NEW S
    PROVE  GoodIndex(Erase(a, S))
BY DEF GoodIndex, IsMap, Erase

\* Assigning an entry keeps the index well typed.
LEMMA IndexPut ==
    ASSUME NEW a, GoodIndex(a), NEW key \in Keys, NEW v \in active_order
    PROVE  GoodIndex(Put(a, key, v))
BY DEF GoodIndex, IsMap, Put

\* Emplacing an entry keeps the index well typed.
LEMMA IndexEmplace ==
    ASSUME NEW a, GoodIndex(a), NEW key \in Keys, NEW v \in active_order
    PROVE  GoodIndex(Emplace(a, key, v))
BY DEF GoodIndex, IsMap, Emplace

-----------------------------------------------------------------------------
(* Commands that are rejected.                                             *)

\* SubmitRejected keeps the invariant.
LEMMA SubmitRejectedIInv ==
    ASSUME IInv, NEW key \in Keys, NEW instrument \in Symbols,
           SubmitRejected(key, instrument)
    PROVE  IInv'
<1>1. submit_verdict(key, instrument) \in Reason
  BY DEF SubmitRejected, submit_verdict, Ok, Reason
<1>2. events' \in Seq(event)
  <2>1. rejected("submit_rejected", key, submit_verdict(key, instrument)) \in event
    BY <1>1, RejectedType
  <2>2. events' =
           <<rejected("submit_rejected", key, submit_verdict(key, instrument))>>
    BY DEF SubmitRejected
  <2> QED BY <2>1, <2>2
<1> QED BY <1>2 DEF SubmitRejected, IInv, Bound

\* CancelRejected keeps the invariant.
LEMMA CancelRejectedIInv ==
    ASSUME IInv, NEW key \in Keys, CancelRejected(key)
    PROVE  IInv'
<1>1. cancel_verdict(key) \in Reason
  BY DEF CancelRejected, cancel_verdict, Ok, Reason
<1>2. events' \in Seq(event)
  <2>1. rejected("cancel_rejected", key, cancel_verdict(key)) \in event
    BY <1>1, RejectedType
  <2>2. events' =
           <<rejected("cancel_rejected", key, cancel_verdict(key))>>
    BY DEF CancelRejected
  <2> QED BY <2>1, <2>2
<1>3. GoodIndex(active_orders)
  BY DEF IInv, GoodIndex
<1>4. GoodIndex(active_orders')
  BY <1>3, IndexErase DEF CancelRejected
<1> QED BY <1>2, <1>4 DEF CancelRejected, IInv, Bound, GoodIndex

\* UpdateRejected keeps the invariant.
LEMMA UpdateRejectedIInv ==
    ASSUME IInv, NEW key \in Keys, NEW pricing \in Pricing,
           UpdateRejected(key, pricing)
    PROVE  IInv'
<1>1. update_verdict(key, pricing) \in Reason
  BY DEF UpdateRejected, update_verdict, Ok, Reason
<1>2. events' \in Seq(event)
  <2>1. rejected("update_rejected", key, update_verdict(key, pricing)) \in event
    BY <1>1, RejectedType
  <2>2. events' =
           <<rejected("update_rejected", key, update_verdict(key, pricing))>>
    BY DEF UpdateRejected
  <2> QED BY <2>1, <2>2
<1>3. GoodIndex(active_orders)
  BY DEF IInv, GoodIndex
<1>4. GoodIndex(active_orders')
  BY <1>3, IndexErase DEF UpdateRejected
<1>5. /\ call = NoCall /\ call' = NoCall /\ books' = books
      /\ next_sequence' \in {next_sequence, next_sequence + 1}
  BY DEF UpdateRejected
<1>6. /\ next_sequence \in Nat /\ next_sequence' \in Nat
      /\ next_sequence' \in Sequence /\ next_sequence <= next_sequence'
  BY <1>5 DEF IInv, Sequence
<1>7. GoodBooks(books', Bound')
  <2>1. GoodBooks(books, next_sequence)
    BY <1>5 DEF IInv, Bound
  <2>2. GoodBooks(books, next_sequence')
    BY <1>6, <2>1, GoodBooksWeaken
  <2> QED BY <1>5, <2>2 DEF Bound
<1>8. Uncrossed(books')
  BY <1>5 DEF IInv
<1> QED BY <1>2, <1>4, <1>5, <1>6, <1>7, <1>8 DEF IInv, GoodIndex

-----------------------------------------------------------------------------
(* Commands that do not match.                                             *)

\* What an update or a cancel finds behind the entry of an active order.
LEMMA ActiveFacts ==
    ASSUME IInv, call = NoCall, NEW key \in DOMAIN active_orders,
           active_orders[key].instrument \in DOMAIN books
    PROVE  /\ active_orders[key] \in active_order
           /\ active_orders[key].instrument \in Symbols
           /\ active_orders[key].direction \in Side
           /\ next_sequence \in Nat
           /\ GoodBooks(books, next_sequence)
           /\ GoodLevels(LevelsOf(active_orders[key]),
                         active_orders[key].direction, next_sequence)
<1>1. active_orders[key] \in active_order
  BY DEF IInv
<1>2. /\ active_orders[key].instrument \in Symbols
      /\ active_orders[key].direction \in Side
  BY <1>1 DEF active_order
<1>3. next_sequence \in Nat /\ GoodBooks(books, next_sequence)
  BY DEF IInv, Bound, Sequence
<1> QED BY <1>1, <1>2, <1>3 DEF GoodBooks, LevelsOf

\* Cancel keeps the invariant.
LEMMA CancelIInv ==
    ASSUME IInv, NEW key \in Keys, Cancel(key)
    PROVE  IInv'
<1> DEFINE active == active_orders[key]
           before == LevelsOf(active)
           after == remove_order(before, active)
<1>1. /\ call = NoCall /\ call' = NoCall /\ next_sequence' = next_sequence
      /\ key \in DOMAIN active_orders
      /\ active.instrument \in DOMAIN books
  BY DEF Cancel, cancel_verdict, Ok
<1>2. /\ active.instrument \in Symbols /\ active.direction \in Side
      /\ next_sequence \in Nat /\ GoodBooks(books, next_sequence)
      /\ GoodLevels(before, active.direction, next_sequence)
  BY <1>1, ActiveFacts
<1>3. GoodIndex(active_orders)
  BY DEF IInv, GoodIndex
<1>4. CASE Holds(before, active, key)
  <2>1. /\ books' = Stored(books, active.instrument, active.direction, after)
        /\ events' = <<accepted("order_cancelled", key)>>
                     \o book_update_if_changed(
                           active.instrument, active.direction,
                           top_of_book(active.direction, before),
                           top_of_book(active.direction, after))
        /\ active_orders' = Erase(active_orders, {key})
    BY <1>4 DEF Cancel, Stored
  <2>2. /\ GoodLevels(after, active.direction, next_sequence)
        /\ DOMAIN after \subseteq DOMAIN before
    BY <1>2, <1>4, RemoveOrderGood
  <2>3. before = books[active.instrument][active.direction]
    BY DEF LevelsOf
  <2>4. top_of_book(active.direction, after) \in top_of_book_state
    BY <2>2, TopOfBookType
  <2> HIDE DEF active, before, after
  <2>5. GoodBooks(books', next_sequence)
    BY <1>1, <1>2, <2>1, <2>2, StoreSideGood
  <2>6. Uncrossed(books')
    BY <1>1, <1>2, <2>1, <2>2, <2>3, ShrinkUncrossed DEF IInv
  <2>7. events' \in Seq(event)
    <3>1. accepted("order_cancelled", key) \in event
      BY AcceptedType
    <3>2. book_update_if_changed(
             active.instrument, active.direction,
             top_of_book(active.direction, before),
             top_of_book(active.direction, after)) \in Seq(event)
      BY <1>2, <2>4, BookUpdateType
    <3> QED BY <2>1, <3>1, <3>2
  <2>8. GoodIndex(active_orders')
    BY <1>3, <2>1, IndexErase
  <2> QED BY <1>1, <2>5, <2>6, <2>7, <2>8 DEF IInv, Bound, GoodIndex
<1>5. CASE ~ Holds(before, active, key)
  <2>1. events' = <<>> /\ books' = books /\ active_orders' = active_orders
    BY <1>5 DEF Cancel
  <2> QED BY <1>1, <2>1 DEF IInv, Bound
<1> QED BY <1>4, <1>5

\* UpdateReduce keeps the invariant.
LEMMA UpdateReduceIInv ==
    ASSUME IInv, NEW key \in Keys, NEW pricing \in Price,
           NEW size \in Quantity, UpdateReduce(key, pricing, size)
    PROVE  IInv'
<1> DEFINE active == active_orders[key]
           before == LevelsOf(active)
           after == reduce_order_size(before, active, size)
<1>1. update_verdict(key, pricing) = Ok
  BY DEF UpdateReduce
<1>2. /\ key \in DOMAIN active_orders
      /\ active.instrument \in DOMAIN books
      /\ Holds(before, active, key)
  BY <1>1 DEF update_verdict, Ok
<1>3. /\ call = NoCall /\ call' = NoCall
      /\ next_sequence' = next_sequence + 1
      /\ active_orders' = active_orders
      /\ books' = Stored(books, active.instrument, active.direction, after)
      /\ events' = <<accepted("update_accepted", key)>>
                   \o book_update_if_changed(
                         active.instrument, active.direction,
                         top_of_book(active.direction, before),
                         top_of_book(active.direction, after))
  BY DEF UpdateReduce, Stored
<1>4. /\ active.instrument \in Symbols /\ active.direction \in Side
      /\ next_sequence \in Nat /\ GoodBooks(books, next_sequence)
      /\ GoodLevels(before, active.direction, next_sequence)
  BY <1>2, <1>3, ActiveFacts
<1>5. GoodLevels(after, active.direction, next_sequence)
  BY <1>2, <1>4, ReduceOrderGood
<1>6. DOMAIN after = DOMAIN before
  BY <1>2, <1>4, ReduceOrderGood
<1>7. before = books[active.instrument][active.direction]
  BY DEF LevelsOf
<1>8. top_of_book(active.direction, after) \in top_of_book_state
  BY <1>5, TopOfBookType
<1> HIDE DEF active, before, after
<1>9. GoodBooks(books', next_sequence)
  BY <1>2, <1>3, <1>4, <1>5, StoreSideGood
<1>10. GoodBooks(books', next_sequence')
  BY <1>3, <1>4, <1>9, GoodBooksWeaken
<1>11. Uncrossed(books')
  BY <1>2, <1>3, <1>4, <1>6, <1>7, ShrinkUncrossed DEF IInv
<1>12. events' \in Seq(event)
  <2>1. accepted("update_accepted", key) \in event
    BY AcceptedType
  <2>2. book_update_if_changed(
           active.instrument, active.direction,
           top_of_book(active.direction, before),
           top_of_book(active.direction, after)) \in Seq(event)
    BY <1>4, <1>8, BookUpdateType
  <2> QED BY <1>3, <2>1, <2>2
<1>13. next_sequence' \in Sequence
  BY <1>3, <1>4 DEF Sequence
<1> QED BY <1>3, <1>10, <1>11, <1>12, <1>13 DEF IInv, Bound

-----------------------------------------------------------------------------
(* Commands that match: their beginning.                                   *)

\* SubmitBegin keeps the invariant.
LEMMA SubmitBeginIInv ==
    ASSUME IInv, NEW key \in Keys, NEW instrument \in Symbols,
           NEW direction \in Side, NEW pricing \in Pricing,
           NEW size \in Quantity,
           SubmitBegin(key, instrument, direction, pricing, size)
    PROVE  IInv'
<1> DEFINE book == BookOf(instrument)
           opposite == Opposite(direction)
<1>1. /\ call = NoCall
      /\ books' = Put(books, instrument, book)
      /\ call' = [kind |-> "submit", key |-> key,
                  instrument |-> instrument, direction |-> direction,
                  pricing |-> pricing, size |-> size, open_size |-> size,
                  sequence |-> next_sequence, filled |-> {},
                  own_before |-> top_of_book(direction, book[direction]),
                  opposite_before |-> top_of_book(opposite, book[opposite])]
      /\ next_sequence' = next_sequence + 1
      /\ events' = <<accepted("submit_accepted", key)>>
      /\ active_orders' = active_orders
  BY DEF SubmitBegin
<1>2. /\ next_sequence \in Sequence
      /\ GoodBooks(books, next_sequence)
      /\ Uncrossed(books)
  BY <1>1 DEF IInv, Bound
<1>3. /\ \A d \in Side : GoodLevels(book[d], d, next_sequence)
      /\ GoodBooks(books', next_sequence)
      /\ Uncrossed(books')
      /\ instrument \in DOMAIN books'
  BY <1>1, <1>2, BookOfGood
<1>4. /\ top_of_book(direction, book[direction]) \in top_of_book_state
      /\ top_of_book(opposite, book[opposite]) \in top_of_book_state
  BY <1>3, OppositeSide, TopOfBookType
<1> HIDE DEF book, opposite
<1>5. call' \in Call
  <2>1. size \in Size
    BY SizeModulusAssumption DEF Size, Quantity
  <2> QED BY <1>1, <1>2, <1>4, <2>1 DEF Call
<1>6. /\ call'.instrument = instrument /\ call'.sequence = next_sequence
      /\ call'.kind = "submit"
  BY <1>1
<1>7. call' # NoCall
  BY <1>6 DEF NoCall
<1>8. events' \in Seq(event)
  <2>1. accepted("submit_accepted", key) \in event
    BY AcceptedType
  <2> QED BY <1>1, <2>1
<1>9. next_sequence' \in Sequence
  BY <1>1, <1>2 DEF Sequence
<1>10. Bound' = next_sequence
  BY <1>6, <1>7 DEF Bound
<1> QED
  BY <1>1, <1>3, <1>5, <1>6, <1>8, <1>9, <1>10 DEF IInv

\* ReplaceBegin keeps the invariant.
LEMMA ReplaceBeginIInv ==
    ASSUME IInv, NEW key \in Keys, NEW pricing \in Price,
           NEW size \in Quantity, ReplaceBegin(key, pricing, size)
    PROVE  IInv'
<1> DEFINE active == active_orders[key]
           own == LevelsOf(active)
           after == remove_order(own, active)
           opposite == Opposite(active.direction)
           own_top == top_of_book(active.direction, own)
           opposite_top == top_of_book(opposite,
                                       books[active.instrument][opposite])
<1>1. /\ update_verdict(key, pricing) = Ok
      /\ call = NoCall
      /\ books' = Stored(books, active.instrument, active.direction, after)
      /\ call' = [kind |-> "replace", key |-> key,
                  instrument |-> active.instrument,
                  direction |-> active.direction,
                  pricing |-> pricing, size |-> size, open_size |-> size,
                  sequence |-> next_sequence, filled |-> {},
                  own_before |-> own_top, opposite_before |-> opposite_top]
      /\ next_sequence' = next_sequence + 1
      /\ events' = <<accepted("update_accepted", key)>>
      /\ active_orders' = active_orders
  BY DEF ReplaceBegin, Stored
<1>2. /\ key \in DOMAIN active_orders
      /\ active.instrument \in DOMAIN books
      /\ Holds(own, active, key)
  BY <1>1 DEF update_verdict, Ok
<1>3. /\ active.instrument \in Symbols /\ active.direction \in Side
      /\ next_sequence \in Nat /\ GoodBooks(books, next_sequence)
      /\ GoodLevels(own, active.direction, next_sequence)
  BY <1>1, <1>2, ActiveFacts
<1>4. /\ GoodLevels(after, active.direction, next_sequence)
      /\ DOMAIN after \subseteq DOMAIN own
  BY <1>2, <1>3, RemoveOrderGood
<1>5. own_top \in top_of_book_state
  BY <1>3, TopOfBookType
<1>6. opposite_top \in top_of_book_state
  <2>1. opposite \in Side
    BY <1>3, OppositeSide
  <2>2. GoodLevels(books[active.instrument][opposite], opposite, next_sequence)
    BY <1>2, <1>3, <2>1 DEF GoodBooks
  <2> QED BY <2>2, TopOfBookType
<1>7. own = books[active.instrument][active.direction]
  BY DEF LevelsOf
<1> HIDE DEF active, own, after, opposite, own_top, opposite_top
<1>8. GoodBooks(books', next_sequence)
  BY <1>1, <1>2, <1>3, <1>4, StoreSideGood
<1>9. Uncrossed(books')
  BY <1>1, <1>2, <1>3, <1>4, <1>7, ShrinkUncrossed DEF IInv
<1>10. active.instrument \in DOMAIN books'
  BY <1>1, <1>2, <1>3, StoreSide
<1>11. next_sequence \in Sequence /\ next_sequence' \in Sequence
  BY <1>1, <1>3 DEF IInv, Sequence
<1>12. call' \in Call
  <2>1. size \in Size /\ pricing \in Pricing
    BY SizeModulusAssumption DEF Size, Quantity, Pricing
  <2> QED BY <1>1, <1>3, <1>5, <1>6, <1>11, <2>1 DEF Call
<1>13. /\ call'.instrument = active.instrument
       /\ call'.sequence = next_sequence
       /\ call'.kind = "replace"
  BY <1>1
<1>14. call' # NoCall
  BY <1>13 DEF NoCall
<1>15. events' \in Seq(event)
  <2>1. accepted("update_accepted", key) \in event
    BY AcceptedType
  <2> QED BY <1>1, <2>1
<1>16. Bound' = next_sequence
  BY <1>13, <1>14 DEF Bound
<1> QED
  BY <1>1, <1>8, <1>9, <1>10, <1>11, <1>12, <1>13, <1>15, <1>16 DEF IInv

-----------------------------------------------------------------------------
(* A trade.                                                                *)

\* The state a command in progress works on.
LEMMA CallFacts ==
    ASSUME IInv, call # NoCall
    PROVE  /\ call \in Call
           /\ call.key \in Keys /\ call.instrument \in Symbols
           /\ call.direction \in Side /\ Opposite(call.direction) \in Side
           /\ call.pricing \in Pricing /\ call.open_size \in Size
           /\ call.sequence \in Nat /\ call.sequence \in Sequence
           /\ next_sequence = call.sequence + 1
           /\ call.instrument \in DOMAIN books
           /\ Uncrossed(books)
           /\ GoodBooks(books, call.sequence)
           /\ GoodLevels(OwnLevels, call.direction, call.sequence)
           /\ GoodLevels(OppositeLevels, Opposite(call.direction),
                         call.sequence)
<1>1. call \in Call
  BY DEF IInv
<1>2. /\ call.key \in Keys /\ call.instrument \in Symbols
      /\ call.direction \in Side
      /\ call.pricing \in Pricing /\ call.open_size \in Size
      /\ call.sequence \in Nat /\ call.sequence \in Sequence
  BY <1>1 DEF Call, Sequence
<1>3. /\ next_sequence = call.sequence + 1
      /\ call.instrument \in DOMAIN books
      /\ Uncrossed(books)
      /\ GoodBooks(books, call.sequence)
  BY DEF IInv, Bound
<1>4. Opposite(call.direction) \in Side
  BY <1>2, OppositeSide
<1>5. /\ GoodLevels(OwnLevels, call.direction, call.sequence)
      /\ GoodLevels(OppositeLevels, Opposite(call.direction), call.sequence)
  BY <1>2, <1>3, <1>4 DEF GoodBooks, OwnLevels, OppositeLevels
<1> QED BY <1>1, <1>2, <1>3, <1>4, <1>5

\* MatchFront keeps the invariant.
LEMMA MatchFrontIInv ==
    ASSUME IInv, MatchFront
    PROVE  IInv'
<1> DEFINE opposite == Opposite(call.direction)
           p == begin(opposite, OppositeLevels)
           resting == Head(OppositeLevels[p].orders)
           executed == Min({call.open_size, resting.open_size})
           after == take_from_front(OppositeLevels, p, executed)
<1>1. /\ call # NoCall /\ call.open_size > 0 /\ DOMAIN OppositeLevels # {}
      /\ active_orders' = active_orders /\ next_sequence' = next_sequence
      /\ events' = Append(events,
            trade_executed(call.key, resting.key, call.instrument,
                           resting.limit_price, executed))
      /\ call' = [call EXCEPT
                     !.open_size = @ - executed,
                     !.filled = IF executed = resting.open_size
                                THEN @ \cup {resting.key} ELSE @]
      /\ books' = Stored(books, call.instrument, opposite, after)
  BY DEF MatchFront, match_against_level, CanMatch, Stored, OppositeLevels
<1>2. /\ call \in Call
      /\ call.key \in Keys /\ call.instrument \in Symbols
      /\ opposite \in Side /\ call.open_size \in Size
      /\ call.sequence \in Nat
      /\ next_sequence = call.sequence + 1
      /\ call.instrument \in DOMAIN books
      /\ Uncrossed(books)
      /\ GoodBooks(books, call.sequence)
      /\ GoodLevels(OppositeLevels, opposite, call.sequence)
  BY <1>1, CallFacts
<1>3. p \in DOMAIN OppositeLevels
  <2>1. DOMAIN OppositeLevels \subseteq Price
    BY <1>2 DEF GoodLevels, IsLevels, IsMap
  <2> QED BY <1>1, <2>1, BeginIsBest
<1>4. resting \in resting_order
  <2>1. /\ OppositeLevels[p].orders \in Seq(resting_order)
        /\ OppositeLevels[p].orders # <<>>
    BY <1>2, <1>3, LevelFacts
  <2> QED BY <2>1
<1>5. /\ resting.key \in Keys /\ resting.limit_price \in Price
      /\ resting.open_size \in Quantity
  BY <1>4 DEF resting_order
<1> HIDE DEF opposite, p, resting
<1>6. /\ executed \in Nat \ {0} /\ executed \in Quantity
      /\ executed <= resting.open_size /\ executed <= call.open_size
  <2>1. /\ call.open_size \in Nat \ {0} /\ call.open_size < SizeModulus
        /\ resting.open_size \in Nat \ {0} /\ resting.open_size < SizeModulus
    BY <1>1, <1>2, <1>5, SizeModulusAssumption DEF Size, Quantity
  <2>2. /\ executed \in {call.open_size, resting.open_size}
        /\ executed <= resting.open_size /\ executed <= call.open_size
    <3>1. \E x \in {call.open_size, resting.open_size} :
             \A y \in {call.open_size, resting.open_size} : x <= y
      BY <2>1
    <3> QED BY <3>1 DEF Min
  <2> QED BY <2>1, <2>2, SizeModulusAssumption DEF Quantity
<1>7. /\ GoodLevels(after, opposite, call.sequence)
      /\ DOMAIN after \subseteq DOMAIN OppositeLevels
  BY <1>2, <1>3, <1>6, TakeFromFrontGood DEF resting
<1>8. OppositeLevels = books[call.instrument][opposite]
  BY DEF OppositeLevels, opposite
<1> HIDE DEF executed, after
<1>9. GoodBooks(books', call.sequence)
  BY <1>1, <1>2, <1>7, StoreSideGood
<1>10. Uncrossed(books')
  BY <1>1, <1>2, <1>7, <1>8, ShrinkUncrossed
<1>11. call.instrument \in DOMAIN books'
  BY <1>1, <1>2, StoreSide
<1>12. call.open_size - executed \in Size
  BY <1>2, <1>6, SizeModulusAssumption DEF Size
<1>13. call' \in Call
  <2> DEFINE filled == IF executed = resting.open_size
                       THEN call.filled \cup {resting.key} ELSE call.filled
  <2>1. filled \in SUBSET Keys
    BY <1>2, <1>5 DEF Call
  <2>2. call' = [[call EXCEPT !.open_size = call.open_size - executed]
                    EXCEPT !.filled = filled]
    BY <1>1, <1>2 DEF Call
  <2> HIDE DEF filled
  <2> QED BY <1>2, <1>12, <2>1, <2>2 DEF Call
<1>14. /\ call'.instrument = call.instrument
       /\ call'.sequence = call.sequence
       /\ call'.kind = call.kind
  BY <1>1, <1>2 DEF Call
<1>15. call' # NoCall
  BY <1>2, <1>14 DEF Call, NoCall
<1>16. events' \in Seq(event)
  <2>1. trade_executed(call.key, resting.key, call.instrument,
                       resting.limit_price, executed) \in event
    BY <1>2, <1>5, <1>6, TradeType
  <2> QED BY <1>1, <2>1 DEF IInv
<1>17. Bound' = call.sequence
  BY <1>14, <1>15 DEF Bound
<1> QED
  BY <1>1, <1>2, <1>9, <1>10, <1>11, <1>13, <1>14, <1>16, <1>17 DEF IInv

-----------------------------------------------------------------------------
(* The end of a command that matched.                                      *)

\* When the matching loop has ended and something of a limit order is left,
\* no opposite price crosses its limit: the best one does not.
LEMMA NothingLeftToCross ==
    ASSUME IInv, call # NoCall, ~ CanMatch, Rests
    PROVE  \A q \in DOMAIN OppositeLevels :
              /\ call.direction = "buy" => call.pricing < q
              /\ call.direction = "sell" => q < call.pricing
<1> SUFFICES ASSUME NEW q \in DOMAIN OppositeLevels
             PROVE  /\ call.direction = "buy" => call.pricing < q
                    /\ call.direction = "sell" => q < call.pricing
  OBVIOUS
<1> DEFINE best == begin(Opposite(call.direction), OppositeLevels)
<1>1. /\ call.direction \in Side /\ call.pricing \in Pricing
      /\ GoodLevels(OppositeLevels, Opposite(call.direction), call.sequence)
  BY CallFacts
<1>2. DOMAIN OppositeLevels \subseteq Price
  BY <1>1 DEF GoodLevels, IsLevels, IsMap
<1>3. /\ best \in DOMAIN OppositeLevels
      /\ ~ Better(Opposite(call.direction), q, best)
  BY <1>2, BeginIsBest
<1>4. ~ can_cross(call.direction, call.pricing, best)
  BY DEF CanMatch, Rests
<1>5. call.pricing \in Nat /\ best \in Nat /\ q \in Nat
  BY <1>1, <1>2, <1>3, MaxPriceAssumption DEF Pricing, Price, Market
<1> HIDE DEF best
<1>6. CASE call.direction = "buy"
  <2>1. ~ (call.pricing >= best)
    BY <1>4, <1>6 DEF can_cross
  <2>2. ~ (q < best)
    BY <1>3, <1>6 DEF Better, Opposite
  <2> QED BY <1>5, <1>6, <2>1, <2>2
<1>7. CASE call.direction = "sell"
  <2>1. ~ (call.pricing <= best)
    BY <1>4, <1>7 DEF can_cross
  <2>2. ~ (q > best)
    BY <1>3, <1>7 DEF Better, Opposite
  <2> QED BY <1>5, <1>7, <2>1, <2>2
<1> QED BY <1>1, <1>6, <1>7 DEF Side

\* The books and the market data of FinishSubmit and FinishReplace.
LEMMA FinishBooks ==
    ASSUME IInv, call # NoCall, ~ CanMatch, StoreOwnLevels
    PROVE  /\ GoodBooks(books', next_sequence)
           /\ Uncrossed(books')
           /\ OwnUpdate \in Seq(event)
           /\ OppositeUpdate \in Seq(event)
<1> DEFINE order == [key |-> call.key, direction |-> call.direction,
                     limit_price |-> call.pricing,
                     open_size |-> call.open_size,
                     sequence |-> call.sequence]
           opposite == Opposite(call.direction)
<1>1. /\ call.key \in Keys /\ call.instrument \in Symbols
      /\ call.direction \in Side /\ opposite \in Side
      /\ call.pricing \in Pricing /\ call.open_size \in Size
      /\ call.sequence \in Nat /\ call.sequence \in Sequence
      /\ next_sequence = call.sequence + 1
      /\ call.instrument \in DOMAIN books
      /\ Uncrossed(books)
      /\ GoodBooks(books, call.sequence)
      /\ GoodLevels(OwnLevels, call.direction, call.sequence)
      /\ GoodLevels(OppositeLevels, opposite, call.sequence)
  BY CallFacts
<1>2. /\ next_sequence \in Nat /\ call.sequence <= next_sequence
      /\ call.sequence < next_sequence
  BY <1>1
<1>3. books' = Stored(books, call.instrument, call.direction, OwnLevelsAfter)
  BY DEF StoreOwnLevels, Stored
<1>4. OwnLevels = books[call.instrument][call.direction]
  BY DEF OwnLevels
<1>5. OppositeLevels = books[call.instrument][opposite]
  BY DEF OppositeLevels
<1>6. /\ GoodLevels(OwnLevelsAfter, call.direction, next_sequence)
      /\ Uncrossed(books')
  <2>1. CASE Rests
    <3>1. order \in resting_order
      <4>1. call.open_size \in Quantity /\ call.pricing \in Price
        BY <1>1, <2>1, SizeModulusAssumption
           DEF Rests, Size, Quantity, Pricing, Market
      <4> QED BY <1>1, <4>1 DEF resting_order
    <3>2. OwnLevelsAfter = rest_order(OwnLevels, order)
      BY <2>1 DEF OwnLevelsAfter
    <3>3. /\ order.direction = call.direction
          /\ order.limit_price = call.pricing
          /\ call.sequence <= order.sequence
          /\ order.sequence < next_sequence
      BY <1>1, <1>2
    <3> HIDE DEF order
    <3>4. GoodLevels(rest_order(OwnLevels, order), call.direction,
                     next_sequence)
      BY <1>1, <1>2, <3>1, <3>3, RestOrderGood
    <3>5. DOMAIN rest_order(OwnLevels, order) =
             DOMAIN OwnLevels \cup {order.limit_price}
      BY DEF rest_order, Put
    <3>6. DOMAIN OwnLevelsAfter =
             DOMAIN books[call.instrument][call.direction]
             \cup {call.pricing}
      BY <1>4, <3>2, <3>3, <3>5
    <3>7. \A q \in DOMAIN books[call.instrument][Opposite(call.direction)] :
             /\ call.direction = "buy" => call.pricing < q
             /\ call.direction = "sell" => q < call.pricing
      BY <1>5, <2>1, NothingLeftToCross
    <3>8. Uncrossed(Stored(books, call.instrument, call.direction,
                           OwnLevelsAfter))
      BY <1>1, <3>6, <3>7, RestUncrossed
    <3> QED BY <1>3, <3>2, <3>4, <3>8
  <2>2. CASE ~ Rests
    <3>1. OwnLevelsAfter = OwnLevels
      BY <2>2 DEF OwnLevelsAfter
    <3>2. GoodLevels(OwnLevelsAfter, call.direction, next_sequence)
      BY <1>1, <1>2, <3>1, GoodLevelsWeaken
    <3>3. DOMAIN OwnLevelsAfter \subseteq
             DOMAIN books[call.instrument][call.direction]
      BY <1>4, <3>1
    <3>4. Uncrossed(Stored(books, call.instrument, call.direction,
                           OwnLevelsAfter))
      BY <1>1, <3>3, ShrinkUncrossed
    <3> QED BY <1>3, <3>2, <3>4
  <2> QED BY <2>1, <2>2
<1>7. GoodBooks(books', next_sequence)
  BY <1>1, <1>2, <1>3, <1>6, StoreSideGood
<1>8. OwnUpdate \in Seq(event)
  <2>1. top_of_book(call.direction, OwnLevelsAfter) \in top_of_book_state
    BY <1>6, TopOfBookType
  <2> QED BY <1>1, <2>1, BookUpdateType DEF OwnUpdate
<1>9. OppositeUpdate \in Seq(event)
  <2>1. top_of_book(opposite, OppositeLevels) \in top_of_book_state
    BY <1>1, TopOfBookType
  <2> QED BY <1>1, <2>1, BookUpdateType DEF OppositeUpdate
<1> QED BY <1>6, <1>7, <1>8, <1>9

\* The entry of active_orders_ that the end of a command writes.
LEMMA HandleType ==
    ASSUME IInv, call # NoCall, Rests
    PROVE  call.key \in Keys /\ Handle \in active_order
<1>1. /\ call.key \in Keys /\ call.instrument \in Symbols
      /\ call.direction \in Side /\ call.pricing \in Pricing
      /\ call.sequence \in Sequence
  BY CallFacts
<1>2. call.pricing \in Price
  BY <1>1 DEF Rests, Pricing
<1> QED BY <1>1, <1>2 DEF Handle, active_order

\* FinishSubmit keeps the invariant.
LEMMA FinishSubmitIInv ==
    ASSUME IInv, FinishSubmit
    PROVE  IInv'
<1> DEFINE kept == Erase(active_orders, call.filled)
<1>1. /\ call # NoCall /\ ~ CanMatch /\ StoreOwnLevels
      /\ call' = NoCall /\ next_sequence' = next_sequence
      /\ events' = IF call.direction = "buy"
                   THEN events \o OwnUpdate \o OppositeUpdate
                   ELSE events \o OppositeUpdate \o OwnUpdate
      /\ active_orders' = IF Rests THEN Emplace(kept, call.key, Handle)
                          ELSE kept
  BY DEF FinishSubmit, record_submit_result, NoCall
<1>2. /\ GoodBooks(books', next_sequence) /\ Uncrossed(books')
      /\ OwnUpdate \in Seq(event) /\ OppositeUpdate \in Seq(event)
  BY <1>1, FinishBooks
<1>3. events' \in Seq(event)
  <2>1. events \in Seq(event)
    BY DEF IInv
  <2> QED BY <1>1, <1>2, <2>1
<1>4. GoodIndex(active_orders')
  <2>1. GoodIndex(active_orders)
    BY DEF IInv, GoodIndex
  <2>2. GoodIndex(kept)
    BY <2>1, IndexErase
  <2> HIDE DEF kept
  <2>3. CASE Rests
    BY <1>1, <2>2, <2>3, HandleType, IndexEmplace
  <2>4. CASE ~ Rests
    BY <1>1, <2>2, <2>4
  <2> QED BY <2>3, <2>4
<1>5. next_sequence \in Sequence
  BY DEF IInv
<1> QED BY <1>1, <1>2, <1>3, <1>4, <1>5 DEF IInv, Bound, GoodIndex

\* FinishReplace keeps the invariant.
LEMMA FinishReplaceIInv ==
    ASSUME IInv, FinishReplace
    PROVE  IInv'
<1> DEFINE kept == Erase(active_orders, call.filled)
<1>1. /\ call # NoCall /\ ~ CanMatch /\ StoreOwnLevels
      /\ call' = NoCall /\ next_sequence' = next_sequence
      /\ events' = events \o OwnUpdate \o OppositeUpdate
      /\ active_orders' = IF Rests THEN Put(kept, call.key, Handle)
                          ELSE Erase(kept, {call.key})
  BY DEF FinishReplace, record_update_result, NoCall
<1>2. /\ GoodBooks(books', next_sequence) /\ Uncrossed(books')
      /\ OwnUpdate \in Seq(event) /\ OppositeUpdate \in Seq(event)
  BY <1>1, FinishBooks
<1>3. events' \in Seq(event)
  <2>1. events \in Seq(event)
    BY DEF IInv
  <2> QED BY <1>1, <1>2, <2>1
<1>4. GoodIndex(active_orders')
  <2>1. GoodIndex(active_orders)
    BY DEF IInv, GoodIndex
  <2>2. GoodIndex(kept)
    BY <2>1, IndexErase
  <2> HIDE DEF kept
  <2>3. CASE Rests
    BY <1>1, <2>2, <2>3, HandleType, IndexPut
  <2>4. CASE ~ Rests
    BY <1>1, <2>2, <2>4, IndexErase
  <2> QED BY <2>3, <2>4
<1>5. next_sequence \in Sequence
  BY DEF IInv
<1> QED BY <1>1, <1>2, <1>3, <1>4, <1>5 DEF IInv, Bound, GoodIndex

-----------------------------------------------------------------------------
(* The theorems.                                                           *)

\* Every step of the engine keeps the invariant.
LEMMA NextIInv ==
    ASSUME IInv, [Next]_vars
    PROVE  IInv'
<1>1. CASE MatchFront
  BY <1>1, MatchFrontIInv
<1>2. CASE FinishSubmit
  BY <1>2, FinishSubmitIInv
<1>3. CASE FinishReplace
  BY <1>3, FinishReplaceIInv
<1>4. ASSUME NEW key \in Keys, CancelRejected(key) PROVE IInv'
  BY <1>4, CancelRejectedIInv
<1>5. ASSUME NEW key \in Keys, Cancel(key) PROVE IInv'
  BY <1>5, CancelIInv
<1>6. ASSUME NEW key \in Keys, NEW instrument \in Symbols,
             SubmitRejected(key, instrument)
      PROVE  IInv'
  BY <1>6, SubmitRejectedIInv
<1>7. ASSUME NEW key \in Keys, NEW instrument \in Symbols,
             NEW direction \in Side, NEW pricing \in Pricing,
             NEW size \in Quantity,
             SubmitBegin(key, instrument, direction, pricing, size)
      PROVE  IInv'
  BY <1>7, SubmitBeginIInv
<1>8. ASSUME NEW key \in Keys, NEW pricing \in Pricing,
             UpdateRejected(key, pricing)
      PROVE  IInv'
  BY <1>8, UpdateRejectedIInv
<1>9. ASSUME NEW key \in Keys, NEW pricing \in Price, NEW size \in Quantity,
             UpdateReduce(key, pricing, size)
      PROVE  IInv'
  BY <1>9, UpdateReduceIInv
<1>10. ASSUME NEW key \in Keys, NEW pricing \in Price, NEW size \in Quantity,
              ReplaceBegin(key, pricing, size)
       PROVE  IInv'
  BY <1>10, ReplaceBeginIInv
<1>11. CASE UNCHANGED vars
  BY <1>11 DEF vars, IInv, Bound
<1> QED
  BY <1>1, <1>2, <1>3, <1>4, <1>5, <1>6, <1>7, <1>8, <1>9, <1>10, <1>11
     DEF Next

\* The inductive invariant holds in every reachable state.
THEOREM Inductive == Spec => []IInv
BY InitIInv, NextIInv, PTL DEF Spec

\* The engine is well typed: no price or quantity becomes zero, no size
\* leaves its 64 bits, every handle and every event is well formed, for all
\* sequences of commands (engine.cpp, order_book.cpp).
THEOREM TypeCorrect == Spec => []TypeOK
BY Inductive, IInvImplies, PTL

\* No book is ever crossed or locked, not even between two trades of a
\* command: match_order (order_book.cpp:445) leaves no opposite price that
\* crosses the limit of the order that rests afterwards.
THEOREM NeverCrossed == Spec => []BookUncrossed
BY Inductive, IInvImplies, PTL

\* Every level holds at least one order and holds its orders in the order of
\* their sequence numbers (price-time priority), through fills, reductions,
\* replacements and cancels.
THEOREM TimePriority == Spec => []LevelsOrdered
BY Inductive, IInvImplies, PTL

-----------------------------------------------------------------------------
(* The index.  Here the proofs see a book as the set of orders it holds,   *)
(* each in its place: every operation of order_book removes, resizes or    *)
(* adds one order of that set.                                             *)

-----------------------------------------------------------------------------
(* The orders of a list.                                                   *)

\* A list in time priority has no two orders with the same number: a number
\* stands for a list node.
LEMMA SequencesDiffer ==
    ASSUME NEW orders \in Seq(resting_order), NEW direction, NEW p, NEW n,
           OrderedList(orders, direction, p, n),
           NEW i \in DOMAIN orders, NEW j \in DOMAIN orders,
           orders[i].sequence = orders[j].sequence
    PROVE  i = j
<1>1. i \in Int /\ j \in Int
  OBVIOUS
<1>2. orders[i].sequence \in Nat
  <2>1. orders[i] \in resting_order
    BY ElementOfSeq
  <2> QED BY <2>1 DEF resting_order, Sequence
<1> QED BY <1>1, <1>2 DEF OrderedList

\* The orders of a list without those of one number.
Without(orders, sequence) ==
    {o \in ToSet(orders) : o.sequence # sequence}

\* list::erase takes one order out.
LEMMA RemoveAtSet ==
    ASSUME NEW orders \in Seq(resting_order), NEW direction, NEW p, NEW n,
           OrderedList(orders, direction, p, n), NEW i \in 1 .. Len(orders)
    PROVE  ToSet(RemoveAt(orders, i)) = Without(orders, orders[i].sequence)
<1> DEFINE new == RemoveAt(orders, i)
<1>1. /\ new \in Seq(resting_order) /\ Len(new) = Len(orders) - 1
      /\ \A j \in 1 .. Len(orders) - 1 :
            new[j] = IF j < i THEN orders[j] ELSE orders[j + 1]
  BY RemoveAtElements
<1> HIDE DEF new
<1>2. /\ DOMAIN new = 1 .. Len(orders) - 1 /\ DOMAIN orders = 1 .. Len(orders)
      /\ Len(orders) \in Nat
  BY <1>1
<1>3. ASSUME NEW j \in DOMAIN new
      PROVE  new[j] \in Without(orders, orders[i].sequence)
  <2>1. PICK k \in DOMAIN orders : k # i /\ new[j] = orders[k]
    <3>1. CASE j < i
      BY <1>1, <1>2, <3>1
    <3>2. CASE ~ (j < i)
      <4>1. j + 1 \in DOMAIN orders /\ j + 1 # i /\ new[j] = orders[j + 1]
        BY <1>1, <1>2, <3>2
      <4> QED BY <4>1
    <3> QED BY <3>1, <3>2
  <2>2. orders[k].sequence # orders[i].sequence
    BY <1>2, <2>1, SequencesDiffer
  <2> QED BY <2>1, <2>2 DEF Without, ToSet
<1>4. ASSUME NEW k \in DOMAIN orders,
             orders[k].sequence # orders[i].sequence
      PROVE  orders[k] \in ToSet(new)
  <2>1. k # i
    BY <1>4
  <2>2. \E j \in DOMAIN new : new[j] = orders[k]
    <3>1. CASE k < i
      BY <1>1, <1>2, <3>1
    <3>2. CASE ~ (k < i)
      <4>1. k - 1 \in DOMAIN new /\ new[k - 1] = orders[k]
        BY <1>1, <1>2, <2>1, <3>2
      <4> QED BY <4>1
    <3> QED BY <3>1, <3>2
  <2> QED BY <2>2 DEF ToSet
<1>5. ToSet(new) \subseteq Without(orders, orders[i].sequence)
  BY <1>3 DEF ToSet
<1>6. Without(orders, orders[i].sequence) \subseteq ToSet(new)
  BY <1>4 DEF Without, ToSet
<1> QED BY <1>5, <1>6 DEF new

\* pop_front takes the front order out.
LEMMA TailSet ==
    ASSUME NEW orders \in Seq(resting_order), NEW direction, NEW p, NEW n,
           OrderedList(orders, direction, p, n), orders # <<>>
    PROVE  ToSet(Tail(orders)) = Without(orders, orders[1].sequence)
<1> DEFINE new == Tail(orders)
<1>1. /\ new \in Seq(resting_order) /\ Len(new) = Len(orders) - 1
      /\ \A j \in 1 .. Len(new) : new[j] = orders[j + 1]
  BY HeadTailProperties
<1>2. /\ DOMAIN new = 1 .. Len(orders) - 1 /\ DOMAIN orders = 1 .. Len(orders)
      /\ Len(orders) \in Nat \ {0} /\ 1 \in DOMAIN orders
  BY <1>1, EmptySeq
<1> HIDE DEF new
<1>3. ASSUME NEW j \in DOMAIN new
      PROVE  new[j] \in Without(orders, orders[1].sequence)
  <2>1. j + 1 \in DOMAIN orders /\ j + 1 # 1 /\ new[j] = orders[j + 1]
    BY <1>1, <1>2
  <2>2. orders[j + 1].sequence # orders[1].sequence
    BY <1>2, <2>1, SequencesDiffer
  <2> QED BY <2>1, <2>2 DEF Without, ToSet
<1>4. ASSUME NEW k \in DOMAIN orders,
             orders[k].sequence # orders[1].sequence
      PROVE  orders[k] \in ToSet(new)
  <2>1. k # 1
    BY <1>4
  <2>2. k - 1 \in DOMAIN new /\ new[k - 1] = orders[k]
    BY <1>1, <1>2, <2>1
  <2> QED BY <2>2 DEF ToSet
<1>5. ToSet(new) \subseteq Without(orders, orders[1].sequence)
  BY <1>3 DEF ToSet
<1>6. Without(orders, orders[1].sequence) \subseteq ToSet(new)
  BY <1>4 DEF Without, ToSet
<1> QED BY <1>5, <1>6 DEF new

\* Assigning to a list node replaces one order by another.
LEMMA ReplaceSet ==
    ASSUME NEW orders \in Seq(resting_order), NEW direction, NEW p, NEW n,
           OrderedList(orders, direction, p, n),
           NEW i \in 1 .. Len(orders), NEW new,
           DOMAIN new = DOMAIN orders,
           \A j \in DOMAIN orders : j # i => new[j] = orders[j]
    PROVE  ToSet(new) = Without(orders, orders[i].sequence) \cup {new[i]}
<1> DEFINE e == new[i]
<1>1. DOMAIN orders = 1 .. Len(orders) /\ i \in DOMAIN orders
  OBVIOUS
<1>2. /\ DOMAIN new = DOMAIN orders
      /\ \A j \in DOMAIN orders : new[j] = IF j = i THEN e ELSE orders[j]
  OBVIOUS
<1>3. \A j \in DOMAIN orders :
         j # i => orders[j].sequence # orders[i].sequence
  BY <1>1, SequencesDiffer
<1>4. ASSUME NEW j \in DOMAIN new
      PROVE  new[j] \in Without(orders, orders[i].sequence) \cup {e}
  BY <1>2, <1>3 DEF Without, ToSet
<1>5. ASSUME NEW k \in DOMAIN orders,
             orders[k].sequence # orders[i].sequence
      PROVE  orders[k] \in ToSet(new)
  BY <1>2, <1>5 DEF ToSet
<1>6. e \in ToSet(new)
  BY <1>1, <1>2 DEF ToSet
<1>7. ToSet(new) \subseteq Without(orders, orders[i].sequence) \cup {e}
  BY <1>4 DEF ToSet
<1>8. Without(orders, orders[i].sequence) \subseteq ToSet(new)
  BY <1>5 DEF Without, ToSet
<1> QED BY <1>6, <1>7, <1>8

\* push_back adds one order.
LEMMA AppendSet ==
    ASSUME NEW S, NEW s \in Seq(S), NEW e \in S
    PROVE  ToSet(Append(s, e)) = ToSet(s) \cup {e}
<1> DEFINE new == Append(s, e)
<1>1. /\ new \in Seq(S) /\ Len(new) = Len(s) + 1 /\ Len(s) \in Nat
      /\ \A i \in 1 .. Len(s) : new[i] = s[i]
      /\ new[Len(s) + 1] = e
  BY AppendProperties
<1>2. DOMAIN new = 1 .. Len(s) + 1 /\ DOMAIN s = 1 .. Len(s)
  BY <1>1
<1> HIDE DEF new
<1>3. ToSet(new) = ToSet(s) \cup {e}
  <2>1. ASSUME NEW i \in DOMAIN new PROVE new[i] \in ToSet(s) \cup {e}
    <3>1. i \in DOMAIN s \/ i = Len(s) + 1
      BY <1>1, <1>2
    <3> QED BY <1>1, <1>2, <3>1 DEF ToSet
  <2>2. ASSUME NEW i \in DOMAIN s PROVE s[i] \in ToSet(new)
    <3>1. i \in DOMAIN new /\ new[i] = s[i]
      BY <1>1, <1>2
    <3> QED BY <3>1 DEF ToSet
  <2>3. e \in ToSet(new)
    <3>1. Len(s) + 1 \in DOMAIN new
      BY <1>1, <1>2
    <3> QED BY <1>1, <3>1 DEF ToSet
  <2>4. ToSet(new) \subseteq ToSet(s) \cup {e}
    BY <2>1 DEF ToSet
  <2>5. ToSet(s) \subseteq ToSet(new)
    BY <2>2 DEF ToSet
  <2> QED BY <2>3, <2>4, <2>5
<1> QED BY <1>3 DEF new

-----------------------------------------------------------------------------
(* The orders of a side.                                                   *)

\* Order o rests in the level of price p.
In(levels, p, o) == p \in DOMAIN levels /\ o \in ToSet(levels[p].orders)

\* Storing a level replaces the orders of its price; an empty level that is
\* erased held none.
LEMMA StoreIn ==
    ASSUME NEW levels, NEW p, NEW level, NEW q, NEW o
    PROVE  In(StoreLevel(levels, p, level), q, o) <=>
              IF q = p THEN o \in ToSet(level.orders) ELSE In(levels, q, o)
<1>1. CASE level.orders = <<>>
  <2>1. ToSet(level.orders) = {}
    BY <1>1 DEF ToSet
  <2> QED BY <1>1, <2>1 DEF StoreLevel, Erase, In
<1>2. CASE level.orders # <<>>
  BY <1>2 DEF StoreLevel, Put, In
<1> QED BY <1>1, <1>2

\* So does assigning it.
LEMMA PutIn ==
    ASSUME NEW levels, NEW p, NEW level, NEW q, NEW o
    PROVE  In(Put(levels, p, level), q, o) <=>
              IF q = p THEN o \in ToSet(level.orders) ELSE In(levels, q, o)
BY DEF Put, In

\* All but the node at price p with this number.
InBut(levels, p, sequence, q, o) ==
    In(levels, q, o) /\ ~ (q = p /\ o.sequence = sequence)

\* The order behind a handle.
Behind(levels, handle) ==
    levels[handle.limit_price].orders[
        PositionOf(levels[handle.limit_price].orders, handle.node)]

\* A handle that is held leads to an order of its key and node.
LEMMA BehindFacts ==
    ASSUME NEW levels, NEW direction, NEW n, GoodLevels(levels, direction, n),
           NEW handle, NEW key, Holds(levels, handle, key)
    PROVE  /\ In(levels, handle.limit_price, Behind(levels, handle))
           /\ Behind(levels, handle).sequence = handle.node
           /\ Behind(levels, handle).key = key
           /\ Behind(levels, handle) \in resting_order
<1> DEFINE orders == levels[handle.limit_price].orders
           i == PositionOf(orders, handle.node)
<1>1. /\ handle.limit_price \in DOMAIN levels
      /\ i \in 1 .. Len(orders) /\ orders[i] \in resting_order
      /\ orders[i].sequence = handle.node
  BY PositionFacts
<1>2. /\ orders \in Seq(resting_order)
      /\ OrderedList(orders, direction, handle.limit_price, n)
  BY <1>1, LevelFacts
<1>3. PICK j \in DOMAIN orders :
         orders[j].sequence = handle.node /\ orders[j].key = key
  BY DEF Holds
<1> HIDE DEF i
<1>4. i \in DOMAIN orders /\ i = j
  BY <1>1, <1>2, <1>3, SequencesDiffer
<1> QED BY <1>1, <1>3, <1>4 DEF Behind, In, ToSet, i

\* remove_order (order_book.cpp:345) takes out the order behind the handle and
\* no other.
LEMMA RemoveOrderIn ==
    ASSUME NEW levels, NEW direction, NEW n, GoodLevels(levels, direction, n),
           NEW handle, NEW key, Holds(levels, handle, key), NEW q, NEW o
    PROVE  In(remove_order(levels, handle), q, o) <=>
              InBut(levels, handle.limit_price, handle.node, q, o)
<1> DEFINE p == handle.limit_price
           orders == levels[p].orders
           i == PositionOf(orders, handle.node)
           level == [total_size |-> Minus(levels[p].total_size,
                                          orders[i].open_size),
                     orders     |-> RemoveAt(orders, i)]
<1>1. /\ p \in DOMAIN levels /\ i \in 1 .. Len(orders)
      /\ orders[i].sequence = handle.node
  BY PositionFacts
<1>2. orders \in Seq(resting_order) /\ OrderedList(orders, direction, p, n)
  BY <1>1, LevelFacts
<1>3. remove_order(levels, handle) = StoreLevel(levels, p, level)
  BY DEF remove_order
<1> HIDE DEF i
<1>4. ToSet(level.orders) = Without(orders, handle.node)
  BY <1>1, <1>2, RemoveAtSet
<1> HIDE DEF level
<1>5. In(StoreLevel(levels, p, level), q, o) <=>
         IF q = p THEN o \in ToSet(level.orders) ELSE In(levels, q, o)
  BY StoreIn
<1> QED BY <1>1, <1>3, <1>4, <1>5 DEF In, InBut, Without

\* reduce_order_size (order_book.cpp:311) resizes the order behind the handle
\* and touches no other.
LEMMA ReduceOrderIn ==
    ASSUME NEW levels, NEW direction, NEW n, GoodLevels(levels, direction, n),
           NEW handle, NEW key, Holds(levels, handle, key), NEW size,
           NEW q, NEW o
    PROVE  In(reduce_order_size(levels, handle, size), q, o) <=>
              \/ InBut(levels, handle.limit_price, handle.node, q, o)
              \/ /\ q = handle.limit_price
                 /\ o = [Behind(levels, handle) EXCEPT !.open_size = size]
<1> DEFINE p == handle.limit_price
           orders == levels[p].orders
           i == PositionOf(orders, handle.node)
           new == [orders EXCEPT ![i].open_size = size]
           level == [total_size |-> Minus(levels[p].total_size,
                                          orders[i].open_size - size),
                     orders     |-> new]
<1>1. /\ p \in DOMAIN levels /\ i \in 1 .. Len(orders)
      /\ orders[i].sequence = handle.node
      /\ orders[i] = Behind(levels, handle)
  BY PositionFacts DEF Behind
<1>2. orders \in Seq(resting_order) /\ OrderedList(orders, direction, p, n)
  BY <1>1, LevelFacts
<1>3. reduce_order_size(levels, handle, size) = Put(levels, p, level)
  BY DEF reduce_order_size
<1> HIDE DEF i
<1>4. ToSet(new) = Without(orders, handle.node)
                   \cup {[Behind(levels, handle) EXCEPT !.open_size = size]}
  <2> DEFINE e == [Behind(levels, handle) EXCEPT !.open_size = size]
  <2>1. /\ DOMAIN new = DOMAIN orders /\ new[i] = e
        /\ \A j \in DOMAIN orders : j # i => new[j] = orders[j]
    BY <1>1, <1>2
  <2> HIDE DEF e, new, orders
  <2>2. ToSet(new) = Without(orders, handle.node) \cup {e}
    BY <1>1, <1>2, <2>1, ReplaceSet
  <2> QED BY <2>2 DEF e
<1>5. level.orders = new
  OBVIOUS
<1> HIDE DEF level, new
<1>6. In(Put(levels, p, level), q, o) <=>
         IF q = p THEN o \in ToSet(level.orders) ELSE In(levels, q, o)
  BY PutIn
<1> QED BY <1>1, <1>3, <1>4, <1>5, <1>6 DEF In, InBut, Without

\* An iteration of match_against_level (order_book.cpp:462) takes out the front
\* order or makes it smaller, and touches no other.
LEMMA TakeFromFrontIn ==
    ASSUME NEW levels, NEW direction, NEW n, GoodLevels(levels, direction, n),
           NEW p \in DOMAIN levels, NEW executed, NEW q, NEW o
    PROVE  LET resting == Head(levels[p].orders)
           IN  /\ In(levels, p, resting) /\ resting \in resting_order
               /\ In(take_from_front(levels, p, executed), q, o) <=>
                     \/ InBut(levels, p, resting.sequence, q, o)
                     \/ /\ executed # resting.open_size
                        /\ q = p
                        /\ o = [resting EXCEPT !.open_size = @ - executed]
<1> DEFINE orders == levels[p].orders
           resting == Head(orders)
           new == IF executed = resting.open_size THEN Tail(orders)
                  ELSE [orders EXCEPT ![1].open_size = @ - executed]
           level == [total_size |-> Minus(levels[p].total_size, executed),
                     orders |-> new]
           small == [resting EXCEPT !.open_size = @ - executed]
<1>1. /\ orders \in Seq(resting_order) /\ orders # <<>>
      /\ OrderedList(orders, direction, p, n)
  BY LevelFacts
<1>2. /\ 1 \in 1 .. Len(orders) /\ 1 \in DOMAIN orders /\ resting = orders[1]
      /\ orders[1] \in resting_order
  BY <1>1, ElementOfSeq
<1>3. take_from_front(levels, p, executed) = StoreLevel(levels, p, level)
  BY DEF take_from_front
<1>4. ToSet(new) = Without(orders, resting.sequence)
                   \cup (IF executed = resting.open_size THEN {} ELSE {small})
  <2>1. CASE executed = resting.open_size
    BY <1>1, <1>2, <2>1, TailSet
  <2>2. CASE executed # resting.open_size
    <3>1. /\ DOMAIN new = DOMAIN orders /\ new[1] = small
          /\ \A j \in DOMAIN orders : j # 1 => new[j] = orders[j]
      BY <1>2, <2>2 DEF resting_order
    <3> HIDE DEF new, small, orders
    <3> QED BY <1>1, <1>2, <2>2, <3>1, ReplaceSet
  <2> QED BY <2>1, <2>2
<1>5. level.orders = new
  OBVIOUS
<1>6. In(levels, p, resting) /\ resting \in resting_order
  BY <1>2 DEF In, ToSet
<1> HIDE DEF level, new, small
<1>7. In(StoreLevel(levels, p, level), q, o) <=>
         IF q = p THEN o \in ToSet(level.orders) ELSE In(levels, q, o)
  BY StoreIn
<1>8. In(take_from_front(levels, p, executed), q, o) <=>
         \/ InBut(levels, p, resting.sequence, q, o)
         \/ executed # resting.open_size /\ q = p /\ o = small
  BY <1>3, <1>4, <1>5, <1>7 DEF In, InBut, Without
<1> QED BY <1>6, <1>8 DEF small

\* rest_order (order_book.cpp:496) adds the order and touches no other.
LEMMA RestOrderIn ==
    ASSUME NEW levels, NEW direction, NEW n, GoodLevels(levels, direction, n),
           NEW order \in resting_order, NEW q, NEW o
    PROVE  In(rest_order(levels, order), q, o) <=>
              In(levels, q, o) \/ (q = order.limit_price /\ o = order)
<1> DEFINE p == order.limit_price
           old == IF p \in DOMAIN levels THEN levels[p]
                  ELSE [total_size |-> 0, orders |-> <<>>]
           level == [total_size |-> Plus(old.total_size, order.open_size),
                     orders |-> Append(old.orders, order)]
<1>1. /\ old.orders \in Seq(resting_order)
      /\ o \in ToSet(old.orders) <=> In(levels, p, o)
  <2>1. CASE p \in DOMAIN levels
    BY <2>1, LevelFacts DEF In
  <2>2. CASE p \notin DOMAIN levels
    BY <2>2 DEF In, ToSet
  <2> QED BY <2>1, <2>2
<1>2. rest_order(levels, order) = Put(levels, p, level)
  BY DEF rest_order
<1> HIDE DEF old
<1>3. level.orders = Append(old.orders, order)
  OBVIOUS
<1>4. ToSet(level.orders) = ToSet(old.orders) \cup {order}
  BY <1>1, <1>3, AppendSet
<1> HIDE DEF level
<1>5. In(Put(levels, p, level), q, o) <=>
         IF q = p THEN o \in ToSet(level.orders) ELSE In(levels, q, o)
  BY PutIn
<1> QED BY <1>1, <1>2, <1>4, <1>5

-----------------------------------------------------------------------------
(* The orders of all books, and what a step does to them.                  *)

\* Order o rests in book s, on side d, at price p.
At(b, s, d, p, o) == s \in DOMAIN b /\ d \in Side /\ In(b[s][d], p, o)

\* No two resting orders have the same number.
UniqueNodes(b) ==
    \A s, d, p, o, t, e, q, z :
        At(b, s, d, p, o) /\ At(b, t, e, q, z) /\ o.sequence = z.sequence =>
            s = t /\ d = e /\ p = q /\ o = z

\* The index a and the books b agree, up to the keys u whose entries are not
\* settled yet.
Agree(b, a, u) ==
    /\ \A s, d, p, o :
          At(b, s, d, p, o) =>
              /\ o.key \in DOMAIN a /\ o.key \notin u
              /\ a[o.key] = [instrument |-> s, direction |-> d,
                             limit_price |-> p, node |-> o.sequence]
    /\ \A key \in DOMAIN a \ u :
          \E o : /\ At(b, a[key].instrument, a[key].direction,
                       a[key].limit_price, o)
                 /\ o.sequence = a[key].node /\ o.key = key

\* An order that keeps its number keeps its place, its key and at most its
\* size.
Keeps(b, c) ==
    \A s, d, p, o, t, e, q, z :
        At(b, s, d, p, o) /\ At(c, t, e, q, z) /\ o.sequence = z.sequence =>
            /\ t = s /\ e = d /\ q = p
            /\ z.key = o.key /\ z.open_size <= o.open_size

\* From books b to books c: nothing changes, the order with r's number goes,
\* z takes its place, or r is added.
Same(b, c) ==
    \A t, e, q, o : At(c, t, e, q, o) <=> At(b, t, e, q, o)
Removed(b, c, r) ==
    \A t, e, q, o :
        At(c, t, e, q, o) <=>
            At(b, t, e, q, o) /\ o.sequence # r.sequence
Resized(b, c, s, d, p, r, z) ==
    \A t, e, q, o :
        At(c, t, e, q, o) <=>
            \/ At(b, t, e, q, o) /\ o.sequence # r.sequence
            \/ t = s /\ e = d /\ q = p /\ o = z
Added(b, c, s, d, p, r) ==
    \A t, e, q, o :
        At(c, t, e, q, o) <=>
            At(b, t, e, q, o) \/ (t = s /\ e = d /\ q = p /\ o = r)

\* Orders at rest are well typed, below the bound, and lie in the level of
\* their price.
LEMMA AtFacts ==
    ASSUME NEW b, NEW n, GoodBooks(b, n),
           NEW s, NEW d, NEW p, NEW o, At(b, s, d, p, o)
    PROVE  /\ o \in resting_order /\ o.sequence \in Nat
           /\ o.open_size \in Int /\ o.sequence < n
           /\ o.limit_price = p /\ o.direction = d
<1>1. GoodLevels(b[s][d], d, n) /\ p \in DOMAIN b[s][d]
  BY DEF At, In, GoodBooks
<1> DEFINE orders == b[s][d][p].orders
<1>2. orders \in Seq(resting_order) /\ OrderedList(orders, d, p, n)
  BY <1>1, LevelFacts
<1>3. PICK i \in DOMAIN orders : orders[i] = o
  BY DEF At, In, ToSet
<1> HIDE DEF orders
<1>4. o \in resting_order
  BY <1>2, <1>3, ElementOfSeq
<1>5. o.sequence < n /\ o.limit_price = p /\ o.direction = d
  BY <1>2, <1>3 DEF OrderedList
<1> QED BY <1>4, <1>5, SizeModulusAssumption
        DEF resting_order, Sequence, Quantity

\* books[s][d] = x exchanges the orders of one side.
LEMMA StoredAt ==
    ASSUME NEW b, NEW n, GoodBooks(b, n), NEW s \in DOMAIN b, NEW d \in Side,
           NEW x, NEW t, NEW e, NEW q, NEW o
    PROVE  At(Stored(b, s, d, x), t, e, q, o) <=>
              IF t = s /\ e = d THEN In(x, q, o) ELSE At(b, t, e, q, o)
<1> DEFINE new == Stored(b, s, d, x)
<1>1. /\ DOMAIN new = DOMAIN b
      /\ IsMap(new, Symbols)
      /\ \A u \in DOMAIN b :
            /\ DOMAIN new[u] = Side
            /\ new[u] = [f \in Side |-> new[u][f]]
            /\ \A f \in Side :
                  new[u][f] = IF u = s /\ f = d THEN x ELSE b[u][f]
  BY StoreSide
<1> HIDE DEF new
<1>2. At(new, t, e, q, o) <=>
         IF t = s /\ e = d THEN In(x, q, o) ELSE At(b, t, e, q, o)
  BY <1>1 DEF At
<1> QED BY <1>2 DEF new

\* Taking an order out of one side takes it out of the books.
LEMMA StoredRemoved ==
    ASSUME NEW b, NEW n, GoodBooks(b, n), UniqueNodes(b),
           NEW s \in DOMAIN b, NEW d \in Side, NEW x, NEW p, NEW r,
           At(b, s, d, p, r),
           \A q, o : In(x, q, o) <=> InBut(b[s][d], p, r.sequence, q, o)
    PROVE  Removed(b, Stored(b, s, d, x), r)
<1> SUFFICES ASSUME NEW t, NEW e, NEW q, NEW o
             PROVE  At(Stored(b, s, d, x), t, e, q, o) <=>
                       At(b, t, e, q, o) /\ o.sequence # r.sequence
  BY DEF Removed
<1>1. At(Stored(b, s, d, x), t, e, q, o) <=>
         IF t = s /\ e = d THEN In(x, q, o) ELSE At(b, t, e, q, o)
  BY StoredAt
<1>2. At(b, t, e, q, o) /\ o.sequence = r.sequence =>
         t = s /\ e = d /\ q = p
  BY DEF UniqueNodes
<1>3. CASE t = s /\ e = d
  <2>1. At(b, s, d, q, o) <=> In(b[s][d], q, o)
    BY DEF At
  <2> QED BY <1>1, <1>2, <1>3, <2>1 DEF InBut
<1>4. CASE ~ (t = s /\ e = d)
  BY <1>1, <1>2, <1>4
<1> QED BY <1>3, <1>4

\* Resizing an order of one side resizes it in the books.
LEMMA StoredResized ==
    ASSUME NEW b, NEW n, GoodBooks(b, n), UniqueNodes(b),
           NEW s \in DOMAIN b, NEW d \in Side, NEW x, NEW p, NEW r, NEW z,
           At(b, s, d, p, r),
           \A q, o : In(x, q, o) <=>
              InBut(b[s][d], p, r.sequence, q, o) \/ (q = p /\ o = z)
    PROVE  Resized(b, Stored(b, s, d, x), s, d, p, r, z)
<1> SUFFICES ASSUME NEW t, NEW e, NEW q, NEW o
             PROVE  At(Stored(b, s, d, x), t, e, q, o) <=>
                       \/ At(b, t, e, q, o) /\ o.sequence # r.sequence
                       \/ t = s /\ e = d /\ q = p /\ o = z
  BY DEF Resized
<1>1. At(Stored(b, s, d, x), t, e, q, o) <=>
         IF t = s /\ e = d THEN In(x, q, o) ELSE At(b, t, e, q, o)
  BY StoredAt
<1>2. At(b, t, e, q, o) /\ o.sequence = r.sequence =>
         t = s /\ e = d /\ q = p
  BY DEF UniqueNodes
<1>3. CASE t = s /\ e = d
  <2>1. At(b, s, d, q, o) <=> In(b[s][d], q, o)
    BY DEF At
  <2> QED BY <1>1, <1>2, <1>3, <2>1 DEF InBut
<1>4. CASE ~ (t = s /\ e = d)
  BY <1>1, <1>2, <1>4
<1> QED BY <1>3, <1>4

\* Adding an order to one side adds it to the books.
LEMMA StoredAdded ==
    ASSUME NEW b, NEW n, GoodBooks(b, n),
           NEW s \in DOMAIN b, NEW d \in Side, NEW x, NEW p, NEW r,
           \A q, o : In(x, q, o) <=> In(b[s][d], q, o) \/ (q = p /\ o = r)
    PROVE  Added(b, Stored(b, s, d, x), s, d, p, r)
<1> SUFFICES ASSUME NEW t, NEW e, NEW q, NEW o
             PROVE  At(Stored(b, s, d, x), t, e, q, o) <=>
                       \/ At(b, t, e, q, o)
                       \/ t = s /\ e = d /\ q = p /\ o = r
  BY DEF Added
<1>1. At(Stored(b, s, d, x), t, e, q, o) <=>
         IF t = s /\ e = d THEN In(x, q, o) ELSE At(b, t, e, q, o)
  BY StoredAt
<1>2. CASE t = s /\ e = d
  <2>1. At(b, s, d, q, o) <=> In(b[s][d], q, o)
    BY DEF At
  <2> QED BY <1>1, <1>2, <2>1
<1>3. CASE ~ (t = s /\ e = d)
  BY <1>1, <1>3
<1> QED BY <1>2, <1>3

-----------------------------------------------------------------------------
(* Numbers stay unique, and keep the order they were given to.             *)

\* A step that leaves the orders alone keeps them.
LEMMA SameKeeps ==
    ASSUME NEW b, NEW c, NEW n, GoodBooks(b, n), UniqueNodes(b), Same(b, c)
    PROVE  UniqueNodes(c) /\ Keeps(b, c)
<1>1. UniqueNodes(c)
  BY DEF UniqueNodes, Same
<1>2. ASSUME NEW s, NEW d, NEW p, NEW o, NEW t, NEW e, NEW q, NEW z,
             At(b, s, d, p, o), At(c, t, e, q, z), o.sequence = z.sequence
      PROVE  /\ t = s /\ e = d /\ q = p
             /\ z.key = o.key /\ z.open_size <= o.open_size
  <2>1. At(b, t, e, q, z)
    BY <1>2 DEF Same
  <2>2. t = s /\ e = d /\ q = p /\ z = o
    BY <1>2, <2>1 DEF UniqueNodes
  <2>3. o.open_size \in Int
    BY <1>2, AtFacts
  <2> QED BY <2>2, <2>3
<1> QED BY <1>1, <1>2 DEF Keeps

\* So does one that removes an order.
LEMMA RemovedKeeps ==
    ASSUME NEW b, NEW c, NEW n, GoodBooks(b, n), UniqueNodes(b),
           NEW r, Removed(b, c, r)
    PROVE  UniqueNodes(c) /\ Keeps(b, c)
<1>1. UniqueNodes(c)
  BY DEF UniqueNodes, Removed
<1>2. ASSUME NEW s, NEW d, NEW p, NEW o, NEW t, NEW e, NEW q, NEW z,
             At(b, s, d, p, o), At(c, t, e, q, z), o.sequence = z.sequence
      PROVE  /\ t = s /\ e = d /\ q = p
             /\ z.key = o.key /\ z.open_size <= o.open_size
  <2>1. At(b, t, e, q, z)
    BY <1>2 DEF Removed
  <2>2. t = s /\ e = d /\ q = p /\ z = o
    BY <1>2, <2>1 DEF UniqueNodes
  <2>3. o.open_size \in Int
    BY <1>2, AtFacts
  <2> QED BY <2>2, <2>3
<1> QED BY <1>1, <1>2 DEF Keeps

\* An order that is resized keeps its number, and does not grow.
LEMMA ResizedKeeps ==
    ASSUME NEW b, NEW c, NEW n, GoodBooks(b, n), UniqueNodes(b),
           NEW s, NEW d, NEW p, NEW r, NEW z, At(b, s, d, p, r),
           Resized(b, c, s, d, p, r, z),
           z.key = r.key, z.sequence = r.sequence,
           z.open_size <= r.open_size
    PROVE  UniqueNodes(c) /\ Keeps(b, c)
<1>1. UniqueNodes(c)
  <2> SUFFICES ASSUME NEW t1, NEW e1, NEW q1, NEW o1,
                      NEW t2, NEW e2, NEW q2, NEW o2,
                      At(c, t1, e1, q1, o1), At(c, t2, e2, q2, o2),
                      o1.sequence = o2.sequence
               PROVE  t1 = t2 /\ e1 = e2 /\ q1 = q2 /\ o1 = o2
    BY DEF UniqueNodes
  <2>1. \/ At(b, t1, e1, q1, o1) /\ o1.sequence # r.sequence
        \/ t1 = s /\ e1 = d /\ q1 = p /\ o1 = z
    BY DEF Resized
  <2>2. \/ At(b, t2, e2, q2, o2) /\ o2.sequence # r.sequence
        \/ t2 = s /\ e2 = d /\ q2 = p /\ o2 = z
    BY DEF Resized
  <2> QED BY <2>1, <2>2 DEF UniqueNodes
<1>2. ASSUME NEW t, NEW e, NEW q, NEW o, NEW t2, NEW e2, NEW q2, NEW o2,
             At(b, t, e, q, o), At(c, t2, e2, q2, o2),
             o.sequence = o2.sequence
      PROVE  /\ t2 = t /\ e2 = e /\ q2 = q
             /\ o2.key = o.key /\ o2.open_size <= o.open_size
  <2>1. CASE At(b, t2, e2, q2, o2)
    <3>1. t2 = t /\ e2 = e /\ q2 = q /\ o2 = o
      BY <1>2, <2>1 DEF UniqueNodes
    <3>2. o.open_size \in Int
      BY <1>2, AtFacts
    <3> QED BY <3>1, <3>2
  <2>2. CASE t2 = s /\ e2 = d /\ q2 = p /\ o2 = z
    <3>1. t = s /\ e = d /\ q = p /\ o = r
      BY <1>2, <2>2 DEF UniqueNodes
    <3> QED BY <2>2, <3>1
  <2> QED BY <1>2, <2>1, <2>2 DEF Resized
<1> QED BY <1>1, <1>2 DEF Keeps

\* A new order brings a number of its own.
LEMMA AddedKeeps ==
    ASSUME NEW b, NEW c, NEW n \in Nat, GoodBooks(b, n), UniqueNodes(b),
           NEW s, NEW d, NEW p, NEW r, r.sequence = n,
           Added(b, c, s, d, p, r)
    PROVE  UniqueNodes(c) /\ Keeps(b, c)
<1>1. ASSUME NEW t, NEW e, NEW q, NEW o, At(b, t, e, q, o)
      PROVE  o.sequence # r.sequence /\ o.open_size \in Int
  BY <1>1, AtFacts
<1>2. UniqueNodes(c)
  <2> SUFFICES ASSUME NEW t1, NEW e1, NEW q1, NEW o1,
                      NEW t2, NEW e2, NEW q2, NEW o2,
                      At(c, t1, e1, q1, o1), At(c, t2, e2, q2, o2),
                      o1.sequence = o2.sequence
               PROVE  t1 = t2 /\ e1 = e2 /\ q1 = q2 /\ o1 = o2
    BY DEF UniqueNodes
  <2>1. \/ At(b, t1, e1, q1, o1) /\ o1.sequence # r.sequence
        \/ t1 = s /\ e1 = d /\ q1 = p /\ o1 = r
    BY <1>1 DEF Added
  <2>2. \/ At(b, t2, e2, q2, o2) /\ o2.sequence # r.sequence
        \/ t2 = s /\ e2 = d /\ q2 = p /\ o2 = r
    BY <1>1 DEF Added
  <2> QED BY <2>1, <2>2 DEF UniqueNodes
<1>3. ASSUME NEW t, NEW e, NEW q, NEW o, NEW t2, NEW e2, NEW q2, NEW o2,
             At(b, t, e, q, o), At(c, t2, e2, q2, o2),
             o.sequence = o2.sequence
      PROVE  /\ t2 = t /\ e2 = e /\ q2 = q
             /\ o2.key = o.key /\ o2.open_size <= o.open_size
  <2>1. o.sequence # r.sequence /\ o.open_size \in Int
    BY <1>1, <1>3
  <2>2. At(b, t2, e2, q2, o2)
    BY <1>3, <2>1 DEF Added
  <2>3. t2 = t /\ e2 = e /\ q2 = q /\ o2 = o
    BY <1>3, <2>2 DEF UniqueNodes
  <2> QED BY <2>1, <2>3
<1> QED BY <1>2, <1>3 DEF Keeps

-----------------------------------------------------------------------------
(* The index follows the books.                                            *)

\* Two orders at rest with one key are the same node.
LEMMA KeysDiffer ==
    ASSUME NEW b, NEW a, NEW u, Agree(b, a, u), UniqueNodes(b),
           NEW s, NEW d, NEW p, NEW o, At(b, s, d, p, o),
           NEW t, NEW e, NEW q, NEW z, At(b, t, e, q, z)
    PROVE  o.key = z.key <=> o.sequence = z.sequence
<1>1. /\ a[o.key] = [instrument |-> s, direction |-> d,
                     limit_price |-> p, node |-> o.sequence]
      /\ a[z.key] = [instrument |-> t, direction |-> e,
                     limit_price |-> q, node |-> z.sequence]
  BY DEF Agree
<1>2. a[o.key].node = o.sequence /\ a[z.key].node = z.sequence
  BY <1>1
<1>3. o.sequence = z.sequence => o = z
  BY DEF UniqueNodes
<1> QED BY <1>2, <1>3

\* Orders that stay where they are keep the index right.
LEMMA SameAgree ==
    ASSUME NEW b, NEW c, NEW a, NEW u, Agree(b, a, u), Same(b, c)
    PROVE  Agree(c, a, u)
BY DEF Agree, Same

\* Removing an order leaves its key unsettled.
LEMMA RemovedAgree ==
    ASSUME NEW b, NEW c, NEW a, NEW u, Agree(b, a, u), UniqueNodes(b),
           NEW s, NEW d, NEW p, NEW r, At(b, s, d, p, r), Removed(b, c, r)
    PROVE  Agree(c, a, u \cup {r.key})
<1>1. ASSUME NEW t, NEW e, NEW q, NEW o, At(c, t, e, q, o)
      PROVE  /\ o.key \in DOMAIN a /\ o.key \notin u \cup {r.key}
             /\ a[o.key] = [instrument |-> t, direction |-> e,
                            limit_price |-> q, node |-> o.sequence]
  <2>1. At(b, t, e, q, o) /\ o.sequence # r.sequence
    BY <1>1 DEF Removed
  <2>2. o.key # r.key
    BY <2>1, KeysDiffer
  <2> QED BY <2>1, <2>2 DEF Agree
<1>2. ASSUME NEW key \in DOMAIN a \ (u \cup {r.key})
      PROVE  \E o : /\ At(c, a[key].instrument, a[key].direction,
                          a[key].limit_price, o)
                    /\ o.sequence = a[key].node /\ o.key = key
  <2>1. PICK o : /\ At(b, a[key].instrument, a[key].direction,
                       a[key].limit_price, o)
                 /\ o.sequence = a[key].node /\ o.key = key
    BY <1>2 DEF Agree
  <2>2. o.sequence # r.sequence
    BY <1>2, <2>1, KeysDiffer
  <2>3. At(c, a[key].instrument, a[key].direction, a[key].limit_price, o)
    BY <2>1, <2>2 DEF Removed
  <2> QED BY <2>1, <2>3
<1> QED BY <1>1, <1>2 DEF Agree

\* Resizing an order leaves its entry right.
LEMMA ResizedAgree ==
    ASSUME NEW b, NEW c, NEW a, NEW u, Agree(b, a, u), UniqueNodes(b),
           NEW s, NEW d, NEW p, NEW r, NEW z, At(b, s, d, p, r),
           Resized(b, c, s, d, p, r, z),
           z.key = r.key, z.sequence = r.sequence
    PROVE  Agree(c, a, u)
<1>1. ASSUME NEW t, NEW e, NEW q, NEW o, At(c, t, e, q, o)
      PROVE  /\ o.key \in DOMAIN a /\ o.key \notin u
             /\ a[o.key] = [instrument |-> t, direction |-> e,
                            limit_price |-> q, node |-> o.sequence]
  <2>1. CASE At(b, t, e, q, o)
    BY <2>1 DEF Agree
  <2>2. CASE t = s /\ e = d /\ q = p /\ o = z
    <3>1. /\ r.key \in DOMAIN a /\ r.key \notin u
          /\ a[r.key] = [instrument |-> s, direction |-> d,
                         limit_price |-> p, node |-> r.sequence]
      BY DEF Agree
    <3> QED BY <2>2, <3>1
  <2> QED BY <1>1, <2>1, <2>2 DEF Resized
<1>2. ASSUME NEW key \in DOMAIN a \ u
      PROVE  \E o : /\ At(c, a[key].instrument, a[key].direction,
                          a[key].limit_price, o)
                    /\ o.sequence = a[key].node /\ o.key = key
  <2>1. PICK o : /\ At(b, a[key].instrument, a[key].direction,
                       a[key].limit_price, o)
                 /\ o.sequence = a[key].node /\ o.key = key
    BY <1>2 DEF Agree
  <2>2. CASE o.sequence # r.sequence
    <3>1. At(c, a[key].instrument, a[key].direction, a[key].limit_price, o)
      BY <2>1, <2>2 DEF Resized
    <3> QED BY <2>1, <3>1
  <2>3. CASE o.sequence = r.sequence
    <3>1. /\ a[key].instrument = s /\ a[key].direction = d
          /\ a[key].limit_price = p /\ o = r
      BY <2>1, <2>3 DEF UniqueNodes
    <3>2. At(c, s, d, p, z)
      BY DEF Resized
    <3> QED BY <2>1, <2>3, <3>1, <3>2
  <2> QED BY <2>2, <2>3
<1> QED BY <1>1, <1>2 DEF Agree

\* Erasing the unsettled entries settles the index.
LEMMA SettledAgree ==
    ASSUME NEW b, NEW a, NEW u, Agree(b, a, u), NEW new,
           DOMAIN new = DOMAIN a \ u,
           \A key \in DOMAIN new : new[key] = a[key]
    PROVE  Agree(b, new, {})
BY DEF Agree

\* Adding an order, and its entry once the unsettled ones are erased, keeps
\* the index right.
LEMMA AddedAgree ==
    ASSUME NEW b, NEW c, NEW a, NEW u, Agree(b, a, u),
           NEW s, NEW d, NEW p, NEW r, Added(b, c, s, d, p, r),
           r.key \notin DOMAIN a \ u, NEW new,
           DOMAIN new = (DOMAIN a \ u) \cup {r.key},
           new[r.key] = [instrument |-> s, direction |-> d,
                         limit_price |-> p, node |-> r.sequence],
           \A key \in DOMAIN a \ u : new[key] = a[key]
    PROVE  Agree(c, new, {})
<1>1. ASSUME NEW t, NEW e, NEW q, NEW o, At(c, t, e, q, o)
      PROVE  /\ o.key \in DOMAIN new /\ o.key \notin {}
             /\ new[o.key] = [instrument |-> t, direction |-> e,
                              limit_price |-> q, node |-> o.sequence]
  <2>1. CASE At(b, t, e, q, o)
    <3>1. /\ o.key \in DOMAIN a \ u
          /\ a[o.key] = [instrument |-> t, direction |-> e,
                         limit_price |-> q, node |-> o.sequence]
      BY <2>1 DEF Agree
    <3> QED BY <3>1
  <2>2. CASE t = s /\ e = d /\ q = p /\ o = r
    BY <2>2
  <2> QED BY <1>1, <2>1, <2>2 DEF Added
<1>2. ASSUME NEW key \in DOMAIN new \ {}
      PROVE  \E o : /\ At(c, new[key].instrument, new[key].direction,
                          new[key].limit_price, o)
                    /\ o.sequence = new[key].node /\ o.key = key
  <2>1. CASE key \in DOMAIN a \ u
    <3>1. PICK o : /\ At(b, a[key].instrument, a[key].direction,
                         a[key].limit_price, o)
                   /\ o.sequence = a[key].node /\ o.key = key
      BY <2>1 DEF Agree
    <3>2. At(c, a[key].instrument, a[key].direction, a[key].limit_price, o)
      BY <3>1 DEF Added
    <3>3. new[key] = a[key]
      BY <2>1
    <3> QED BY <3>1, <3>2, <3>3
  <2>2. CASE key = r.key
    <3>1. At(c, s, d, p, r)
      BY DEF Added
    <3>2. /\ new[key].instrument = s /\ new[key].direction = d
          /\ new[key].limit_price = p /\ new[key].node = r.sequence
      BY <2>2
    <3> QED BY <2>2, <3>1, <3>2
  <2> QED BY <1>2, <2>1, <2>2
<1> QED BY <1>1, <1>2 DEF Agree

-----------------------------------------------------------------------------
(* The invariant.                                                          *)

\* The index and the books agree, and numbers are unique.
Indexed == Agree(books, active_orders, Unsettled) /\ UniqueNodes(books)

\* A submitted key is not active before the end of its command.
NewKey ==
    call # NoCall /\ call.kind = "submit" => call.key \notin DOMAIN active_orders

\* No event reports a corrupted index.
Clean(stream) ==
    \A i \in DOMAIN stream :
        stream[i].type \in {"update_rejected", "cancel_rejected"} =>
            stream[i].reason \notin {"order book is missing",
                                     "order book is inconsistent"}

Answered == events = <<>> => books = EmptyMap

IndexInv == IInv /\ Indexed /\ NewKey /\ Answered /\ Clean(events)

\* What the index and the books say of an active order between two commands.
LEMMA ActiveHeld ==
    ASSUME IInv, Indexed, NEW key \in DOMAIN active_orders \ Unsettled
    PROVE  LET active == active_orders[key]
           IN  /\ active.instrument \in DOMAIN books
               /\ active.direction \in Side
               /\ Holds(LevelsOf(active), active, key)
<1> DEFINE active == active_orders[key]
<1>1. PICK o : /\ At(books, active.instrument, active.direction,
                     active.limit_price, o)
               /\ o.sequence = active.node /\ o.key = key
  BY DEF Indexed, Agree
<1>2. /\ active.instrument \in DOMAIN books /\ active.direction \in Side
      /\ In(LevelsOf(active), active.limit_price, o)
  BY <1>1 DEF At, LevelsOf
<1> HIDE DEF active
<1>3. Holds(LevelsOf(active), active, key)
  BY <1>1, <1>2 DEF In, ToSet, Holds
<1> QED BY <1>2, <1>3 DEF active

\* The invariant says what the properties say.
LEMMA IndexInvImplies ==
    ASSUME IndexInv
    PROVE  HandlesValid /\ RestingOrdersIndexed /\ IndexNeverCorrupt
<1>1. HandlesValid
  BY ActiveHeld DEF IndexInv, HandlesValid
<1>2. RestingOrdersIndexed
  <2> SUFFICES ASSUME NEW s \in DOMAIN books, NEW d \in Side,
                      NEW p \in DOMAIN books[s][d],
                      NEW i \in DOMAIN books[s][d][p].orders
               PROVE  LET o == books[s][d][p].orders[i]
                      IN  /\ o.key \in DOMAIN active_orders \ Unsettled
                          /\ active_orders[o.key] =
                                [instrument |-> s, direction |-> d,
                                 limit_price |-> p, node |-> o.sequence]
    BY DEF RestingOrdersIndexed
  <2> DEFINE o == books[s][d][p].orders[i]
  <2>1. At(books, s, d, p, o)
    BY DEF At, In, ToSet
  <2> HIDE DEF o
  <2> QED BY <2>1 DEF IndexInv, Indexed, Agree, o
<1>3. IndexNeverCorrupt
  BY DEF IndexInv, Answered, Clean, IndexNeverCorrupt
<1> QED BY <1>1, <1>2, <1>3

\* An engine without books has an index without entries.
LEMMA InitIndexInv == Init => IndexInv
<1> SUFFICES ASSUME Init PROVE IndexInv
  OBVIOUS
<1>1. IInv
  BY InitIInv
<1>2. /\ call = NoCall /\ events = <<>> /\ books = EmptyMap
      /\ DOMAIN books = {} /\ DOMAIN active_orders = {}
  BY EmptyGood DEF Init
<1>3. Indexed
  BY <1>2 DEF Indexed, Agree, UniqueNodes, At
<1>4. NewKey /\ Answered /\ Clean(events)
  BY <1>2 DEF NewKey, Answered, Clean
<1> QED BY <1>1, <1>3, <1>4 DEF IndexInv

-----------------------------------------------------------------------------
(* Event streams.                                                          *)

\* Appending a clean stream to another keeps it clean, and answered.
LEMMA CleanConcat ==
    ASSUME NEW s \in Seq(event), NEW t \in Seq(event), Clean(s), Clean(t)
    PROVE  /\ s \o t \in Seq(event) /\ Clean(s \o t)
           /\ s # <<>> => s \o t # <<>>
<1> DEFINE st == s \o t
<1>1. /\ st \in Seq(event) /\ Len(st) = Len(s) + Len(t)
      /\ \A i \in 1 .. Len(s) + Len(t) :
            st[i] = IF i <= Len(s) THEN s[i] ELSE t[i - Len(s)]
  BY ConcatProperties
<1>2. /\ DOMAIN st = 1 .. Len(s) + Len(t)
      /\ DOMAIN s = 1 .. Len(s) /\ DOMAIN t = 1 .. Len(t)
      /\ Len(s) \in Nat /\ Len(t) \in Nat
  BY <1>1
<1> HIDE DEF st
<1>3. ASSUME NEW i \in DOMAIN st
      PROVE  \/ i \in DOMAIN s /\ st[i] = s[i]
             \/ i - Len(s) \in DOMAIN t /\ st[i] = t[i - Len(s)]
  BY <1>1, <1>2
<1>4. Clean(st)
  BY <1>3 DEF Clean
<1>5. s # <<>> => st # <<>>
  <2>1. s # <<>> => Len(s) # 0
    BY EmptySeq
  <2> QED BY <1>1, <1>2, <2>1, EmptySeq
<1> QED BY <1>1, <1>4, <1>5 DEF st

\* A list of one element.
LEMMA OneElement ==
    ASSUME NEW S, NEW e \in S
    PROVE  /\ <<e>> \in Seq(S) /\ <<e>> # <<>>
           /\ DOMAIN <<e>> = {1} /\ <<e>>[1] = e
<1>1. <<e>> \in Seq(S) /\ <<e>>[1] = e
  OBVIOUS
<1>2. DOMAIN <<e>> = {1}
  OBVIOUS
<1> QED BY <1>1, <1>2

\* A single event that is no rejection is clean.
LEMMA CleanOne ==
    ASSUME NEW e \in event,
           \/ e.type \notin {"update_rejected", "cancel_rejected"}
           \/ e.reason \notin {"order book is missing",
                               "order book is inconsistent"}
    PROVE  <<e>> \in Seq(event) /\ <<e>> # <<>> /\ Clean(<<e>>)
<1>1. /\ <<e>> \in Seq(event) /\ <<e>> # <<>>
      /\ DOMAIN <<e>> = {1} /\ <<e>>[1] = e
  BY OneElement
<1>2. Clean(<<e>>)
  BY <1>1 DEF Clean
<1> QED BY <1>1, <1>2

\* Market data is clean.
LEMMA CleanUpdate ==
    ASSUME NEW instrument, NEW direction, NEW before, NEW after
    PROVE  Clean(book_update_if_changed(instrument, direction, before, after))
<1> DEFINE e == book_updated(instrument, direction, after)
<1>1. e.type = "book_updated"
  BY DEF book_updated
<1> HIDE DEF e
<1>2. DOMAIN <<e>> = {1} /\ <<e>>[1] = e /\ DOMAIN <<>> = {}
  OBVIOUS
<1>3. Clean(<<e>>) /\ Clean(<<>>)
  BY <1>1, <1>2 DEF Clean
<1> QED BY <1>3 DEF book_update_if_changed, e

-----------------------------------------------------------------------------
(* The steps: what they do to the orders and to the index.                 *)

\* A command that leaves the books and the index alone.
LEMMA QuietIndexed ==
    ASSUME IInv, Indexed, books' = books, active_orders' = active_orders,
           call' = call
    PROVE  Indexed' /\ Keeps(books, books')
<1>1. Same(books, books')
  BY DEF Same
<1>2. GoodBooks(books, Bound) /\ UniqueNodes(books)
  BY DEF IInv, Indexed
<1>3. UniqueNodes(books') /\ Keeps(books, books')
  BY <1>1, <1>2, SameKeeps
<1>4. Unsettled' = Unsettled
  BY DEF Unsettled
<1> QED BY <1>3, <1>4 DEF Indexed

\* An update or cancel that is refused is not refused for a corrupted index,
\* so its entry is not dropped.
LEMMA UpdateRejectedIndexed ==
    ASSUME IInv, Indexed, NEW key \in Keys, NEW pricing \in Pricing,
           UpdateRejected(key, pricing)
    PROVE  /\ Indexed' /\ Keeps(books, books')
           /\ Clean(events') /\ events' # <<>>
<1> DEFINE verdict == update_verdict(key, pricing)
<1>1. /\ call = NoCall /\ call' = call /\ books' = books
      /\ events' = <<rejected("update_rejected", key, verdict)>>
      /\ active_orders' =
            IF verdict \in {"order book is missing",
                            "order book is inconsistent"}
            THEN Erase(active_orders, {key}) ELSE active_orders
  BY DEF UpdateRejected
<1>2. Unsettled = {}
  BY <1>1 DEF Unsettled
<1>3. key \in DOMAIN active_orders =>
         /\ active_orders[key].instrument \in DOMAIN books
         /\ Holds(LevelsOf(active_orders[key]), active_orders[key], key)
  BY <1>2, ActiveHeld
<1>4. verdict \notin {"order book is missing", "order book is inconsistent"}
  BY <1>3 DEF update_verdict, Ok
<1>5. verdict \in Reason
  BY DEF UpdateRejected, update_verdict, Ok, Reason
<1> HIDE DEF verdict
<1>6. rejected("update_rejected", key, verdict) \in event
  BY <1>5, RejectedType
<1>7. rejected("update_rejected", key, verdict).reason = verdict
  BY DEF rejected
<1>8. Clean(events') /\ events' # <<>>
  BY <1>1, <1>4, <1>6, <1>7, CleanOne
<1> QED BY <1>1, <1>4, <1>8, QuietIndexed

\* The same for a cancel.
LEMMA CancelRejectedIndexed ==
    ASSUME IInv, Indexed, NEW key \in Keys, CancelRejected(key)
    PROVE  /\ Indexed' /\ Keeps(books, books')
           /\ Clean(events') /\ events' # <<>>
<1> DEFINE verdict == cancel_verdict(key)
<1>1. /\ call = NoCall /\ call' = call /\ books' = books
      /\ events' = <<rejected("cancel_rejected", key, verdict)>>
      /\ active_orders' = IF verdict = "order book is missing"
                          THEN Erase(active_orders, {key}) ELSE active_orders
  BY DEF CancelRejected
<1>2. Unsettled = {}
  BY <1>1 DEF Unsettled
<1>3. key \in DOMAIN active_orders =>
         active_orders[key].instrument \in DOMAIN books
  BY <1>2, ActiveHeld
<1>4. verdict \notin {"order book is missing", "order book is inconsistent"}
  BY <1>3 DEF cancel_verdict, Ok
<1>5. verdict \in Reason
  BY DEF CancelRejected, cancel_verdict, Ok, Reason
<1> HIDE DEF verdict
<1>6. rejected("cancel_rejected", key, verdict) \in event
  BY <1>5, RejectedType
<1>7. rejected("cancel_rejected", key, verdict).reason = verdict
  BY DEF rejected
<1>8. Clean(events') /\ events' # <<>>
  BY <1>1, <1>4, <1>6, <1>7, CleanOne
<1> QED BY <1>1, <1>4, <1>8, QuietIndexed

\* A submission that is refused changes nothing.
LEMMA SubmitRejectedIndexed ==
    ASSUME IInv, Indexed, NEW key \in Keys, NEW instrument \in Symbols,
           SubmitRejected(key, instrument)
    PROVE  /\ Indexed' /\ Keeps(books, books')
           /\ Clean(events') /\ events' # <<>>
<1> DEFINE verdict == submit_verdict(key, instrument)
<1>1. /\ call' = call /\ books' = books /\ active_orders' = active_orders
      /\ events' = <<rejected("submit_rejected", key, verdict)>>
  BY DEF SubmitRejected
<1>2. verdict \in Reason
  BY DEF SubmitRejected, submit_verdict, Ok, Reason
<1> HIDE DEF verdict
<1>3. rejected("submit_rejected", key, verdict) \in event
  BY <1>2, RejectedType
<1>4. rejected("submit_rejected", key, verdict).type = "submit_rejected"
  BY DEF rejected
<1>5. Clean(events') /\ events' # <<>>
  BY <1>1, <1>3, <1>4, CleanOne
<1> QED BY <1>1, <1>5, QuietIndexed

\* The answer to a command that is accepted, and the market data after it.
LEMMA AcceptedClean ==
    ASSUME NEW type \in {"submit_accepted", "update_accepted",
                         "order_cancelled"},
           NEW key \in Keys, NEW instrument \in Symbols, NEW direction \in Side,
           NEW before, NEW after \in top_of_book_state
    PROVE  /\ Clean(<<accepted(type, key)>>) /\ <<accepted(type, key)>> # <<>>
           /\ LET stream == <<accepted(type, key)>>
                            \o book_update_if_changed(instrument, direction,
                                                      before, after)
              IN  Clean(stream) /\ stream # <<>>
<1> DEFINE e == accepted(type, key)
           t == book_update_if_changed(instrument, direction, before, after)
<1>1. e \in event /\ e.type \notin {"update_rejected", "cancel_rejected"}
  BY AcceptedType DEF accepted
<1>2. t \in Seq(event) /\ Clean(t)
  BY BookUpdateType, CleanUpdate
<1> HIDE DEF e, t
<1>3. <<e>> \in Seq(event) /\ <<e>> # <<>> /\ Clean(<<e>>)
  BY <1>1, CleanOne
<1>4. Clean(<<e>> \o t) /\ <<e>> \o t # <<>>
  BY <1>2, <1>3, CleanConcat
<1> QED BY <1>3, <1>4 DEF e, t

\* Cancel (engine.cpp:61) takes the order out of the book and of the index.
LEMMA CancelIndexed ==
    ASSUME IInv, Indexed, NEW key \in Keys, Cancel(key)
    PROVE  /\ Indexed' /\ Keeps(books, books')
           /\ Clean(events') /\ events' # <<>>
<1> DEFINE active == active_orders[key]
           s == active.instrument
           d == active.direction
           before == LevelsOf(active)
           after == remove_order(before, active)
           r == Behind(before, active)
<1>1. /\ call = NoCall /\ call' = NoCall
      /\ key \in DOMAIN active_orders /\ s \in DOMAIN books
  BY DEF Cancel, cancel_verdict, Ok
<1>2. Unsettled = {} /\ Unsettled' = {}
  BY <1>1 DEF Unsettled
<1>3. Holds(before, active, key)
  BY <1>1, <1>2, ActiveHeld
<1>4. /\ s \in Symbols /\ d \in Side /\ next_sequence \in Nat
      /\ GoodBooks(books, next_sequence)
      /\ GoodLevels(before, d, next_sequence)
  BY <1>1, ActiveFacts
<1>5. /\ books' = Stored(books, s, d, after)
      /\ active_orders' = Erase(active_orders, {key})
      /\ events' = <<accepted("order_cancelled", key)>>
                   \o book_update_if_changed(s, d,
                         top_of_book(d, before), top_of_book(d, after))
  BY <1>3 DEF Cancel, Stored
<1>6. GoodLevels(after, d, next_sequence)
  BY <1>3, <1>4, RemoveOrderGood
<1>7. top_of_book(d, after) \in top_of_book_state
  BY <1>6, TopOfBookType
<1>8. /\ In(before, active.limit_price, r)
      /\ r.sequence = active.node /\ r.key = key
  BY <1>3, <1>4, BehindFacts
<1>9. \A q, o : In(after, q, o) <=>
                   InBut(before, active.limit_price, r.sequence, q, o)
  BY <1>3, <1>4, <1>8, RemoveOrderIn
<1>10. before = books[s][d] /\ At(books, s, d, active.limit_price, r)
  BY <1>1, <1>4, <1>8 DEF LevelsOf, At
<1> HIDE DEF s, d, before, after, r
<1>11. Removed(books, books', r)
  <2> DEFINE p == active.limit_price
  <2>1. /\ \A q, o : In(after, q, o) <=>
                        InBut(books[s][d], p, r.sequence, q, o)
        /\ At(books, s, d, p, r)
    BY <1>9, <1>10
  <2> HIDE DEF p
  <2>2. Removed(books, Stored(books, s, d, after), r)
    BY <1>1, <1>4, <2>1, StoredRemoved DEF Indexed
  <2> QED BY <1>5, <2>2
<1>12. UniqueNodes(books') /\ Keeps(books, books')
  BY <1>4, <1>11, RemovedKeeps DEF Indexed
<1>13. Agree(books', active_orders, {key})
  <2>1. Agree(books', active_orders, {} \cup {r.key})
    BY <1>2, <1>10, <1>11, RemovedAgree DEF Indexed
  <2> QED BY <1>8, <2>1
<1>14. Agree(books', active_orders', {})
  <2>1. /\ DOMAIN active_orders' = DOMAIN active_orders \ {key}
        /\ \A k \in DOMAIN active_orders' :
              active_orders'[k] = active_orders[k]
    BY <1>5 DEF Erase
  <2> QED BY <1>13, <2>1, SettledAgree
<1>15. Clean(events') /\ events' # <<>>
  BY <1>4, <1>5, <1>7, AcceptedClean
<1> QED BY <1>2, <1>12, <1>14, <1>15 DEF Indexed

\* An update in place (order_book.cpp:311) resizes the order and keeps its
\* entry: the handle stays valid.
LEMMA UpdateReduceIndexed ==
    ASSUME IInv, Indexed, NEW key \in Keys, NEW pricing \in Price,
           NEW size \in Quantity, UpdateReduce(key, pricing, size)
    PROVE  /\ Indexed' /\ Keeps(books, books')
           /\ Clean(events') /\ events' # <<>>
<1> DEFINE active == active_orders[key]
           s == active.instrument
           d == active.direction
           p == active.limit_price
           before == LevelsOf(active)
           after == reduce_order_size(before, active, size)
           r == Behind(before, active)
           z == [r EXCEPT !.open_size = size]
<1>1. /\ update_verdict(key, pricing) = Ok
      /\ can_reduce(before, active, key, pricing, size)
  BY DEF UpdateReduce
<1>2. /\ key \in DOMAIN active_orders /\ s \in DOMAIN books
      /\ Holds(before, active, key)
  BY <1>1 DEF update_verdict, Ok
<1>3. /\ call = NoCall /\ call' = NoCall
      /\ active_orders' = active_orders
      /\ books' = Stored(books, s, d, after)
      /\ events' = <<accepted("update_accepted", key)>>
                   \o book_update_if_changed(s, d,
                         top_of_book(d, before), top_of_book(d, after))
  BY DEF UpdateReduce, Stored
<1>4. Unsettled = {} /\ Unsettled' = {}
  BY <1>3 DEF Unsettled
<1>5. /\ s \in Symbols /\ d \in Side /\ next_sequence \in Nat
      /\ GoodBooks(books, next_sequence)
      /\ GoodLevels(before, d, next_sequence)
  BY <1>2, <1>3, ActiveFacts
<1>6. GoodLevels(after, d, next_sequence)
  BY <1>2, <1>5, ReduceOrderGood
<1>7. top_of_book(d, after) \in top_of_book_state
  BY <1>6, TopOfBookType
<1>8. /\ In(before, p, r) /\ r \in resting_order
      /\ r.sequence = active.node /\ r.key = key
  BY <1>2, <1>5, BehindFacts
<1>9. size <= r.open_size
  BY <1>1 DEF can_reduce, Behind
<1> HIDE DEF r
<1>10. /\ z.key = r.key /\ z.sequence = r.sequence
       /\ z.open_size <= r.open_size
  BY <1>8, <1>9 DEF resting_order
<1>11. \A q, o : In(after, q, o) <=>
                    \/ InBut(before, p, r.sequence, q, o)
                    \/ q = p /\ o = z
  BY <1>2, <1>5, <1>8, ReduceOrderIn DEF r
<1>12. before = books[s][d] /\ At(books, s, d, p, r)
  BY <1>2, <1>5, <1>8 DEF LevelsOf, At
<1> HIDE DEF s, d, p, before, after, z
<1>13. Resized(books, books', s, d, p, r, z)
  <2>1. \A q, o : In(after, q, o) <=>
                     InBut(books[s][d], p, r.sequence, q, o)
                     \/ (q = p /\ o = z)
    BY <1>11, <1>12
  <2>2. Resized(books, Stored(books, s, d, after), s, d, p, r, z)
    BY <1>2, <1>5, <1>12, <2>1, StoredResized DEF Indexed
  <2> QED BY <1>3, <2>2
<1>14. UniqueNodes(books') /\ Keeps(books, books')
  BY <1>5, <1>10, <1>12, <1>13, ResizedKeeps DEF Indexed
<1>15. Agree(books', active_orders, {})
  BY <1>4, <1>10, <1>12, <1>13, ResizedAgree DEF Indexed
<1>16. Clean(events') /\ events' # <<>>
  BY <1>3, <1>5, <1>7, AcceptedClean
<1> QED BY <1>3, <1>4, <1>14, <1>15, <1>16 DEF Indexed

\* A replacement (order_book.cpp:378) first takes the order out; its entry is
\* not settled before the command ends.
LEMMA ReplaceBeginIndexed ==
    ASSUME IInv, Indexed, NEW key \in Keys, NEW pricing \in Price,
           NEW size \in Quantity, ReplaceBegin(key, pricing, size)
    PROVE  /\ Indexed' /\ Keeps(books, books') /\ NewKey'
           /\ Clean(events') /\ events' # <<>>
<1> DEFINE active == active_orders[key]
           s == active.instrument
           d == active.direction
           p == active.limit_price
           before == LevelsOf(active)
           after == remove_order(before, active)
           r == Behind(before, active)
<1>1. /\ update_verdict(key, pricing) = Ok
      /\ call = NoCall /\ active_orders' = active_orders
      /\ books' = Stored(books, s, d, after)
      /\ call'.kind = "replace" /\ call'.key = key /\ call'.filled = {}
      /\ events' = <<accepted("update_accepted", key)>>
  BY DEF ReplaceBegin, Stored
<1>2. /\ key \in DOMAIN active_orders /\ s \in DOMAIN books
      /\ Holds(before, active, key)
  BY <1>1 DEF update_verdict, Ok
<1>3. /\ call' # NoCall /\ Unsettled = {} /\ Unsettled' = {key}
  <2>1. call' # NoCall
    BY <1>1 DEF NoCall
  <2> QED BY <1>1, <2>1 DEF Unsettled
<1>4. /\ s \in Symbols /\ d \in Side /\ next_sequence \in Nat
      /\ GoodBooks(books, next_sequence)
      /\ GoodLevels(before, d, next_sequence)
  BY <1>1, <1>2, ActiveFacts
<1>5. In(before, p, r) /\ r.sequence = active.node /\ r.key = key
  BY <1>2, <1>4, BehindFacts
<1>6. \A q, o : In(after, q, o) <=> InBut(before, p, r.sequence, q, o)
  BY <1>2, <1>4, <1>5, RemoveOrderIn
<1>7. before = books[s][d] /\ At(books, s, d, p, r)
  BY <1>2, <1>4, <1>5 DEF LevelsOf, At
<1> HIDE DEF s, d, p, before, after, r
<1>8. Removed(books, books', r)
  <2>1. \A q, o : In(after, q, o) <=>
                     InBut(books[s][d], p, r.sequence, q, o)
    BY <1>6, <1>7
  <2>2. Removed(books, Stored(books, s, d, after), r)
    BY <1>2, <1>4, <1>7, <2>1, StoredRemoved DEF Indexed
  <2> QED BY <1>1, <2>2
<1>9. UniqueNodes(books') /\ Keeps(books, books')
  BY <1>4, <1>8, RemovedKeeps DEF Indexed
<1>10. Agree(books', active_orders, {key})
  <2>1. Agree(books', active_orders, {} \cup {r.key})
    BY <1>3, <1>7, <1>8, RemovedAgree DEF Indexed
  <2> QED BY <1>5, <2>1
<1>11. Clean(events') /\ events' # <<>>
  <2>1. accepted("update_accepted", key) \in event
    BY AcceptedType
  <2>2. accepted("update_accepted", key).type = "update_accepted"
    BY DEF accepted
  <2> QED BY <1>1, <2>1, <2>2, CleanOne
<1>12. NewKey'
  BY <1>1 DEF NewKey
<1> QED BY <1>1, <1>3, <1>9, <1>10, <1>11, <1>12 DEF Indexed

\* A submission creates its book if there is none (get_or_create_book,
\* engine.cpp:165), and adds no order yet.
LEMMA SubmitBeginSame ==
    ASSUME NEW key, NEW instrument, NEW direction, NEW pricing, NEW size,
           SubmitBegin(key, instrument, direction, pricing, size)
    PROVE  Same(books, books')
<1>1. books' = Put(books, instrument, BookOf(instrument))
  BY DEF SubmitBegin
<1> SUFFICES ASSUME NEW t, NEW e, NEW q, NEW o
             PROVE  At(books', t, e, q, o) <=> At(books, t, e, q, o)
  BY DEF Same
<1>2. CASE t = instrument /\ t \notin DOMAIN books
  <2>1. e \in Side => books'[t][e] = EmptyMap
    BY <1>1, <1>2 DEF Put, BookOf
  <2>2. DOMAIN EmptyMap = {}
    BY EmptyGood
  <2> QED BY <1>2, <2>1, <2>2 DEF At, In
<1>3. CASE ~ (t = instrument /\ t \notin DOMAIN books)
  <2>1. t \in DOMAIN books' <=> t \in DOMAIN books
    BY <1>1, <1>3 DEF Put
  <2>2. t \in DOMAIN books => books'[t] = books[t]
    BY <1>1 DEF Put, BookOf
  <2> QED BY <2>1, <2>2 DEF At
<1> QED BY <1>2, <1>3

\* So the index stays as it is.
LEMMA SubmitBeginIndexed ==
    ASSUME IInv, Indexed, NEW key \in Keys, NEW instrument \in Symbols,
           NEW direction \in Side, NEW pricing \in Pricing,
           NEW size \in Quantity,
           SubmitBegin(key, instrument, direction, pricing, size)
    PROVE  /\ Indexed' /\ Keeps(books, books') /\ NewKey'
           /\ Clean(events') /\ events' # <<>>
<1>1. /\ submit_verdict(key, instrument) = Ok
      /\ call = NoCall /\ active_orders' = active_orders
      /\ books' = Put(books, instrument, BookOf(instrument))
      /\ call'.kind = "submit" /\ call'.key = key /\ call'.filled = {}
      /\ events' = <<accepted("submit_accepted", key)>>
  BY DEF SubmitBegin
<1>2. key \notin DOMAIN active_orders
  BY <1>1 DEF submit_verdict, Ok
<1>3. call' # NoCall /\ Unsettled = {} /\ Unsettled' = {}
  <2>1. call' # NoCall
    BY <1>1 DEF NoCall
  <2> QED BY <1>1, <2>1 DEF Unsettled
<1>4. Same(books, books')
  BY SubmitBeginSame
<1>5. UniqueNodes(books') /\ Keeps(books, books')
  <2>1. GoodBooks(books, Bound) /\ UniqueNodes(books)
    BY DEF IInv, Indexed
  <2> QED BY <1>4, <2>1, SameKeeps
<1>6. Agree(books', active_orders, {})
  BY <1>3, <1>4, SameAgree DEF Indexed
<1>7. Clean(events') /\ events' # <<>>
  <2>1. accepted("submit_accepted", key) \in event
    BY AcceptedType
  <2>2. accepted("submit_accepted", key).type = "submit_accepted"
    BY DEF accepted
  <2> QED BY <1>1, <2>1, <2>2, CleanOne
<1>8. NewKey'
  BY <1>1, <1>2 DEF NewKey
<1> QED BY <1>1, <1>3, <1>5, <1>6, <1>7, <1>8 DEF Indexed

\* A trade (match_against_level, order_book.cpp:462) makes the front order
\* smaller, or takes it out and notes its key as filled.
LEMMA MatchFrontIndexed ==
    ASSUME IInv, Indexed, NewKey, Clean(events), MatchFront
    PROVE  /\ Indexed' /\ Keeps(books, books') /\ NewKey'
           /\ Clean(events') /\ events' # <<>>
<1> DEFINE s == call.instrument
           d == Opposite(call.direction)
           p == begin(d, OppositeLevels)
           r == Head(OppositeLevels[p].orders)
           executed == Min({call.open_size, r.open_size})
           after == take_from_front(OppositeLevels, p, executed)
           z == [r EXCEPT !.open_size = @ - executed]
           trade == trade_executed(call.key, r.key, s, r.limit_price, executed)
<1>1. /\ call # NoCall /\ call.open_size > 0 /\ DOMAIN OppositeLevels # {}
      /\ active_orders' = active_orders
      /\ events' = Append(events, trade)
      /\ call' = [call EXCEPT
                     !.open_size = @ - executed,
                     !.filled = IF executed = r.open_size
                                THEN @ \cup {r.key} ELSE @]
      /\ books' = Stored(books, s, d, after)
  BY DEF MatchFront, match_against_level, CanMatch, Stored, OppositeLevels
<1>2. /\ call \in Call /\ s \in DOMAIN books /\ d \in Side
      /\ call.key \in Keys /\ s \in Symbols
      /\ call.open_size \in Size /\ call.sequence \in Nat
      /\ GoodBooks(books, call.sequence)
      /\ GoodLevels(OppositeLevels, d, call.sequence)
  BY <1>1, CallFacts
<1>3. p \in DOMAIN OppositeLevels
  <2>1. DOMAIN OppositeLevels \subseteq Price
    BY <1>2 DEF GoodLevels, IsLevels, IsMap
  <2> QED BY <1>1, <2>1, BeginIsBest
<1> HIDE DEF p
<1>4. In(OppositeLevels, p, r) /\ r \in resting_order
  BY <1>2, <1>3, TakeFromFrontIn
<1>5. \A q, o : In(after, q, o) <=>
                   \/ InBut(OppositeLevels, p, r.sequence, q, o)
                   \/ executed # r.open_size /\ q = p /\ o = z
  BY <1>2, <1>3, TakeFromFrontIn
<1>6. OppositeLevels = books[s][d] /\ At(books, s, d, p, r)
  BY <1>2, <1>4 DEF OppositeLevels, At
<1> HIDE DEF r
<1>7. /\ executed \in Nat \ {0} /\ executed \in Quantity
      /\ r.key \in Keys /\ r.limit_price \in Price /\ r.open_size \in Quantity
  <2>1. r.key \in Keys /\ r.limit_price \in Price /\ r.open_size \in Quantity
    BY <1>4 DEF resting_order
  <2>2. /\ call.open_size \in Nat \ {0} /\ call.open_size < SizeModulus
        /\ r.open_size \in Nat \ {0} /\ r.open_size < SizeModulus
    BY <1>1, <1>2, <2>1, SizeModulusAssumption DEF Size, Quantity
  <2>3. executed \in {call.open_size, r.open_size}
    <3>1. \E x \in {call.open_size, r.open_size} :
             \A y \in {call.open_size, r.open_size} : x <= y
      BY <2>2
    <3> QED BY <3>1 DEF Min
  <2> HIDE DEF executed
  <2> QED BY <2>1, <2>2, <2>3, SizeModulusAssumption DEF Quantity
<1> HIDE DEF s, d, executed, after
<1>8. /\ z.key = r.key /\ z.sequence = r.sequence
      /\ z.open_size <= r.open_size
  <2>1. z.open_size = r.open_size - executed
    BY <1>4 DEF resting_order
  <2>2. r.open_size \in Nat
    BY <1>7, SizeModulusAssumption DEF Quantity
  <2>3. z.open_size <= r.open_size
    BY <1>7, <2>1, <2>2
  <2> QED BY <1>4, <2>3 DEF resting_order
<1> HIDE DEF z
<1>9. /\ call'.kind = call.kind /\ call'.key = call.key
      /\ call'.filled = IF executed = r.open_size
                        THEN call.filled \cup {r.key} ELSE call.filled
  BY <1>1, <1>2 DEF Call
<1>10. call' # NoCall
  BY <1>2, <1>9 DEF Call, NoCall
<1>11. NewKey'
  BY <1>1, <1>9 DEF NewKey
<1>12. Clean(events') /\ events' # <<>>
  <2>1. trade \in event
    BY <1>2, <1>7, TradeType
  <2>2. trade.type = "trade_executed"
    BY DEF trade_executed
  <2> HIDE DEF trade
  <2>3. <<trade>> \in Seq(event) /\ Clean(<<trade>>) /\ <<trade>> # <<>>
    BY <2>1, <2>2, CleanOne
  <2>4. events \in Seq(event)
    BY DEF IInv
  <2>5. Clean(events \o <<trade>>)
    BY <2>3, <2>4, CleanConcat
  <2>6. Append(events, trade) = events \o <<trade>>
    BY <2>1, <2>4
  <2>7. Append(events, trade) # <<>>
    BY <2>1, <2>4, AppendProperties
  <2> QED BY <1>1, <2>5, <2>6, <2>7
<1>13. CASE executed = r.open_size
  <2>1. \A q, o : In(after, q, o) <=>
                     InBut(books[s][d], p, r.sequence, q, o)
    BY <1>5, <1>6, <1>13
  <2>2. Removed(books, Stored(books, s, d, after), r)
    BY <1>2, <1>6, <2>1, StoredRemoved DEF Indexed
  <2>3. Removed(books, books', r)
    BY <1>1, <2>2
  <2>4. UniqueNodes(books') /\ Keeps(books, books')
    BY <1>2, <2>3, RemovedKeeps DEF Indexed
  <2>5. Agree(books', active_orders, Unsettled \cup {r.key})
    BY <1>6, <2>3, RemovedAgree DEF Indexed
  <2>6. Unsettled' = Unsettled \cup {r.key}
    BY <1>1, <1>9, <1>10, <1>13 DEF Unsettled
  <2> QED BY <1>1, <1>11, <1>12, <2>4, <2>5, <2>6 DEF Indexed
<1>14. CASE executed # r.open_size
  <2>1. \A q, o : In(after, q, o) <=>
                     InBut(books[s][d], p, r.sequence, q, o)
                     \/ (q = p /\ o = z)
    BY <1>5, <1>6, <1>14
  <2>2. Resized(books, Stored(books, s, d, after), s, d, p, r, z)
    BY <1>2, <1>6, <2>1, StoredResized DEF Indexed
  <2>3. Resized(books, books', s, d, p, r, z)
    BY <1>1, <2>2
  <2>4. UniqueNodes(books') /\ Keeps(books, books')
    BY <1>2, <1>6, <1>8, <2>3, ResizedKeeps DEF Indexed
  <2>5. Agree(books', active_orders, Unsettled)
    BY <1>6, <1>8, <2>3, ResizedAgree DEF Indexed
  <2>6. Unsettled' = Unsettled
    BY <1>1, <1>9, <1>10, <1>14 DEF Unsettled
  <2> QED BY <1>1, <1>11, <1>12, <2>4, <2>5, <2>6 DEF Indexed
<1> QED BY <1>13, <1>14

\* The end of a command: what is left of a limit order rests, under a number
\* no other order has.
LEMMA FinishOrders ==
    ASSUME IInv, Indexed, call # NoCall, ~ CanMatch, StoreOwnLevels
    PROVE  /\ UniqueNodes(books') /\ Keeps(books, books')
           /\ ~ Rests => Same(books, books')
           /\ Rests => Added(books, books', call.instrument, call.direction,
                             call.pricing,
                             [key |-> call.key, direction |-> call.direction,
                              limit_price |-> call.pricing,
                              open_size |-> call.open_size,
                              sequence |-> call.sequence])
<1> DEFINE s == call.instrument
           d == call.direction
           p == call.pricing
           r == [key |-> call.key, direction |-> call.direction,
                 limit_price |-> call.pricing, open_size |-> call.open_size,
                 sequence |-> call.sequence]
<1>1. /\ call.key \in Keys /\ s \in DOMAIN books /\ d \in Side
      /\ p \in Pricing /\ call.open_size \in Size
      /\ call.sequence \in Nat /\ call.sequence \in Sequence
      /\ GoodBooks(books, call.sequence)
      /\ GoodLevels(OwnLevels, d, call.sequence)
  BY CallFacts
<1>2. books' = Stored(books, s, d, OwnLevelsAfter)
  BY DEF StoreOwnLevels, Stored
<1>3. OwnLevels = books[s][d]
  BY DEF OwnLevels
<1>4. CASE ~ Rests
  <2>1. OwnLevelsAfter = books[s][d]
    BY <1>3, <1>4 DEF OwnLevelsAfter
  <2> HIDE DEF s, d
  <2>2. \A t, e, q, o :
           At(Stored(books, s, d, OwnLevelsAfter), t, e, q, o) <=>
              IF t = s /\ e = d THEN In(OwnLevelsAfter, q, o)
              ELSE At(books, t, e, q, o)
    BY <1>1, StoredAt
  <2>3. Same(books, books')
    BY <1>1, <1>2, <2>1, <2>2 DEF Same, At
  <2>4. UniqueNodes(books') /\ Keeps(books, books')
    BY <1>1, <2>3, SameKeeps DEF Indexed
  <2> QED BY <1>4, <2>3, <2>4
<1>5. CASE Rests
  <2>1. r \in resting_order
    <3>1. call.open_size \in Quantity /\ p \in Price
      BY <1>1, <1>5, SizeModulusAssumption
         DEF Rests, Size, Quantity, Pricing, Market
    <3> QED BY <1>1, <3>1 DEF resting_order
  <2>2. OwnLevelsAfter = rest_order(OwnLevels, r)
    BY <1>5 DEF OwnLevelsAfter
  <2>3. r.limit_price = p /\ r.sequence = call.sequence
    OBVIOUS
  <2> HIDE DEF s, d, p, r
  <2>4. \A q, o : In(rest_order(OwnLevels, r), q, o) <=>
                     In(OwnLevels, q, o) \/ (q = r.limit_price /\ o = r)
    BY <1>1, <2>1, RestOrderIn
  <2>5. \A q, o : In(OwnLevelsAfter, q, o) <=>
                     In(books[s][d], q, o) \/ (q = p /\ o = r)
    BY <1>3, <2>2, <2>3, <2>4
  <2>6. Added(books, Stored(books, s, d, OwnLevelsAfter), s, d, p, r)
    BY <1>1, <2>5, StoredAdded
  <2>7. Added(books, books', s, d, p, r)
    BY <1>2, <2>6
  <2>8. UniqueNodes(books') /\ Keeps(books, books')
    BY <1>1, <2>3, <2>7, AddedKeeps DEF Indexed
  <2> QED BY <1>5, <2>7, <2>8 DEF s, d, p, r
<1> QED BY <1>4, <1>5

\* The market data at the end of a command is clean.
LEMMA FinishClean ==
    ASSUME IInv, Clean(events), Answered, call # NoCall, ~ CanMatch,
           StoreOwnLevels,
           \/ events' = events \o OwnUpdate \o OppositeUpdate
           \/ events' = events \o OppositeUpdate \o OwnUpdate
    PROVE  Clean(events') /\ events' # <<>>
<1>1. OwnUpdate \in Seq(event) /\ OppositeUpdate \in Seq(event)
  BY FinishBooks
<1>2. Clean(OwnUpdate) /\ Clean(OppositeUpdate)
  BY CleanUpdate DEF OwnUpdate, OppositeUpdate
<1>3. events \in Seq(event)
  BY DEF IInv
<1>4. events # <<>>
  <2>1. call.instrument \in DOMAIN books
    BY CallFacts
  <2>2. DOMAIN EmptyMap = {}
    BY EmptyGood
  <2> QED BY <2>1, <2>2 DEF Answered
<1>5. /\ events \o OwnUpdate \in Seq(event) /\ Clean(events \o OwnUpdate)
      /\ events \o OwnUpdate # <<>>
  BY <1>1, <1>2, <1>3, <1>4, CleanConcat
<1>6. /\ events \o OppositeUpdate \in Seq(event)
      /\ Clean(events \o OppositeUpdate)
      /\ events \o OppositeUpdate # <<>>
  BY <1>1, <1>2, <1>3, <1>4, CleanConcat
<1>7. CASE events' = events \o OwnUpdate \o OppositeUpdate
  <2> DEFINE x == events \o OwnUpdate
  <2>1. events' = x \o OppositeUpdate
    BY <1>7
  <2>2. x \in Seq(event) /\ Clean(x) /\ x # <<>>
    BY <1>5
  <2> HIDE DEF x
  <2> QED BY <1>1, <1>2, <2>1, <2>2, CleanConcat
<1>8. CASE events' = events \o OppositeUpdate \o OwnUpdate
  <2> DEFINE x == events \o OppositeUpdate
  <2>1. events' = x \o OwnUpdate
    BY <1>8
  <2>2. x \in Seq(event) /\ Clean(x) /\ x # <<>>
    BY <1>6
  <2> HIDE DEF x
  <2> QED BY <1>1, <1>2, <2>1, <2>2, CleanConcat
<1> QED BY <1>7, <1>8

\* record_submit_result (engine.cpp:189) erases the filled orders and enters
\* the one that rests.
LEMMA FinishSubmitIndexed ==
    ASSUME IndexInv, FinishSubmit
    PROVE  /\ Indexed' /\ Keeps(books, books')
           /\ Clean(events') /\ events' # <<>>
<1> DEFINE kept == Erase(active_orders, call.filled)
           r == [key |-> call.key, direction |-> call.direction,
                 limit_price |-> call.pricing, open_size |-> call.open_size,
                 sequence |-> call.sequence]
<1>1. /\ call # NoCall /\ call.kind = "submit" /\ ~ CanMatch
      /\ StoreOwnLevels /\ call' = NoCall
      /\ \/ events' = events \o OwnUpdate \o OppositeUpdate
         \/ events' = events \o OppositeUpdate \o OwnUpdate
      /\ active_orders' = IF Rests THEN Emplace(kept, call.key, Handle)
                          ELSE kept
  BY DEF FinishSubmit, record_submit_result, NoCall
<1>2. IInv /\ Indexed /\ NewKey /\ Answered /\ Clean(events)
  BY DEF IndexInv
<1>3. Unsettled = call.filled /\ Unsettled' = {}
  BY <1>1 DEF Unsettled
<1>4. /\ DOMAIN kept = DOMAIN active_orders \ Unsettled
      /\ \A key \in DOMAIN kept : kept[key] = active_orders[key]
  BY <1>3 DEF Erase
<1>5. /\ UniqueNodes(books') /\ Keeps(books, books')
      /\ ~ Rests => Same(books, books')
      /\ Rests => Added(books, books', call.instrument, call.direction,
                        call.pricing, r)
  BY <1>1, <1>2, FinishOrders
<1>6. Clean(events') /\ events' # <<>>
  BY <1>1, <1>2, FinishClean
<1>7. Agree(books, active_orders, Unsettled)
  BY <1>2 DEF Indexed
<1>8. r.key = call.key /\ r.sequence = call.sequence
  OBVIOUS
<1> HIDE DEF kept, r
<1>9. CASE Rests
  <2>1. call.key \notin DOMAIN active_orders
    BY <1>1, <1>2 DEF NewKey
  <2>2. /\ DOMAIN active_orders' = (DOMAIN active_orders \ Unsettled)
                                   \cup {r.key}
        /\ active_orders'[r.key] =
              [instrument |-> call.instrument, direction |-> call.direction,
               limit_price |-> call.pricing, node |-> r.sequence]
        /\ \A key \in DOMAIN active_orders \ Unsettled :
              active_orders'[key] = active_orders[key]
    BY <1>1, <1>4, <1>8, <1>9, <2>1 DEF Emplace, Handle
  <2>3. r.key \notin DOMAIN active_orders \ Unsettled
    BY <1>8, <2>1
  <2>4. Agree(books', active_orders', {})
    BY <1>5, <1>7, <1>9, <2>2, <2>3, AddedAgree
  <2> QED BY <1>3, <1>5, <1>6, <2>4 DEF Indexed
<1>10. CASE ~ Rests
  <2>1. Agree(books', active_orders, Unsettled)
    BY <1>5, <1>7, <1>10, SameAgree
  <2>2. active_orders' = kept
    BY <1>1, <1>10
  <2>3. Agree(books', kept, {})
    BY <1>4, <2>1, SettledAgree
  <2> QED BY <1>3, <1>5, <1>6, <2>2, <2>3 DEF Indexed
<1> QED BY <1>9, <1>10

\* record_update_result (engine.cpp:208) erases the filled orders and assigns
\* the entry of the order that was replaced, or erases it.
LEMMA FinishReplaceIndexed ==
    ASSUME IndexInv, FinishReplace
    PROVE  /\ Indexed' /\ Keeps(books, books')
           /\ Clean(events') /\ events' # <<>>
<1> DEFINE kept == Erase(active_orders, call.filled)
           r == [key |-> call.key, direction |-> call.direction,
                 limit_price |-> call.pricing, open_size |-> call.open_size,
                 sequence |-> call.sequence]
<1>1. /\ call # NoCall /\ call.kind = "replace" /\ ~ CanMatch
      /\ StoreOwnLevels /\ call' = NoCall
      /\ events' = events \o OwnUpdate \o OppositeUpdate
      /\ active_orders' = IF Rests THEN Put(kept, call.key, Handle)
                          ELSE Erase(kept, {call.key})
  BY DEF FinishReplace, record_update_result, NoCall
<1>2. IInv /\ Indexed /\ Answered /\ Clean(events)
  BY DEF IndexInv
<1>3. Unsettled = call.filled \cup {call.key} /\ Unsettled' = {}
  BY <1>1 DEF Unsettled
<1>4. /\ DOMAIN kept = DOMAIN active_orders \ call.filled
      /\ \A key \in DOMAIN kept : kept[key] = active_orders[key]
  BY DEF Erase
<1>5. /\ UniqueNodes(books') /\ Keeps(books, books')
      /\ ~ Rests => Same(books, books')
      /\ Rests => Added(books, books', call.instrument, call.direction,
                        call.pricing, r)
  BY <1>1, <1>2, FinishOrders
<1>6. Clean(events') /\ events' # <<>>
  BY <1>1, <1>2, FinishClean
<1>7. Agree(books, active_orders, Unsettled)
  BY <1>2 DEF Indexed
<1>8. r.key = call.key /\ r.sequence = call.sequence
  OBVIOUS
<1> HIDE DEF kept, r
<1>9. CASE Rests
  <2>1. /\ DOMAIN active_orders' = (DOMAIN active_orders \ Unsettled)
                                   \cup {r.key}
        /\ active_orders'[r.key] =
              [instrument |-> call.instrument, direction |-> call.direction,
               limit_price |-> call.pricing, node |-> r.sequence]
        /\ \A key \in DOMAIN active_orders \ Unsettled :
              active_orders'[key] = active_orders[key]
    BY <1>1, <1>3, <1>4, <1>8, <1>9 DEF Put, Handle
  <2>2. r.key \notin DOMAIN active_orders \ Unsettled
    BY <1>3, <1>8
  <2>3. Agree(books', active_orders', {})
    BY <1>5, <1>7, <1>9, <2>1, <2>2, AddedAgree
  <2> QED BY <1>3, <1>5, <1>6, <2>3 DEF Indexed
<1>10. CASE ~ Rests
  <2>1. Agree(books', active_orders, Unsettled)
    BY <1>5, <1>7, <1>10, SameAgree
  <2>2. /\ DOMAIN active_orders' = DOMAIN active_orders \ Unsettled
        /\ \A key \in DOMAIN active_orders' :
              active_orders'[key] = active_orders[key]
    BY <1>1, <1>3, <1>4, <1>10 DEF Erase
  <2>3. Agree(books', active_orders', {})
    BY <2>1, <2>2, SettledAgree
  <2> QED BY <1>3, <1>5, <1>6, <2>3 DEF Indexed
<1> QED BY <1>9, <1>10

-----------------------------------------------------------------------------
(* The theorems.                                                           *)

\* Every step keeps the invariant, and every number its order.
LEMMA NextIndexInv ==
    ASSUME IndexInv, [Next]_vars
    PROVE  IndexInv' /\ Keeps(books, books')
<1>1. IInv /\ Indexed /\ NewKey /\ Answered /\ Clean(events)
  BY DEF IndexInv
<1>2. IInv'
  BY <1>1, NextIInv
<1> DEFINE Step == Indexed' /\ Keeps(books, books') /\ NewKey'
                   /\ Clean(events') /\ events' # <<>>
<1>3. CASE MatchFront
  <2>1. Step
    BY <1>1, <1>3, MatchFrontIndexed
  <2> QED BY <1>2, <2>1 DEF IndexInv, Answered
<1>4. CASE FinishSubmit
  <2>1. call' = NoCall
    BY <1>4 DEF FinishSubmit
  <2>2. Step
    BY <1>4, <2>1, FinishSubmitIndexed DEF NewKey
  <2> QED BY <1>2, <2>2 DEF IndexInv, Answered
<1>5. CASE FinishReplace
  <2>1. call' = NoCall
    BY <1>5 DEF FinishReplace
  <2>2. Step
    BY <1>5, <2>1, FinishReplaceIndexed DEF NewKey
  <2> QED BY <1>2, <2>2 DEF IndexInv, Answered
<1>6. ASSUME NEW key \in Keys, CancelRejected(key)
      PROVE  IndexInv' /\ Keeps(books, books')
  <2>1. call' = NoCall
    BY <1>6 DEF CancelRejected
  <2>2. Step
    BY <1>1, <1>6, <2>1, CancelRejectedIndexed DEF NewKey
  <2> QED BY <1>2, <2>2 DEF IndexInv, Answered
<1>7. ASSUME NEW key \in Keys, Cancel(key)
      PROVE  IndexInv' /\ Keeps(books, books')
  <2>1. call' = NoCall
    BY <1>7 DEF Cancel
  <2>2. Step
    BY <1>1, <1>7, <2>1, CancelIndexed DEF NewKey
  <2> QED BY <1>2, <2>2 DEF IndexInv, Answered
<1>8. ASSUME NEW key \in Keys, NEW instrument \in Symbols,
             SubmitRejected(key, instrument)
      PROVE  IndexInv' /\ Keeps(books, books')
  <2>1. call' = NoCall
    BY <1>8 DEF SubmitRejected
  <2>2. Step
    BY <1>1, <1>8, <2>1, SubmitRejectedIndexed DEF NewKey
  <2> QED BY <1>2, <2>2 DEF IndexInv, Answered
<1>9. ASSUME NEW key \in Keys, NEW instrument \in Symbols,
             NEW direction \in Side, NEW pricing \in Pricing,
             NEW size \in Quantity,
             SubmitBegin(key, instrument, direction, pricing, size)
      PROVE  IndexInv' /\ Keeps(books, books')
  <2>1. Step
    BY <1>1, <1>9, SubmitBeginIndexed
  <2> QED BY <1>2, <2>1 DEF IndexInv, Answered
<1>10. ASSUME NEW key \in Keys, NEW pricing \in Pricing,
              UpdateRejected(key, pricing)
       PROVE  IndexInv' /\ Keeps(books, books')
  <2>1. call' = NoCall
    BY <1>10 DEF UpdateRejected
  <2>2. Step
    BY <1>1, <1>10, <2>1, UpdateRejectedIndexed DEF NewKey
  <2> QED BY <1>2, <2>2 DEF IndexInv, Answered
<1>11. ASSUME NEW key \in Keys, NEW pricing \in Price, NEW size \in Quantity,
              UpdateReduce(key, pricing, size)
       PROVE  IndexInv' /\ Keeps(books, books')
  <2>1. call' = NoCall
    BY <1>11 DEF UpdateReduce
  <2>2. Step
    BY <1>1, <1>11, <2>1, UpdateReduceIndexed DEF NewKey
  <2> QED BY <1>2, <2>2 DEF IndexInv, Answered
<1>12. ASSUME NEW key \in Keys, NEW pricing \in Price, NEW size \in Quantity,
              ReplaceBegin(key, pricing, size)
       PROVE  IndexInv' /\ Keeps(books, books')
  <2>1. Step
    BY <1>1, <1>12, ReplaceBeginIndexed
  <2> QED BY <1>2, <2>1 DEF IndexInv, Answered
<1>13. CASE UNCHANGED vars
  <2>1. /\ books' = books /\ active_orders' = active_orders /\ call' = call
        /\ events' = events
    BY <1>13 DEF vars
  <2>2. Indexed' /\ Keeps(books, books')
    BY <1>1, <2>1, QuietIndexed
  <2>3. NewKey' /\ Answered' /\ Clean(events')
    BY <1>1, <2>1 DEF NewKey, Answered
  <2> QED BY <1>2, <2>2, <2>3 DEF IndexInv
<1> QED
  BY <1>3, <1>4, <1>5, <1>6, <1>7, <1>8, <1>9, <1>10, <1>11, <1>12, <1>13
     DEF Next

\* The invariant of the index holds in every reachable state.
THEOREM IndexInductive == Spec => []IndexInv
BY InitIndexInv, NextIndexInv, PTL DEF Spec

\* No handle of active_orders_ dangles outside of the command in progress, so
\* that no update or cancel dereferences an iterator to an erased node
\* (order_book.cpp:296, 333, 363).
THEOREM NoDanglingHandle == Spec => []HandlesValid
BY IndexInductive, IndexInvImplies, PTL

\* Every order in a book is active, under the handle of its node: none trades
\* that cannot be cancelled (record_submit_result and record_update_result,
\* engine.cpp:189 and 208).
THEOREM EveryOrderIndexed == Spec => []RestingOrdersIndexed
BY IndexInductive, IndexInvImplies, PTL

\* The answers the code keeps for a corrupted index are never given
\* (engine.cpp:47, 53, 73 and order_book.cpp:228).
THEOREM NeverCorrupt == Spec => []IndexNeverCorrupt
BY IndexInductive, IndexInvImplies, PTL

\* An order that keeps its number keeps its book, side, price and key, and
\* never grows: priority is not gained by an update (order_book.cpp:161, 190).
THEOREM PriorityNotGained == Spec => PriorityEarned
<1> DEFINE Step ==
       \A instrument \in DOMAIN books : \A direction \in Side :
         \A p \in DOMAIN books[instrument][direction] :
           LET orders == books[instrument][direction][p].orders
           IN  \A i \in DOMAIN orders :
                 \A s \in DOMAIN books' : \A d \in Side :
                   \A q \in DOMAIN books'[s][d] :
                     \A j \in DOMAIN books'[s][d][q].orders :
                       LET after == books'[s][d][q].orders[j]
                       IN  orders[i].sequence = after.sequence =>
                             /\ <<s, d, q>> = <<instrument, direction, p>>
                             /\ after.key = orders[i].key
                             /\ after.open_size <= orders[i].open_size
<1>1. ASSUME IndexInv, [Next]_vars PROVE Step
  <2>1. Keeps(books, books')
    BY <1>1, NextIndexInv
  <2> SUFFICES ASSUME NEW t \in DOMAIN books, NEW e \in Side,
                      NEW p \in DOMAIN books[t][e],
                      NEW i \in DOMAIN books[t][e][p].orders,
                      NEW s \in DOMAIN books', NEW d \in Side,
                      NEW q \in DOMAIN books'[s][d],
                      NEW j \in DOMAIN books'[s][d][q].orders,
                      books[t][e][p].orders[i].sequence =
                          books'[s][d][q].orders[j].sequence
               PROVE  /\ <<s, d, q>> = <<t, e, p>>
                      /\ books'[s][d][q].orders[j].key =
                            books[t][e][p].orders[i].key
                      /\ books'[s][d][q].orders[j].open_size <=
                            books[t][e][p].orders[i].open_size
    OBVIOUS
  <2> DEFINE o == books[t][e][p].orders[i]
             z == books'[s][d][q].orders[j]
  <2>2. At(books, t, e, p, o) /\ At(books', s, d, q, z)
    BY DEF At, In, ToSet
  <2>3. o.sequence = z.sequence
    OBVIOUS
  <2> HIDE DEF o, z
  <2>4. s = t /\ d = e /\ q = p /\ z.key = o.key /\ z.open_size <= o.open_size
    BY <2>1, <2>2, <2>3 DEF Keeps
  <2> QED BY <2>4 DEF o, z
<1>2. Step => [Step]_vars
  OBVIOUS
<1> HIDE DEF Step
<1>3. Spec => [][Step]_vars
  BY <1>1, <1>2, IndexInductive, PTL DEF Spec
<1> QED BY <1>3 DEF PriorityEarned, Step

=============================================================================
