--------------------------- MODULE ExchangeProofs ---------------------------
(***************************************************************************)
(* Machine-checked theorems about module Exchange, for every set of        *)
(* accounts, prices and requests and every market configuration.           *)
(***************************************************************************)
EXTENDS Exchange, WellFoundedInduction, TLAPS

-----------------------------------------------------------------------------
(* Arithmetic *)

\* Division rounds down.
LEMMA DivFloor ==
  ASSUME NEW a \in Nat, NEW d \in Nat \ {0}
  PROVE  /\ a \div d \in Nat
         /\ (a \div d) * d <= a
         /\ a < (a \div d) * d + d
         /\ a % d = a - (a \div d) * d
         /\ a % d \in Nat /\ a % d <= a /\ a % d < d
  OBVIOUS

LEMMA ProductNat ==
  ASSUME NEW a \in Nat, NEW b \in Nat
  PROVE  a * b \in Nat
  OBVIOUS

\* Dividing what fits under q * d leaves at most q.
LEMMA DivUpper ==
  ASSUME NEW a \in Nat, NEW d \in Nat \ {0}, NEW q \in Nat, a <= q * d
  PROVE  a \div d <= q
  OBVIOUS

LEMMA MulDivType ==
  ASSUME NEW a \in Nat, NEW b \in Nat, NEW d \in Nat \ {0}
  PROVE  MulDivFloor(a, b, d) \in Nat /\ MulDivCeil(a, b, d) \in Nat
  BY ProductNat, DivFloor DEF MulDivFloor, MulDivCeil

LEMMA RoundToStepType ==
  ASSUME NEW q \in Nat
  PROVE  RoundToStep(q) \in Nat
<1>1. q % QuantityStep \in Nat /\ q % QuantityStep <= q
  BY DivFloor, AmountsAssumption
<1> QED
  BY <1>1 DEF RoundToStep

LEMMA AmountTypes ==
  ASSUME NEW p \in Nat, NEW q \in Nat
  PROVE  /\ QuoteAmountFloor(p, q) \in Nat
         /\ QuoteAmountCeil(p, q) \in Nat
  BY MulDivType, AmountsAssumption DEF QuoteAmountFloor, QuoteAmountCeil

LEMMA PriceNat ==
  \A p \in Prices : p \in Nat \ {0}
  BY ExchangeAssumption, AmountsAssumption

\* Settling for what a budget affords never costs more than the budget, even
\* when the quantity is cut to what the maker has left.
LEMMA AffordableWithinBudget ==
  ASSUME NEW b \in Nat, NEW p \in Nat \ {0}, NEW q \in Nat,
         q <= AffordableQuantity(b, p)
  PROVE  /\ AffordableQuantity(b, p) \in Nat
         /\ QuoteAmountFloor(p, q) <= b
<1>1. PICK x \in Nat : x = (b * BaseScale) \div p
  BY Zenon, ProductNat, DivFloor, AmountsAssumption
<1>2. x * p <= b * BaseScale
  BY <1>1, ProductNat, DivFloor, AmountsAssumption
<1>3. /\ AffordableQuantity(b, p) = x - (x % QuantityStep)
      /\ x % QuantityStep \in Nat /\ x % QuantityStep <= x
  <2>1. x % QuantityStep \in Nat /\ x % QuantityStep <= x
    BY Zenon, DivFloor, AmountsAssumption
  <2> QED
    BY <1>1, <2>1 DEF AffordableQuantity, RoundToStep, MulDivFloor
<1>4. q <= x
  BY <1>3
<1>5. p * q <= x * p
  BY <1>4
<1>6. p * q \in Nat /\ p * q <= b * BaseScale
  BY <1>2, <1>5, ProductNat, AmountsAssumption
<1>7. (p * q) \div BaseScale <= b
  BY <1>6, DivUpper, AmountsAssumption
<1> QED
  BY <1>3, <1>7 DEF QuoteAmountFloor, MulDivFloor

-----------------------------------------------------------------------------
(* Queues and the book *)

LEMMA WithoutQueue ==
  ASSUME NEW queue \in Seq(OrderIds), NEW n \in 1..Len(queue),
         \A j \in 1..Len(queue) : queue[j] = queue[n] => j = n
  PROVE  LET rest == Without(queue, queue[n])
         IN /\ rest \in Seq(OrderIds)
            /\ Len(rest) = Len(queue) - 1
            /\ \A j \in 1..Len(rest) :
                 rest[j] = IF j < n THEN queue[j] ELSE queue[j + 1]
<1> DEFINE First(i) == /\ queue[i] = queue[n]
                       /\ \A j \in 1..(i - 1) : queue[j] # queue[n]
           m == CHOOSE i \in 1..Len(queue) : First(i)
           rest == [j \in 1..(Len(queue) - 1) |->
                      IF j < n THEN queue[j] ELSE queue[j + 1]]
<1>1. First(n)
  OBVIOUS
<1>2. m \in 1..Len(queue) /\ First(m)
  BY <1>1
<1>3. m = n
  BY <1>2
<1>4. Without(queue, queue[n]) = rest
  BY <1>3 DEF Without
<1>5. rest \in Seq(OrderIds) /\ Len(rest) = Len(queue) - 1
  OBVIOUS
<1> QED
  BY <1>4, <1>5

LEMMA AppendId ==
  ASSUME NEW q \in Seq(OrderIds), NEW id \in OrderIds
  PROVE  /\ Append(q, id) \in Seq(OrderIds)
         /\ Len(Append(q, id)) = Len(q) + 1
         /\ \A j \in 1..Len(q) : Append(q, id)[j] = q[j]
         /\ Append(q, id)[Len(q) + 1] = id
OBVIOUS

\* A state with its book queues in order: what the book operations preserve.
SoundBook(s) == s \in State /\ QueuesSound(s)

\* How a book operation takes s to t: no price level appears, one entry of
\* the index changes, and nothing outside the book does.
NoNewLevels(s, t) ==
  \A side \in Sides : LevelPrices(t, side) \subseteq LevelPrices(s, side)
Reindexed(s, t, id, entry) ==
  \A k \in OrderIds : t.index[k] = IF k = id THEN entry ELSE s.index[k]
SameOutside(s, t) == /\ t.orders = s.orders /\ t.sequence = s.sequence
                     /\ t.ledger = s.ledger /\ t.trades = s.trades

Removed(s, t, sd, pr, n, id) ==
  id = s.levels[sd][pr][n] /\ t = BookRemove(s, id, s.index[id])
Added(s, t, id, order) == t = BookAdd(s, id, order)

\* What a queue entry of a sound book is.
LEMMA EntryFacts ==
  ASSUME NEW s, SoundBook(s), NEW side \in Sides, NEW p \in Prices,
         NEW i \in 1..Len(s.levels[side][p])
  PROVE  /\ s.levels[side][p][i] \in OrderIds
         /\ EntrySound(s.levels, s.index, side, p, i)
<1>1. s.levels[side][p] \in Seq(OrderIds)
  BY DEF SoundBook, State
<1>2. s.levels[side][p][i] \in OrderIds
  BY <1>1
<1>3. EntrySound(s.levels, s.index, side, p, i)
  BY DEF SoundBook, QueuesSound
<1> QED
  BY <1>2, <1>3

\* Replacing the book's copy of a resting order by one of the same side and
\* price that is still open leaves the queues sound.
LEMMA IndexUpdateSound ==
  ASSUME NEW s, SoundBook(s), NEW id \in OrderIds, NEW order \in Order,
         s.index[id] # None,
         order.side = s.index[id].side, order.price = s.index[id].price,
         order.status \in OpenStatuses, order.remaining > 0
  PROVE  SoundBook([s EXCEPT !.index[id] = order])
<1> DEFINE t == [s EXCEPT !.index[id] = order]
<1>1. t \in State /\ t.levels = s.levels
  BY Zenon DEF SoundBook, State
<1>2. ASSUME NEW k \in OrderIds
      PROVE t.index[k] = IF k = id THEN order ELSE s.index[k]
  BY DEF SoundBook, State
<1>3. order # None
  BY ExchangeAssumption
<1>4. QueuesSound(t)
  <2> SUFFICES ASSUME NEW side \in Sides, NEW p \in Prices,
                      NEW i \in 1..Len(t.levels[side][p])
               PROVE  EntrySound(t.levels, t.index, side, p, i)
    BY DEF QueuesSound
  <2> DEFINE k == s.levels[side][p][i]
  <2>1. /\ k \in OrderIds
        /\ s.index[k] # None
        /\ s.index[k].side = side /\ s.index[k].price = p
        /\ s.index[k].status \in OpenStatuses /\ s.index[k].remaining > 0
        /\ \A j \in 1..Len(s.levels[side][p]) :
                              s.levels[side][p][j] = k => j = i
    <3>1. i \in 1..Len(s.levels[side][p])
      BY Zenon, <1>1
    <3>2. k \in OrderIds /\ EntrySound(s.levels, s.index, side, p, i)
      BY Zenon, <3>1, EntryFacts
    <3> QED
      BY Zenon, <3>2 DEF EntrySound
  <2> QED
    BY Zenon, <2>1, <1>1, <1>2, <1>3 DEF EntrySound
<1> QED
  BY <1>1, <1>4 DEF SoundBook

\* An entry stays sound when its queue moves and its index entry stays.
LEMMA EntryMoved ==
  ASSUME NEW s, NEW t, NEW side, NEW p, NEW m, NEW i,
         EntrySound(s.levels, s.index, side, p, m),
         t.levels[side][p][i] = s.levels[side][p][m],
         t.index[s.levels[side][p][m]] = s.index[s.levels[side][p][m]],
         \A j \in 1..Len(t.levels[side][p]) :
           t.levels[side][p][j] = t.levels[side][p][i] => j = i
  PROVE  EntrySound(t.levels, t.index, side, p, i)
<1> DEFINE k == s.levels[side][p][m]
<1>1. /\ s.index[k] # None /\ s.index[k].side = side /\ s.index[k].price = p
      /\ s.index[k].status \in OpenStatuses /\ s.index[k].remaining > 0
  BY Zenon DEF EntrySound
<1>2. t.levels[side][p][i] = k /\ t.index[k] = s.index[k]
  OBVIOUS
<1> HIDE DEF k
<1> QED
  BY <1>1, <1>2 DEF EntrySound

\* Taking a resting order off the book leaves the other queue entries sound
\* and opens no price level.
LEMMA RemoveSound ==
  ASSUME NEW s, SoundBook(s), NEW sd \in Sides, NEW pr \in Prices,
         NEW n \in 1..Len(s.levels[sd][pr]),
         NEW id, NEW t, Removed(s, t, sd, pr, n, id)
  PROVE  /\ SoundBook(t) /\ SameOutside(s, t)
         /\ Reindexed(s, t, id, None) /\ NoNewLevels(s, t)
<1> DEFINE q == s.levels[sd][pr]
           rest == Without(q, id)
           From(j) == IF j < n THEN j ELSE j + 1
<1>1. s \in State /\ q \in Seq(OrderIds) /\ id = q[n]
  BY DEF SoundBook, State, Removed
<1>2. /\ id \in OrderIds /\ s.index[id] # None
      /\ s.index[id].side = sd /\ s.index[id].price = pr
      /\ \A j \in 1..Len(q) : q[j] = id => j = n
  <2>1. q[n] \in OrderIds /\ EntrySound(s.levels, s.index, sd, pr, n)
    BY EntryFacts
  <2> QED
    BY Zenon, <2>1, <1>1 DEF EntrySound
<1>3. t = [s EXCEPT !.levels[sd][pr] = rest, !.index[id] = None]
  BY <1>2 DEF Removed, BookRemove
<1>4. n \in 1..Len(q)
  OBVIOUS
<1> HIDE DEF q
<1>5. /\ rest \in Seq(OrderIds) /\ Len(rest) = Len(q) - 1 /\ Len(q) \in Nat
      /\ \A j \in 1..Len(rest) : rest[j] = q[From(j)]
  <2>1. \A j \in 1..Len(q) : q[j] = q[n] => j = n
    BY <1>1, <1>2
  <2>2. /\ Without(q, q[n]) \in Seq(OrderIds)
        /\ Len(Without(q, q[n])) = Len(q) - 1
        /\ \A j \in 1..Len(Without(q, q[n])) :
             Without(q, q[n])[j] = IF j < n THEN q[j] ELSE q[j + 1]
    BY <1>1, <1>4, <2>1, WithoutQueue
  <2>3. rest = Without(q, q[n])
    BY <1>1
  <2> HIDE DEF rest
  <2> QED
    BY <1>1, <2>2, <2>3
<1> HIDE DEF rest
<1>6. \A j \in 1..Len(rest) : From(j) \in 1..Len(q) /\ From(j) # n
  BY <1>4, <1>5
<1>7. \A i, j \in 1..Len(rest) : From(i) = From(j) => i = j
  BY <1>4, <1>5
<1>8. /\ t \in State /\ SameOutside(s, t) /\ Reindexed(s, t, id, None)
      /\ \A side \in Sides, p \in Prices :
           t.levels[side][p] = IF side = sd /\ p = pr THEN rest
                                                      ELSE s.levels[side][p]
  <2> DEFINE L == [s.levels EXCEPT ![sd][pr] = rest]
             X == [s.index EXCEPT ![id] = None]
  <2>1. /\ L \in [Sides -> [Prices -> Seq(OrderIds)]]
        /\ \A side \in Sides, p \in Prices :
             L[side][p] = IF side = sd /\ p = pr THEN rest
                                                 ELSE s.levels[side][p]
    BY <1>1, <1>5 DEF State
  <2>2. /\ X \in [OrderIds -> Order \cup {None}]
        /\ \A k \in OrderIds : X[k] = IF k = id THEN None ELSE s.index[k]
    BY <1>1, <1>2 DEF State
  <2>3. t = [s EXCEPT !.levels = L, !.index = X]
    BY <1>3
  <2> HIDE DEF L, X
  <2>4. /\ t \in State /\ t.index = X /\ t.levels = L
        /\ t.orders = s.orders /\ t.sequence = s.sequence
        /\ t.ledger = s.ledger /\ t.trades = s.trades
    BY Zenon, <1>1, <2>1, <2>2, <2>3 DEF State
  <2> QED
    BY <2>1, <2>2, <2>4 DEF SameOutside, Reindexed
<1>9. ASSUME NEW side \in Sides, NEW p \in Prices,
             NEW i \in 1..Len(t.levels[side][p])
      PROVE  /\ EntrySound(t.levels, t.index, side, p, i)
             /\ \E m \in 1..Len(s.levels[side][p]) : TRUE
  <2>1. CASE side = sd /\ p = pr
    <3>1. t.levels[side][p] = rest /\ s.levels[side][p] = q
      BY <2>1, <1>8 DEF q
    <3> DEFINE m == From(i)
    <3>2. m \in 1..Len(q) /\ m # n /\ rest[i] = q[m]
      BY <3>1, <1>5, <1>6
    <3>3. \A j \in 1..Len(rest) : rest[j] = rest[i] => j = i
      <4> SUFFICES ASSUME NEW j \in 1..Len(rest), rest[j] = rest[i]
                   PROVE  j = i
        OBVIOUS
      <4>1. q[From(j)] = q[m] /\ From(j) \in 1..Len(q)
        BY <3>2, <1>5, <1>6
      <4>2. EntrySound(s.levels, s.index, side, p, m)
        BY <3>1, <3>2, EntryFacts
      <4> HIDE DEF m
      <4>3. From(j) = m
        BY <4>1, <4>2, <3>1 DEF EntrySound
      <4> QED
        BY <4>3, <3>1, <1>7 DEF m
    <3> HIDE DEF m
    <3>4. q[m] \in OrderIds /\ q[m] # id
      BY <3>2, <1>1, <1>2
    <3>5. t.index[q[m]] = s.index[q[m]]
      BY <3>4, <1>8 DEF Reindexed
    <3>6. EntrySound(s.levels, s.index, side, p, m)
      BY <3>1, <3>2, EntryFacts
    <3> QED
      BY Zenon, <3>1, <3>2, <3>3, <3>5, <3>6, EntryMoved
  <2>2. CASE ~(side = sd /\ p = pr)
    <3>1. t.levels[side][p] = s.levels[side][p]
      BY <2>2, <1>8
    <3>2. /\ s.levels[side][p][i] \in OrderIds
          /\ EntrySound(s.levels, s.index, side, p, i)
      BY <3>1, EntryFacts
    <3>3. s.levels[side][p][i] # id
      BY <2>2, <3>2, <1>2 DEF EntrySound
    <3>4. t.index[s.levels[side][p][i]] = s.index[s.levels[side][p][i]]
      BY <3>2, <3>3, <1>8 DEF Reindexed
    <3>5. \A j \in 1..Len(t.levels[side][p]) :
            t.levels[side][p][j] = t.levels[side][p][i] => j = i
      BY Zenon, <3>1, <3>2 DEF EntrySound
    <3> QED
      BY Zenon, <3>1, <3>2, <3>4, <3>5, EntryMoved
  <2> QED
    BY <2>1, <2>2
<1>10. QueuesSound(t)
  BY <1>9 DEF QueuesSound
<1>11. NoNewLevels(s, t)
  <2> SUFFICES ASSUME NEW side \in Sides, NEW p \in Prices,
                      t.levels[side][p] # <<>>
               PROVE  s.levels[side][p] # <<>>
    BY DEF NoNewLevels, LevelPrices
  <2>1. t.levels[side][p] \in Seq(OrderIds) /\ s.levels[side][p] \in Seq(OrderIds)
    BY <1>8, <1>1 DEF State
  <2>2. 1 \in 1..Len(t.levels[side][p])
    BY <2>1
  <2>3. PICK m \in 1..Len(s.levels[side][p]) : TRUE
    BY <2>2, <1>9
  <2> QED
    BY <2>1, <2>3
<1> QED
  BY <1>8, <1>10, <1>11 DEF SoundBook

\* Adding an order the index does not know appends it to one queue.
LEMMA AddSound ==
  ASSUME NEW s, SoundBook(s), NEW id \in OrderIds, s.index[id] = None,
         NEW order \in Order, order.price \in Prices,
         order.status \in OpenStatuses, order.remaining > 0,
         NEW t, Added(s, t, id, order)
  PROVE  /\ SoundBook(t) /\ SameOutside(s, t) /\ Reindexed(s, t, id, order)
         /\ LevelPrices(t, order.side) \subseteq
              LevelPrices(s, order.side) \cup {order.price}
         /\ LevelPrices(t, Opposite(order.side)) =
              LevelPrices(s, Opposite(order.side))
<1> DEFINE sd == order.side
           pr == order.price
           q == s.levels[sd][pr]
           longer == Append(q, id)
<1>1. /\ s \in State /\ sd \in Sides /\ pr \in Prices /\ q \in Seq(OrderIds)
      /\ order # None
  <2>1. s \in State /\ sd \in Sides /\ order # None
    BY ExchangeAssumption DEF SoundBook, Order
  <2> QED
    BY <2>1 DEF State
<1>2. t = [s EXCEPT !.levels[sd][pr] = longer, !.index[id] = order]
  BY DEF Added, BookAdd
<1> HIDE DEF q
<1>3. /\ longer \in Seq(OrderIds) /\ Len(longer) = Len(q) + 1 /\ Len(q) \in Nat
      /\ \A j \in 1..Len(q) : longer[j] = q[j]
      /\ longer[Len(q) + 1] = id
  BY <1>1, AppendId
<1> HIDE DEF longer
<1>4. /\ t \in State /\ SameOutside(s, t) /\ Reindexed(s, t, id, order)
      /\ \A side \in Sides, p \in Prices :
           t.levels[side][p] = IF side = sd /\ p = pr THEN longer
                                                      ELSE s.levels[side][p]
  <2> DEFINE L == [s.levels EXCEPT ![sd][pr] = longer]
             X == [s.index EXCEPT ![id] = order]
  <2>1. /\ L \in [Sides -> [Prices -> Seq(OrderIds)]]
        /\ \A side \in Sides, p \in Prices :
             L[side][p] = IF side = sd /\ p = pr THEN longer
                                                 ELSE s.levels[side][p]
    BY <1>1, <1>3 DEF State
  <2>2. /\ X \in [OrderIds -> Order \cup {None}]
        /\ \A k \in OrderIds : X[k] = IF k = id THEN order ELSE s.index[k]
    BY <1>1 DEF State
  <2>3. t = [s EXCEPT !.levels = L, !.index = X]
    BY <1>2
  <2> HIDE DEF L, X
  <2>4. /\ t \in State /\ t.index = X /\ t.levels = L
        /\ t.orders = s.orders /\ t.sequence = s.sequence
        /\ t.ledger = s.ledger /\ t.trades = s.trades
    BY Zenon, <1>1, <2>1, <2>2, <2>3 DEF State
  <2> QED
    BY <2>1, <2>2, <2>4 DEF SameOutside, Reindexed
<1>5. ASSUME NEW side \in Sides, NEW p \in Prices,
             NEW i \in 1..Len(s.levels[side][p])
      PROVE  /\ EntrySound(s.levels, s.index, side, p, i)
             /\ s.levels[side][p][i] # id
             /\ t.index[s.levels[side][p][i]] = s.index[s.levels[side][p][i]]
  <2>1. /\ s.levels[side][p][i] \in OrderIds
        /\ EntrySound(s.levels, s.index, side, p, i)
    BY EntryFacts
  <2>2. s.levels[side][p][i] # id
    BY <2>1 DEF EntrySound
  <2> QED
    BY <2>1, <2>2, <1>4 DEF Reindexed
<1>6. ASSUME NEW side \in Sides, NEW p \in Prices,
             NEW i \in 1..Len(t.levels[side][p])
      PROVE  EntrySound(t.levels, t.index, side, p, i)
  <2>1. CASE side = sd /\ p = pr
    <3>1. t.levels[side][p] = longer /\ s.levels[side][p] = q
      BY <2>1, <1>4 DEF q
    <3>2. \A j \in 1..Len(q) : q[j] # id
      BY <3>1, <1>5
    <3>3. CASE i = Len(q) + 1
      <4>1. t.levels[side][p][i] = id /\ t.index[id] = order
        BY <3>1, <3>3, <1>3, <1>4 DEF Reindexed
      <4>2. \A j \in 1..Len(longer) : longer[j] = id => j = i
        BY <3>2, <3>3, <1>3
      <4> QED
        BY <4>1, <4>2, <3>1, <2>1, <1>1 DEF EntrySound
    <3>4. CASE i \in 1..Len(q)
      <4>1. EntrySound(s.levels, s.index, side, p, i)
        BY <3>1, <3>4, <1>5
      <4>2. longer[i] = q[i] /\ q[i] # id
        BY <3>2, <3>4, <1>3
      <4>3. \A j \in 1..Len(q) : q[j] = q[i] => j = i
        BY <4>1, <3>1 DEF EntrySound
      <4>4. \A j \in 1..Len(longer) : longer[j] = longer[i] => j = i
        BY <4>2, <4>3, <3>4, <1>3
      <4>5. t.index[q[i]] = s.index[q[i]]
        BY <3>1, <3>4, <1>5
      <4> QED
        BY <4>1, <4>2, <4>4, <4>5, <3>1, EntryMoved
    <3> QED
      BY <3>1, <3>3, <3>4, <1>3
  <2>2. CASE ~(side = sd /\ p = pr)
    <3>1. t.levels[side][p] = s.levels[side][p]
      BY <2>2, <1>4
    <3>2. /\ EntrySound(s.levels, s.index, side, p, i)
          /\ t.index[s.levels[side][p][i]] = s.index[s.levels[side][p][i]]
      BY <3>1, <1>5
    <3>3. \A j \in 1..Len(t.levels[side][p]) :
            t.levels[side][p][j] = t.levels[side][p][i] => j = i
      BY Zenon, <3>1, <3>2 DEF EntrySound
    <3> QED
      BY Zenon, <3>1, <3>2, <3>3, EntryMoved
  <2> QED
    BY <2>1, <2>2
<1>7. QueuesSound(t)
  BY <1>6 DEF QueuesSound
<1>8. /\ LevelPrices(t, sd) \subseteq LevelPrices(s, sd) \cup {pr}
      /\ LevelPrices(t, Opposite(sd)) = LevelPrices(s, Opposite(sd))
  BY <1>4, <1>1 DEF LevelPrices, Opposite, Sides
<1> QED
  BY <1>4, <1>7, <1>8 DEF SoundBook

\* A state with the same queues and the same book index is as sound.
LEMMA SameBookSound ==
  ASSUME NEW s, SoundBook(s), NEW t \in State,
         t.levels = s.levels, t.index = s.index
  PROVE  /\ SoundBook(t)
         /\ \A side : LevelPrices(t, side) = LevelPrices(s, side)
<1>1. QueuesSound(t)
  BY DEF SoundBook, QueuesSound
<1>2. \A side : LevelPrices(t, side) = LevelPrices(s, side)
  BY DEF LevelPrices
<1> QED
  BY <1>1, <1>2 DEF SoundBook

\* A nonempty set of prices has a least and a greatest element.
LEMMA MinExists ==
  ASSUME NEW M \in Nat, NEW S \in SUBSET (1..M), S # {}
  PROVE  \E x \in S : \A y \in S : ~(y < x)
<1>1. S \subseteq Nat
  OBVIOUS
<1>2. PICK x \in S : \A y \in S : <<y, x>> \notin OpToRel(<, Nat)
  BY Zenon, <1>1, NatLessThanWellFounded, WFMin
<1> QED
  BY Zenon, <1>1, <1>2 DEF OpToRel

LEMMA MaxExists ==
  ASSUME NEW M \in Nat, NEW S \in SUBSET (1..M), S # {}
  PROVE  \E x \in S : \A y \in S : ~(y > x)
<1> DEFINE T == {(M + 1) - x : x \in S}
<1>1. T \in SUBSET (1..M) /\ T # {}
  <2>1. \A x \in S : (M + 1) - x \in 1..M
    OBVIOUS
  <2>2. T \in SUBSET (1..M)
    BY <2>1
  <2>3. PICK x \in S : TRUE
    BY Zenon
  <2>4. (M + 1) - x \in T
    BY <2>3
  <2> QED
    BY <2>2, <2>4
<1>2. PICK z \in T : \A y \in T : ~(y < z)
  <2> HIDE DEF T
  <2> QED
    BY Zenon, <1>1, MinExists
<1>3. PICK x \in S : z = (M + 1) - x
  OBVIOUS
<1>4. \A y \in S : ~(y > x)
  BY <1>2, <1>3
<1> QED
  BY <1>3, <1>4

\* The order facing an incoming one: it rests at the best opposing price.
LEMMA BestOpposingRests ==
  ASSUME NEW s, SoundBook(s), NEW side \in Sides,
         LevelPrices(s, Opposite(side)) # {}
  PROVE  LET sd == Opposite(side)
             pr == BestPrice(s, sd)
             id == bestOpposing(s, side)
         IN /\ sd \in Sides /\ pr \in LevelPrices(s, sd) /\ pr \in Prices
            /\ \A p \in LevelPrices(s, sd) : ~Better(sd, p, pr)
            /\ 1 \in 1..Len(s.levels[sd][pr])
            /\ id = s.levels[sd][pr][1]
            /\ id \in OrderIds /\ s.index[id] \in Order
            /\ s.index[id].side = sd /\ s.index[id].price = pr
            /\ s.index[id].status \in OpenStatuses
            /\ s.index[id].remaining > 0
<1> DEFINE sd == Opposite(side)
           P == LevelPrices(s, sd)
           pr == BestPrice(s, sd)
<1>1. sd \in Sides /\ P \subseteq Prices /\ P # {} /\ P \subseteq 1..MaxInt64
  BY Zenon, ExchangeAssumption DEF Opposite, Sides, LevelPrices
<1>2. \E p \in P : \A q \in P : ~Better(sd, q, p)
  <2> HIDE DEF P, sd
  <2>1. P \in SUBSET (1..MaxInt64) /\ MaxInt64 \in Nat
    BY <1>1, AmountsAssumption
  <2>2. /\ \E p \in P : \A q \in P : ~(q < p)
        /\ \E p \in P : \A q \in P : ~(q > p)
    BY Zenon, <1>1, <2>1, MinExists, MaxExists
  <2> QED
    BY <2>2 DEF Better
<1>3. pr \in P /\ \A q \in P : ~Better(sd, q, pr)
  BY <1>2 DEF BestPrice
<1>4. pr \in Prices /\ s.levels[sd][pr] # <<>>
  BY <1>3, <1>1 DEF LevelPrices
<1> DEFINE queue == s.levels[sd][pr]
<1>5. queue \in Seq(OrderIds)
  BY <1>4, <1>1 DEF SoundBook, State
<1>6. bestOpposing(s, side) = Head(queue)
  BY DEF bestOpposing
<1>7. 1 \in 1..Len(queue) /\ Head(queue) = queue[1] /\ queue[1] \in OrderIds
  <2> HIDE DEF queue
  <2>1. queue # <<>>
    BY <1>4 DEF queue
  <2> QED
    BY <2>1, <1>5
<1>8. EntrySound(s.levels, s.index, sd, pr, 1)
  BY <1>7, <1>4, <1>1 DEF SoundBook, QueuesSound
<1>9. s.index[queue[1]] \in Order \cup {None}
  BY <1>7 DEF SoundBook, State
<1> HIDE DEF pr, sd
<1>10. /\ s.index[queue[1]] # None
       /\ s.index[queue[1]].side = sd /\ s.index[queue[1]].price = pr
       /\ s.index[queue[1]].status \in OpenStatuses
       /\ s.index[queue[1]].remaining > 0
  BY Zenon, <1>8 DEF EntrySound
<1> HIDE DEF queue
<1>11. bestOpposing(s, side) = queue[1]
  BY <1>6, <1>7
<1> QED
  BY Zenon, <1>1, <1>3, <1>4, <1>7, <1>9, <1>10, <1>11 DEF queue, sd, pr

-----------------------------------------------------------------------------
(* Ledger transactions *)

IntEntries(entries) == \A e \in entries : e.amount \in Int

LEMMA PostLedger ==
  ASSUME NEW ledger \in [LedgerKeys -> Int], NEW entries, IntEntries(entries)
  PROVE  Post(ledger, entries) \in [LedgerKeys -> Int]
<1> SUFFICES ASSUME NEW k \in LedgerKeys
             PROVE  (IF \E e \in entries : e.key = k
                       THEN ledger[k] + (CHOOSE e \in entries : e.key = k).amount
                       ELSE ledger[k]) \in Int
  BY DEF Post
<1>1. CASE \E e \in entries : e.key = k
  <2>1. (CHOOSE e \in entries : e.key = k) \in entries
    BY <1>1
  <2>2. (CHOOSE e \in entries : e.key = k).amount \in Int
    BY <2>1 DEF IntEntries
  <2> QED
    BY <1>1, <2>2
<1> QED
  BY <1>1

LEMMA PostType ==
  ASSUME NEW s \in State, NEW entries, IntEntries(entries)
  PROVE  LET t == [s EXCEPT !.ledger = Post(@, entries)]
         IN /\ t \in State
            /\ t.levels = s.levels /\ t.index = s.index
            /\ t.orders = s.orders /\ t.sequence = s.sequence
            /\ t.trades = s.trades
<1>1. s.ledger \in [LedgerKeys -> Int]
  BY DEF State
<1>2. Post(s.ledger, entries) \in [LedgerKeys -> Int]
  BY <1>1, PostLedger
<1> QED
  BY Zenon, <1>2 DEF State

LEMMA EntriesType ==
  ASSUME NEW account, NEW asset, NEW n \in Int
  PROVE  /\ IntEntries(FundEntries(account, asset, n))
         /\ IntEntries(HoldEntries(account, asset, n))
         /\ IntEntries(ReleaseEntries(account, asset, n))
  BY DEF IntEntries, FundEntries, HoldEntries, ReleaseEntries, Entry

LEMMA PostErrorType ==
  ASSUME NEW ledger, NEW entries
  PROVE  PostError(ledger, entries) \in Errors
  BY Zenon DEF PostError, Errors

-----------------------------------------------------------------------------
(* The inductive invariant behind the book theorems.  The commands work on *)
(* the clone, so most of it speaks of `trial' at the stages of a command.  *)

\* The book's copy of an order and the exchange's are of one side and price.
Kin(s) ==
  \A id \in OrderIds : s.index[id] # None =>
    /\ s.orders[id] # None
    /\ s.orders[id].side = s.index[id].side
    /\ s.orders[id].price = s.index[id].price

BookGood(s) == SoundBook(s) /\ Uncrossed(s) /\ Kin(s)

\* The book does not know the ids from n on.
Fresh(s, n) == \A id \in OrderIds : id >= n => s.index[id] = None

NoCross(s, order) ==
  \A p \in LevelPrices(s, Opposite(order.side)) : ~Crosses(order, p)

StateInv == /\ BookGood(state) /\ IndexedAreQueued(state)
            /\ Fresh(state, state.sequence + 1)

\* While an order is matched and settled.
WorkInv ==
  job.stage \in {"match", "settle"} =>
    /\ job.taker \in Order /\ job.id \in OrderIds
    /\ trial.sequence = job.id
    /\ BookGood(trial) /\ Fresh(trial, job.id)
    /\ job.taker.type = "limit" => job.taker.price \in Prices

\* An order that is going to rest crosses nothing that is left.
RestInv ==
  job.stage = "settle" /\ ShouldRest(job) => NoCross(trial, job.taker)

AppliedInv ==
  job.stage = "applied" => BookGood(trial) /\ Fresh(trial, trial.sequence + 1)

BookInv == TypeOK /\ StateInv /\ WorkInv /\ RestInv /\ AppliedInv

LEMMA SameBookGood ==
  ASSUME NEW s, BookGood(s), NEW t \in State, NEW n \in Int,
         t.levels = s.levels, t.index = s.index, t.orders = s.orders
  PROVE  BookGood(t) /\ (Fresh(s, n) => Fresh(t, n))
<1>1. SoundBook(t) /\ \A side : LevelPrices(t, side) = LevelPrices(s, side)
  BY SameBookSound DEF BookGood
<1>2. Uncrossed(t)
  BY <1>1 DEF BookGood, Uncrossed
<1> QED
  BY <1>1, <1>2 DEF BookGood, Kin, Fresh

LEMMA FailStep ==
  ASSUME BookInv, NEW reason \in Errors, Fail(reason)
  PROVE  BookInv'
<1>1. job' \in Job /\ job'.stage = "failed"
  BY Zenon DEF BookInv, TypeOK, Fail, Job
<1> QED
  BY <1>1 DEF BookInv, TypeOK, StateInv, WorkInv, RestInv, AppliedInv, Fail

LEMMA PostStep ==
  ASSUME BookInv, NEW s \in State, NEW entries, IntEntries(entries),
         NEW j, PostOrFail(s, entries, j)
  PROVE  \/ BookInv'
         \/ /\ state' = state /\ job' = j /\ trial' \in State
            /\ trial'.levels = s.levels /\ trial'.index = s.index
            /\ trial'.orders = s.orders /\ trial'.sequence = s.sequence
            /\ trial'.trades = s.trades
<1>1. CASE PostError(s.ledger, entries) = "none"
  <2> DEFINE t == [s EXCEPT !.ledger = Post(@, entries)]
  <2>1. /\ t \in State
        /\ t.levels = s.levels /\ t.index = s.index
        /\ t.orders = s.orders /\ t.sequence = s.sequence
        /\ t.trades = s.trades
    BY PostType
  <2>2. state' = state /\ job' = j /\ trial' = t
    BY <1>1 DEF PostOrFail
  <2> HIDE DEF t
  <2> QED
    BY <2>1, <2>2
<1>2. CASE PostError(s.ledger, entries) # "none"
  BY <1>2, PostErrorType, FailStep DEF PostOrFail
<1> QED
  BY <1>1, <1>2

-----------------------------------------------------------------------------
(* Steps that begin a command *)

LEMMA ClonedGood ==
  ASSUME BookInv, Begin
  PROVE  /\ Cloned \in State /\ BookGood(Cloned)
         /\ Cloned.levels = state.levels /\ Cloned.index = state.index
         /\ Cloned.orders = state.orders /\ Cloned.ledger = state.ledger
         /\ Cloned.trades = state.trades
         /\ Cloned.sequence = state.sequence + 1
         /\ Cloned.sequence \in OrderIds
         /\ Fresh(Cloned, Cloned.sequence)
<1>1. /\ Cloned \in State
      /\ Cloned.levels = state.levels /\ Cloned.index = state.index
      /\ Cloned.orders = state.orders /\ Cloned.ledger = state.ledger
      /\ Cloned.trades = state.trades
      /\ Cloned.sequence = state.sequence + 1
      /\ Cloned.sequence \in OrderIds
  <2>1. /\ state \in State
        /\ state.sequence + 1 \in 0..MaxSequence
        /\ state.sequence + 1 \in OrderIds
    BY ExchangeAssumption DEF BookInv, TypeOK, State, Begin, OrderIds
  <2> QED
    BY <2>1 DEF State, Cloned
<1>2. state.sequence + 1 \in Int
  BY DEF BookInv, TypeOK, State
<1> QED
  BY <1>1, <1>2, SameBookGood DEF BookInv, StateInv

LEMMA AppliedStep ==
  ASSUME BookInv, state' = state, trial' \in State, BookGood(trial'),
         Fresh(trial', trial'.sequence + 1),
         job' \in Job, job'.stage = "applied"
  PROVE  BookInv'
  BY DEF BookInv, TypeOK, StateInv, WorkInv, RestInv, AppliedInv

\* The command in progress when it is applied: whose it is and the order that
\* its result names.
LEMMA AppliedJob ==
  ASSUME BookInv, NEW a \in Accounts, NEW id \in 0..MaxSequence
  PROVE  LET j == [job EXCEPT !.stage = "applied", !.account = a, !.id = id]
         IN j \in Job /\ j.stage = "applied"
  BY Zenon DEF BookInv, TypeOK, Job

LEMMA FreshLater ==
  ASSUME NEW s, NEW n \in Int, Fresh(s, n)
  PROVE  Fresh(s, n + 1)
  BY DEF Fresh, OrderIds

LEMMA FundStep ==
  ASSUME BookInv, NEW a \in Accounts, NEW x \in Assets, NEW n \in FundAmounts,
         Fund(a, x, n)
  PROVE  BookInv'
<1> DEFINE j == [job EXCEPT !.stage = "applied", !.account = a]
<1>1. Begin /\ PostOrFail(Cloned, FundEntries(a, x, n), j)
  BY DEF Fund
<1>j. j \in Job /\ j.stage = "applied"
  BY Zenon DEF BookInv, TypeOK, Job
<1> HIDE DEF j
<1>2. n \in Int
  BY ExchangeAssumption
<1>3. SUFFICES ASSUME state' = state, job' = j,
                      trial' \in State, trial'.levels = Cloned.levels,
                      trial'.index = Cloned.index,
                      trial'.orders = Cloned.orders,
                      trial'.sequence = Cloned.sequence
               PROVE  BookInv'
  BY <1>1, <1>2, ClonedGood, EntriesType, PostStep
<1>4. Cloned.sequence \in Int /\ Fresh(Cloned, Cloned.sequence + 1)
  BY <1>1, ClonedGood, FreshLater DEF OrderIds
<1>5. BookGood(trial') /\ Fresh(trial', Cloned.sequence + 1)
  BY <1>1, <1>3, <1>4, ClonedGood, SameBookGood
<1> QED
  BY <1>j, <1>3, <1>5, AppliedStep

\* A request becomes an order with the request's terms.
LEMMA OrderOfType ==
  ASSUME NEW r \in Requests
  PROVE  /\ OrderOf(r) \in Order /\ OrderOf(r).status = "received"
         /\ OrderOf(r).price = r.price /\ OrderOf(r).type = r.type
         /\ OrderOf(r).side = r.side /\ OrderOf(r).account = r.account
         /\ OrderOf(r).remaining = r.quantity
         /\ OrderOf(r).remainingBudget = r.budget
  BY ExchangeAssumption DEF OrderOf, NewOrder, Order, Statuses

LEMMA reserveForType ==
  ASSUME NEW order \in Order
  PROVE  reserveFor(order) \in Nat /\ RequiredHold(order) \in Nat
<1>1. order.price \in Nat /\ order.remaining \in Nat /\ order.remainingBudget \in Nat
  BY ExchangeAssumption, AmountsAssumption DEF Order
<1> QED
  BY Zenon, <1>1, AmountTypes DEF reserveFor, RequiredHold

\* Filing an order that the book does not know changes nothing in the book.
LEMMA FileOrder ==
  ASSUME NEW s, BookGood(s), NEW id \in OrderIds, s.index[id] = None,
         NEW order \in Order
  PROVE  LET t == [s EXCEPT !.orders[id] = order]
         IN /\ t \in State /\ BookGood(t)
            /\ t.levels = s.levels /\ t.index = s.index
            /\ t.sequence = s.sequence /\ t.trades = s.trades
            /\ t.ledger = s.ledger
            /\ \A k \in OrderIds : t.orders[k] = IF k = id THEN order
                                                          ELSE s.orders[k]
<1> DEFINE t == [s EXCEPT !.orders[id] = order]
<1>1. s \in State
  BY DEF BookGood, SoundBook
<1>2. /\ t \in State
      /\ t.levels = s.levels /\ t.index = s.index
      /\ t.sequence = s.sequence /\ t.trades = s.trades
      /\ t.ledger = s.ledger
      /\ \A k \in OrderIds : t.orders[k] = IF k = id THEN order
                                                    ELSE s.orders[k]
  BY Zenon, <1>1 DEF State
<1> HIDE DEF t
<1>3. SoundBook(t) /\ \A side : LevelPrices(t, side) = LevelPrices(s, side)
  BY <1>2, SameBookSound DEF BookGood
<1>4. Uncrossed(t)
  BY <1>3 DEF BookGood, Uncrossed
<1>5. Kin(t)
  BY <1>2 DEF BookGood, Kin
<1> QED
  BY <1>2, <1>3, <1>4, <1>5 DEF BookGood, t

LEMMA RejectStep ==
  ASSUME BookInv, NEW r \in Requests, RejectOrder(r)
  PROVE  BookInv'
<1> DEFINE order == [OrderOf(r) EXCEPT !.status = "rejected"]
<1>1. /\ Begin /\ state' = state
      /\ job' = [job EXCEPT !.stage = "applied", !.account = r.account,
                            !.id = Cloned.sequence]
      /\ trial' = [Cloned EXCEPT !.orders[Cloned.sequence] = order]
  BY DEF RejectOrder
<1>j. job' \in Job /\ job'.stage = "applied"
  <2>1. r.account \in Accounts
    BY ExchangeAssumption DEF NewOrder
  <2>2. Cloned.sequence \in 0..MaxSequence
    BY <1>1, ClonedGood, ExchangeAssumption DEF OrderIds
  <2> QED
    BY Zenon, <1>1, <2>1, <2>2, AppliedJob
<1>2. order \in Order
  BY OrderOfType DEF Order, Statuses
<1>3. Cloned.index[Cloned.sequence] = None
  BY <1>1, ClonedGood DEF Fresh, OrderIds
<1> HIDE DEF order
<1>4. /\ trial' \in State /\ BookGood(trial')
      /\ trial'.index = Cloned.index /\ trial'.sequence = Cloned.sequence
  BY <1>1, <1>2, <1>3, ClonedGood, FileOrder
<1>5. Fresh(trial', trial'.sequence + 1)
  BY <1>1, <1>4, ClonedGood, FreshLater DEF Fresh, OrderIds
<1> QED
  BY <1>j, <1>1, <1>4, <1>5, AppliedStep

LEMMA AcceptStep ==
  ASSUME BookInv, NEW r \in Requests, AcceptOrder(r)
  PROVE  BookInv'
<1> DEFINE order == OrderOf(r)
           amount == reserveFor(order)
           taker == [order EXCEPT !.held = amount]
           left == r.quantity + r.budget
           j == [job EXCEPT !.stage = "match", !.account = order.account,
                            !.id = Cloned.sequence,
                            !.taker = taker, !.eventLeft = left]
           entries == HoldEntries(order.account, HeldAsset(order), amount)
<1>1. /\ Begin /\ Valid(r)
      /\ IF FitsInt64(amount) THEN PostOrFail(Cloned, entries, j)
                              ELSE Fail("overflow")
  BY DEF AcceptOrder
<1>2. amount \in Nat /\ order \in Order
  BY OrderOfType, reserveForType
<1>3. /\ taker \in Order /\ taker.type = r.type /\ taker.price = r.price
      /\ order.account \in Accounts
  BY <1>2, OrderOfType DEF Order
<1>4. r.type = "limit" => r.price \in Prices
  <2>1. r.price \in Prices \cup {0}
    BY ExchangeAssumption DEF NewOrder
  <2>2. r.type = "limit" => r.price > 0
    BY <1>1 DEF Valid, ValidLimit, ValidMarket
  <2> QED
    BY <2>1, <2>2
<1>5. left \in Nat
  BY ExchangeAssumption DEF NewOrder
<1> HIDE DEF order, amount, taker, left
<1>6. /\ j \in Job /\ j.stage = "match" /\ j.id = Cloned.sequence
      /\ j.taker = taker
  <2>1. job \in Job /\ Cloned.sequence \in 0..MaxSequence
    BY <1>1, ClonedGood, ExchangeAssumption DEF BookInv, TypeOK, OrderIds
  <2> QED
    BY Zenon, <2>1, <1>3, <1>5 DEF Job
<1> HIDE DEF j
<1>7. CASE ~FitsInt64(amount)
  BY <1>1, <1>7, FailStep DEF Errors
<1>8. CASE FitsInt64(amount)
  <2>1. IntEntries(entries)
    BY <1>2, EntriesType
  <2> HIDE DEF entries
  <2>2. SUFFICES ASSUME state' = state, job' = j,
                        trial' \in State, trial'.levels = Cloned.levels,
                        trial'.index = Cloned.index,
                        trial'.orders = Cloned.orders,
                        trial'.sequence = Cloned.sequence
                 PROVE  BookInv'
    BY <1>1, <1>8, <2>1, ClonedGood, PostStep
  <2>3. BookGood(trial') /\ Fresh(trial', Cloned.sequence)
    BY <1>1, <2>2, ClonedGood, SameBookGood DEF OrderIds
  <2>4. WorkInv'
    BY <1>1, <1>3, <1>4, <1>6, <2>2, <2>3, ClonedGood DEF WorkInv
  <2> QED
    BY <1>6, <2>2, <2>3, <2>4
       DEF BookInv, TypeOK, StateInv, RestInv, AppliedInv
<1> QED
  BY <1>7, <1>8

-----------------------------------------------------------------------------
(* Steps of the matching loop *)

LEMMA StopReasonType ==
  ASSUME NEW s, NEW order
  PROVE  StopReason(s, order) \in Stops
  BY Zenon DEF StopReason, Stops

\* When matching stops for any reason but a self trade, what is left of a
\* limit order crosses nothing.
LEMMA StopNoCross ==
  ASSUME NEW s, SoundBook(s), NEW order \in Order,
         order.type = "limit", order.price \in Prices, order.remaining > 0,
         StopReason(s, order) \notin {"none", "self_trade"}
  PROVE  NoCross(s, order)
<1> DEFINE sd == Opposite(order.side)
           pr == BestPrice(s, sd)
           maker == s.index[bestOpposing(s, order.side)]
<1>1. order.side \in Sides /\ order.remaining \in Nat
  BY DEF Order
<1>2. CASE LevelPrices(s, sd) = {}
  BY <1>2 DEF NoCross
<1>3. CASE LevelPrices(s, sd) # {}
  <2>1. /\ pr \in Prices /\ maker.price = pr
        /\ \A p \in LevelPrices(s, sd) : ~Better(sd, p, pr)
        /\ maker \in Order /\ maker.remaining > 0
    BY <1>1, <1>3, BestOpposingRests
  <2>2. maker.remaining \in Nat
    BY <2>1 DEF Order
  <2>3. executableQuantity(order, maker) # 0
    BY <1>1, <2>1, <2>2 DEF executableQuantity, IsMarketBuy
  <2>4. ~Crosses(order, maker.price)
    BY <1>3, <2>3 DEF StopReason
  <2> HIDE DEF pr, maker
  <2>5. ASSUME NEW p \in LevelPrices(s, sd)
        PROVE  ~Crosses(order, p)
    <3>1. p \in Nat /\ pr \in Nat /\ order.price \in Nat
      <4>1. p \in Prices
        BY DEF LevelPrices
      <4> QED
        BY <4>1, <2>1, PriceNat
    <3>2. ~Better(sd, p, pr) /\ Better(order.side, pr, order.price)
      BY <2>1, <2>4 DEF Crosses
    <3> QED
      BY <3>1, <3>2, <1>1 DEF Crosses, Better, Opposite, Sides
  <2> QED
    BY <2>5 DEF NoCross
<1> QED
  BY <1>2, <1>3

LEMMA StopStep ==
  ASSUME BookInv, StopMatching
  PROVE  BookInv'
<1> DEFINE stop == StopReason(trial, job.taker)
<1>1. /\ job.stage = "match" /\ stop # "none"
      /\ job' = [job EXCEPT !.stage = "settle", !.stop = stop]
      /\ state' = state /\ trial' = trial
  BY DEF StopMatching
<1>2. stop \in Stops
  BY StopReasonType
<1> HIDE DEF stop
<1>3. /\ job' \in Job /\ job'.stage = "settle" /\ job'.stop = stop
      /\ job'.taker = job.taker /\ job'.id = job.id
  BY Zenon, <1>1, <1>2 DEF BookInv, TypeOK, Job
<1>4. ASSUME ShouldRest(job')
      PROVE  NoCross(trial', job'.taker)
  <2>1. /\ job.taker \in Order /\ job.taker.type = "limit"
        /\ job.taker.price \in Prices /\ job.taker.remaining > 0
        /\ SoundBook(trial) /\ stop # "self_trade"
    BY <1>1, <1>3, <1>4 DEF ShouldRest, BookInv, WorkInv, BookGood
  <2> QED
    BY <2>1, <1>1, <1>3, StopNoCross DEF stop
<1> QED
  BY <1>1, <1>3, <1>4 DEF BookInv, TypeOK, StateInv, WorkInv, RestInv, AppliedInv

\* What one iteration of the loop may fill: no more than the maker has, than
\* the taker wants, or than a market buy can pay.
LEMMA ExecutableBounds ==
  ASSUME NEW order \in Order, NEW maker \in Order, maker.price \in Prices
  PROVE  LET q == executableQuantity(order, maker)
         IN /\ q \in Nat /\ q <= maker.remaining
            /\ ~IsMarketBuy(order) => q <= order.remaining
            /\ IsMarketBuy(order) =>
                 QuoteAmountFloor(maker.price, q) <= order.remainingBudget
            /\ QuoteAmountFloor(maker.price, q) \in Nat
<1> DEFINE q == executableQuantity(order, maker)
           aff == AffordableQuantity(order.remainingBudget, maker.price)
<1>1. /\ maker.remaining \in Nat /\ order.remaining \in Nat
      /\ order.remainingBudget \in Nat
  BY DEF Order
<1>2. maker.price \in Nat \ {0} /\ maker.price \in Nat
  BY PriceNat
<1>3. aff \in Nat
  <2>1. MulDivFloor(order.remainingBudget, BaseScale, maker.price) \in Nat
    BY Zenon, <1>1, <1>2, MulDivType, AmountsAssumption
  <2> QED
    BY <2>1, RoundToStepType DEF AffordableQuantity
<1> HIDE DEF aff
<1>4. q = IF maker.remaining < IF IsMarketBuy(order) THEN aff
                                                     ELSE order.remaining
            THEN maker.remaining
            ELSE IF IsMarketBuy(order) THEN aff ELSE order.remaining
  BY DEF executableQuantity, aff
<1> HIDE DEF q
<1>5. /\ q \in Nat /\ q <= maker.remaining
      /\ ~IsMarketBuy(order) => q <= order.remaining
      /\ IsMarketBuy(order) => q <= aff
  BY <1>1, <1>3, <1>4
<1>6. QuoteAmountFloor(maker.price, q) \in Nat
  BY Zenon, <1>2, <1>5, AmountTypes
<1>7. IsMarketBuy(order) =>
        QuoteAmountFloor(maker.price, q) <= order.remainingBudget
  BY <1>1, <1>2, <1>5, AffordableWithinBudget DEF aff
<1> QED
  BY <1>5, <1>6, <1>7 DEF q

LEMMA FilledType ==
  ASSUME NEW maker \in Order, NEW order \in Order, NEW q \in Nat,
         NEW quote \in Nat, q <= maker.remaining, q # 0,
         ~IsMarketBuy(order) => q <= order.remaining,
         IsMarketBuy(order) => quote <= order.remainingBudget
  PROVE  LET maker2 == MakerFilled(maker, q, quote)
             taker2 == TakerFilled(order, q, quote)
         IN /\ maker2 \in Order /\ maker2.side = maker.side
            /\ maker2.price = maker.price
            /\ maker2.account = maker.account
            /\ maker2.remaining = maker.remaining - q
            /\ maker2.remaining # 0 => maker2.status \in OpenStatuses
            /\ taker2 \in Order /\ taker2.side = order.side
            /\ taker2.price = order.price /\ taker2.type = order.type
            /\ taker2.held = order.held
            /\ ~IsMarketBuy(order) => taker2.remaining = order.remaining - q
            /\ IsMarketBuy(taker2) <=> IsMarketBuy(order)
<1>1. /\ maker.remaining \in Nat /\ maker.filled \in Nat /\ maker.spent \in Nat
      /\ order.remaining \in Nat /\ order.filled \in Nat /\ order.spent \in Nat
      /\ order.remainingBudget \in Nat
  BY DEF Order
<1> DEFINE status == IF maker.remaining = q THEN "filled" ELSE "partially_filled"
           rem == IF IsMarketBuy(order) THEN order.remaining
                                        ELSE order.remaining - q
           bud == IF IsMarketBuy(order) THEN order.remainingBudget - quote
                                        ELSE order.remainingBudget
           mr == maker.remaining - q
           mf == maker.filled + q
           ms == maker.spent + quote
           tf == order.filled + q
           ts == order.spent + quote
<1>2. /\ mr \in Nat /\ mf \in Nat /\ ms \in Nat /\ tf \in Nat /\ ts \in Nat
      /\ status \in Statuses
      /\ mr # 0 => status \in OpenStatuses
      /\ rem \in Nat /\ bud \in Nat
  BY <1>1 DEF Statuses, OpenStatuses
<1> HIDE DEF status
<1>3. MakerFilled(maker, q, quote) =
        [maker EXCEPT !.remaining = mr, !.filled = mf,
                      !.spent = ms, !.status = status]
  BY DEF MakerFilled, status
<1>4. TakerFilled(order, q, quote) =
        [order EXCEPT !.filled = tf, !.spent = ts,
                      !.remaining = rem, !.remainingBudget = bud]
  BY DEF TakerFilled
<1>5. ~IsMarketBuy(order) => rem = order.remaining - q
  OBVIOUS
<1> HIDE DEF rem, bud, mr, mf, ms, tf, ts
<1> DEFINE maker2 == MakerFilled(maker, q, quote)
           taker2 == TakerFilled(order, q, quote)
<1>6. /\ maker2 \in Order /\ maker2.side = maker.side
      /\ maker2.price = maker.price /\ maker2.account = maker.account
      /\ maker2.remaining = mr /\ maker2.status = status
  BY Zenon, <1>2, <1>3 DEF Order
<1>7. /\ taker2 \in Order /\ taker2.side = order.side
      /\ taker2.price = order.price /\ taker2.type = order.type
      /\ taker2.held = order.held /\ taker2.remaining = rem
  BY Zenon, <1>2, <1>4 DEF Order
<1>8. IsMarketBuy(taker2) <=> IsMarketBuy(order)
  BY <1>7 DEF IsMarketBuy
<1> QED
  BY <1>2, <1>5, <1>6, <1>7, <1>8 DEF mr

LEMMA FewerLevels ==
  ASSUME NEW s, Uncrossed(s), NEW t, NoNewLevels(s, t)
  PROVE  Uncrossed(t)
  BY DEF Uncrossed, NoNewLevels, Sides

\* Changing one known entry of the book's index.
LEMMA IndexChanged ==
  ASSUME NEW s, Kin(s), NEW id \in OrderIds, s.index[id] # None, s \in State,
         NEW order, NEW t, SameOutside(s, t), NEW n \in Int,
         Reindexed(s, t, id, order),
         order # None => /\ order.side = s.index[id].side
                         /\ order.price = s.index[id].price
  PROVE  Kin(t) /\ (Fresh(s, n) => Fresh(t, n))
<1>1. Kin(t)
  BY DEF Kin, SameOutside, Reindexed
<1>2. Fresh(s, n) => Fresh(t, n)
  BY DEF Fresh, Reindexed
<1> QED
  BY <1>1, <1>2

\* What one fill does to the book.
LEMMA MatchBookGood ==
  ASSUME NEW s, BookGood(s), NEW side \in Sides, NEW maker2 \in Order,
         LevelPrices(s, Opposite(side)) # {}, NEW n \in Int,
         maker2.side = s.index[bestOpposing(s, side)].side,
         maker2.price = s.index[bestOpposing(s, side)].price,
         maker2.remaining # 0 => maker2.status \in OpenStatuses,
         NEW id, id = bestOpposing(s, side),
         NEW t, t = IF maker2.remaining = 0
                      THEN BookRemove(s, id, s.index[id])
                      ELSE [s EXCEPT !.index[id] = maker2]
  PROVE  /\ t \in State /\ BookGood(t) /\ SameOutside(s, t)
         /\ Reindexed(s, t, id, IF maker2.remaining = 0 THEN None ELSE maker2)
         /\ Fresh(s, n) => Fresh(t, n)
<1> DEFINE sd == Opposite(side)
           pr == BestPrice(s, sd)
           maker == s.index[id]
<1>1. SoundBook(s) /\ Uncrossed(s) /\ Kin(s) /\ s \in State
  BY DEF BookGood, SoundBook
<1>2. /\ sd \in Sides /\ pr \in Prices /\ 1 \in 1..Len(s.levels[sd][pr])
      /\ id = s.levels[sd][pr][1] /\ id \in OrderIds /\ maker \in Order
      /\ maker.side = sd /\ maker.price = pr
  BY <1>1, BestOpposingRests
<1>3. maker # None
  BY Zenon, <1>2, ExchangeAssumption
<1> HIDE DEF sd, pr
<1>4. CASE maker2.remaining = 0
  <2>1. t = BookRemove(s, id, maker)
    BY <1>4
  <2>2. /\ SoundBook(t) /\ SameOutside(s, t)
        /\ Reindexed(s, t, id, None) /\ NoNewLevels(s, t)
    <3>1. PICK m \in 1..Len(s.levels[sd][pr]) : id = s.levels[sd][pr][m]
      BY <1>2
    <3>2. SoundBook(s) /\ sd \in Sides /\ pr \in Prices
      BY <1>1, <1>2
    <3>3. Removed(s, t, sd, pr, m, id)
      BY Zenon, <2>1, <3>1 DEF Removed
    <3> QED
      BY Zenon, <3>1, <3>2, <3>3, RemoveSound
  <2>3. Kin(t) /\ (Fresh(s, n) => Fresh(t, n))
    <3>1. Kin(s) /\ s \in State /\ id \in OrderIds /\ s.index[id] # None
      BY <1>1, <1>2, <1>3
    <3> QED
      BY <2>2, <3>1, IndexChanged
  <2>4. Uncrossed(t)
    BY <1>1, <2>2, FewerLevels
  <2> QED
    BY <1>4, <2>2, <2>3, <2>4 DEF BookGood, SoundBook
<1>5. CASE maker2.remaining # 0
  <2>1. t = [s EXCEPT !.index[id] = maker2]
    BY <1>5
  <2>2. maker2.remaining > 0 /\ maker2.status \in OpenStatuses
    BY <1>5 DEF Order
  <2>3. SoundBook(t)
    <3>1. /\ SoundBook(s) /\ id \in OrderIds /\ s.index[id] # None
          /\ maker2.side = s.index[id].side
          /\ maker2.price = s.index[id].price
      BY <1>1, <1>2, <1>3
    <3>2. SoundBook([s EXCEPT !.index[id] = maker2])
      BY <2>2, <3>1, IndexUpdateSound
    <3> QED
      BY <2>1, <3>2
  <2>4. /\ SameOutside(s, t) /\ Reindexed(s, t, id, maker2)
        /\ t.levels = s.levels
    BY <1>1, <2>1 DEF State, SameOutside, Reindexed
  <2>5. Kin(t) /\ (Fresh(s, n) => Fresh(t, n))
    <3>1. Kin(s) /\ s \in State /\ id \in OrderIds /\ s.index[id] # None
      BY <1>1, <1>2, <1>3
    <3>2. maker2.side = s.index[id].side /\ maker2.price = s.index[id].price
      OBVIOUS
    <3> QED
      BY <2>4, <3>1, <3>2, IndexChanged
  <2>6. Uncrossed(t)
    BY <1>1, <2>4 DEF Uncrossed, LevelPrices
  <2> QED
    BY <1>5, <2>3, <2>4, <2>5, <2>6 DEF BookGood, SoundBook
<1> QED
  BY <1>4, <1>5

\* What StopReason = "none" tells about the maker at the head of the book.
LEMMA GoOn ==
  ASSUME NEW s, SoundBook(s), NEW order \in Order,
         StopReason(s, order) = "none"
  PROVE  LET id == bestOpposing(s, order.side)
         IN /\ LevelPrices(s, Opposite(order.side)) # {}
            /\ id \in OrderIds /\ s.index[id] \in Order
            /\ s.index[id].price \in Prices
            /\ s.index[id].side = Opposite(order.side)
            /\ s.index[id].account # order.account
            /\ executableQuantity(order, s.index[id]) # 0
<1>1. /\ LevelPrices(s, Opposite(order.side)) # {}
      /\ s.index[bestOpposing(s, order.side)].account # order.account
      /\ executableQuantity(order, s.index[bestOpposing(s, order.side)]) # 0
  BY DEF StopReason
<1>2. order.side \in Sides
  BY DEF Order
<1> QED
  BY <1>1, <1>2, BestOpposingRests

LEMMA MatchFillStep ==
  ASSUME BookInv, MatchFill
  PROVE  BookInv'
<1> DEFINE taker == job.taker
           id == bestOpposing(trial, taker.side)
           maker == trial.index[id]
           quantity == executableQuantity(taker, maker)
           quote == QuoteAmountFloor(maker.price, quantity)
           maker2 == MakerFilled(maker, quantity, quote)
           taker2 == TakerFilled(taker, quantity, quote)
           stop == ExhaustedBy(taker2)
           stage == IF stop = "none" THEN "match" ELSE "settle"
           fill == [maker |-> id, makerRemaining |-> maker2.remaining,
                    price |-> maker.price, quantity |-> quantity,
                    quote |-> quote]
           bad == \/ quote = 0 \/ ~FitsInt64(quote)
                  \/ /\ IsMarketBuy(taker)
                     /\ ~FitsInt64(MulDivFloor(taker.remainingBudget,
                                               BaseScale, maker.price))
           more == Append(job.fills, fill)
<1>1. job.stage = "match" /\ StopReason(trial, taker) = "none"
  BY DEF MatchFill
<1>2. /\ bad => Fail("invalid_fill")
      /\ ~bad => /\ trial' = IF maker2.remaining = 0
                               THEN BookRemove(trial, id, maker)
                               ELSE [trial EXCEPT !.index[id] = maker2]
                 /\ job' = [job EXCEPT !.stage = stage, !.taker = taker2,
                                       !.stop = stop, !.fills = more]
                 /\ state' = state
  BY Zenon DEF MatchFill
<1> HIDE DEF bad
<1>3. CASE bad
  BY <1>2, <1>3, FailStep DEF Errors
<1>4. CASE ~bad
  <2>1. /\ taker \in Order /\ job.id \in OrderIds /\ trial.sequence = job.id
        /\ BookGood(trial) /\ SoundBook(trial) /\ Fresh(trial, job.id)
        /\ taker.type = "limit" => taker.price \in Prices
        /\ job \in Job
    BY <1>1 DEF BookInv, TypeOK, WorkInv, BookGood
  <2>2. taker.side \in Sides /\ job.fills \in Seq(Fill) /\ job.id \in Int
    BY <2>1 DEF Order, Job, OrderIds
  <2>3. /\ LevelPrices(trial, Opposite(taker.side)) # {}
        /\ id \in OrderIds /\ maker \in Order /\ maker.price \in Prices
        /\ quantity # 0
    BY <1>1, <2>1, GoOn
  <2>4. /\ quantity \in Nat /\ quantity <= maker.remaining
        /\ ~IsMarketBuy(taker) => quantity <= taker.remaining
        /\ IsMarketBuy(taker) => quote <= taker.remainingBudget
        /\ quote \in Nat
    BY <2>1, <2>3, ExecutableBounds
  <2> HIDE DEF quantity, quote
  <2>5. /\ maker2 \in Order /\ maker2.side = maker.side
        /\ maker2.price = maker.price
        /\ maker2.remaining # 0 => maker2.status \in OpenStatuses
        /\ taker2 \in Order /\ taker2.side = taker.side
        /\ taker2.price = taker.price /\ taker2.type = taker.type
        /\ ~IsMarketBuy(taker) => taker2.remaining = taker.remaining - quantity
        /\ IsMarketBuy(taker2) <=> IsMarketBuy(taker)
    <3>1. /\ maker \in Order /\ taker \in Order /\ quantity \in Nat
          /\ quote \in Nat /\ quantity <= maker.remaining /\ quantity # 0
          /\ ~IsMarketBuy(taker) => quantity <= taker.remaining
          /\ IsMarketBuy(taker) => quote <= taker.remainingBudget
      BY <2>1, <2>3, <2>4
    <3> HIDE DEF taker, maker, id
    <3> QED
      BY <3>1, FilledType
  <2>6. /\ stop \in Stops /\ stage \in {"match", "settle"}
        /\ stop # "none" /\ ~IsMarketBuy(taker2) => taker2.remaining = 0
        /\ stage = "settle" => stop # "none"
    BY DEF ExhaustedBy, Stops
  <2> HIDE DEF maker2, taker2, stop, stage
  <2>7. fill \in Fill
    BY <2>3, <2>4, <2>5 DEF Fill, Order
  <2>8. more \in Seq(Fill)
    BY <2>2, <2>7
  <2> HIDE DEF fill, more, id
  <2>9. /\ job' \in Job /\ job'.stage = stage /\ job'.taker = taker2
        /\ job'.id = job.id
    BY Zenon, <1>2, <1>4, <2>1, <2>5, <2>6, <2>8 DEF Job
  <2>10. /\ trial' \in State /\ BookGood(trial') /\ SameOutside(trial, trial')
         /\ Fresh(trial', job.id)
    BY <1>2, <1>4, <2>1, <2>2, <2>3, <2>5, MatchBookGood DEF id
  <2>11. ~(job'.stage = "settle" /\ ShouldRest(job'))
    BY <2>5, <2>6, <2>9 DEF ShouldRest, IsMarketBuy
  <2>12. trial'.sequence = job.id
    BY <2>1, <2>10 DEF SameOutside
  <2> QED
    BY <1>2, <1>4, <2>1, <2>5, <2>6, <2>9, <2>10, <2>11, <2>12
       DEF BookInv, TypeOK, StateInv, WorkInv, RestInv, AppliedInv
<1> QED
  BY <1>3, <1>4

-----------------------------------------------------------------------------
(* Steps of the settlement loop *)

LEMMA SettleErrorType ==
  ASSUME NEW s, NEW j, NEW fill
  PROVE  SettleError(s, j, fill) \in Errors
  BY Zenon DEF SettleError, Errors

\* What the checks of a settlement leave standing when none of them fails.
LEMMA SettleErrorNone ==
  ASSUME NEW s, NEW j, NEW fill, SettleError(s, j, fill) = "none"
  PROVE  LET maker == s.orders[fill.maker]
             maker2 == MakerSettled(maker, fill)
         IN /\ maker # None
            /\ ~(j.taker.held < Consumed(j.taker, fill))
            /\ ~(maker2.held < 0)
            /\ ~(ExcessHold(maker2) < 0)
            /\ maker2.remaining = 0 => maker2.held = ExcessHold(maker2)
            /\ maker2.remaining # 0 => s.index[fill.maker] # None
            /\ ~(j.eventLeft < EventAmount(j.taker, fill))
  BY DEF SettleError

LEMMA FeesType ==
  ASSUME NEW maker \in Order, NEW fill \in Fill
  PROVE  BuyerFee(maker, fill) \in Nat /\ SellerFee(maker, fill) \in Nat
<1>1. fill.quantity \in Nat /\ fill.quote \in Nat
  BY DEF Fill
<1>2. ASSUME NEW n \in Nat, NEW rate \in Nat
      PROVE  FeeAmount(n, rate) \in Nat
  BY MulDivType DEF FeeAmount, BasisPoints
<1>3. MakerFeeBPS \in Nat /\ TakerFeeBPS \in Nat
  <2>1. /\ MakerFeeBPS \in 0..(BasisPoints - 1)
        /\ TakerFeeBPS \in 0..(BasisPoints - 1)
    BY ExchangeAssumption
  <2>2. BasisPoints \in Nat
    BY DEF BasisPoints
  <2> QED
    BY <2>1, <2>2
<1> QED
  BY Zenon, <1>1, <1>2, <1>3 DEF BuyerFee, SellerFee

LEMMA TradeTypes ==
  ASSUME NEW maker \in Order, NEW taker \in Order, NEW fill \in Fill,
         NEW id \in OrderIds
  PROVE  /\ Trade(id, maker, taker, fill) \in TradeType
         /\ IntEntries(TradeEntries(maker, taker, fill))
<1> DEFINE bf == BuyerFee(maker, fill)
           sf == SellerFee(maker, fill)
           buyer == Buyer(maker, taker).account
           seller == Seller(maker, taker).account
<1>1. bf \in Nat /\ sf \in Nat
  BY FeesType
<1>2. buyer \in Accounts /\ seller \in Accounts
  BY DEF Order, Buyer, Seller
<1>3. /\ fill.quantity \in Nat /\ fill.quote \in Nat /\ fill.price \in Prices
      /\ fill.maker \in OrderIds
  BY DEF Fill
<1> HIDE DEF bf, sf, buyer, seller
<1>4. Trade(id, maker, taker, fill) =
        [maker |-> fill.maker, taker |-> id, price |-> fill.price,
         quantity |-> fill.quantity, quote |-> fill.quote,
         buyer |-> buyer, seller |-> seller,
         buyerFee |-> bf, sellerFee |-> sf]
  BY DEF Trade, bf, sf, buyer, seller
<1>5. Trade(id, maker, taker, fill) \in TradeType
  BY <1>1, <1>2, <1>3, <1>4 DEF TradeType
<1>6. TradeEntries(maker, taker, fill) \subseteq
        {Entry("held", buyer, "quote", -fill.quote),
         Entry("available", seller, "quote", fill.quote - sf),
         Entry("held", seller, "base", -fill.quantity),
         Entry("available", buyer, "base", fill.quantity - bf),
         Entry("fee", None, "quote", sf), Entry("fee", None, "base", bf)}
  BY DEF TradeEntries, bf, sf, buyer, seller
<1>7. ASSUME NEW k, NEW o, NEW a, NEW n \in Int
      PROVE  Entry(k, o, a, n).amount \in Int
  BY DEF Entry
<1>8. IntEntries(TradeEntries(maker, taker, fill))
  BY <1>1, <1>3, <1>6, <1>7 DEF IntEntries
<1> QED
  BY <1>5, <1>8

\* The maker after a settled fill.
LEMMA MakerSettledType ==
  ASSUME NEW maker \in Order, NEW fill \in Fill,
         ~(MakerSettled(maker, fill).held < 0),
         ~(ExcessHold(MakerSettled(maker, fill)) < 0)
  PROVE  LET maker2 == MakerSettled(maker, fill)
             excess == ExcessHold(maker2)
             maker3 == [maker2 EXCEPT !.held = @ - excess]
         IN /\ maker2 \in Order /\ excess \in Nat /\ maker3 \in Order
            /\ maker3.side = maker.side /\ maker3.price = maker.price
            /\ maker3.account = maker.account
            /\ maker3.remaining = fill.makerRemaining
            /\ maker3.remaining # 0 => maker3.status \in OpenStatuses
            /\ maker3.remaining = 0 => maker3.status = "filled"
            /\ maker.side = "buy" => maker3.held = RequiredHold(maker2)
            /\ maker.side = "sell" =>
                 maker3.held = maker.held - fill.quantity
<1> DEFINE held == maker.held - Consumed(maker, fill)
           filled == maker.filled + fill.quantity
           spent == maker.spent + fill.quote
           status == IF fill.makerRemaining = 0 THEN "filled"
                                                ELSE "partially_filled"
           maker2 == MakerSettled(maker, fill)
           excess == ExcessHold(maker2)
           maker3 == [maker2 EXCEPT !.held = @ - excess]
<1>1. /\ maker.held \in Nat /\ maker.filled \in Nat /\ maker.spent \in Nat
      /\ maker.side \in Sides
      /\ fill.quantity \in Nat /\ fill.quote \in Nat
      /\ fill.makerRemaining \in Nat
  BY DEF Order, Fill
<1>2. /\ held \in Int /\ filled \in Nat /\ spent \in Nat /\ status \in Statuses
      /\ fill.makerRemaining # 0 => status \in OpenStatuses
      /\ fill.makerRemaining = 0 => status = "filled"
      /\ maker.side = "sell" => held = maker.held - fill.quantity
  BY <1>1 DEF Consumed, Statuses, OpenStatuses
<1>3. maker2 = [maker EXCEPT !.remaining = fill.makerRemaining,
                             !.filled = filled, !.spent = spent,
                             !.held = held, !.status = status]
  BY DEF MakerSettled
<1> HIDE DEF held, filled, spent, status, maker2
<1>4. maker2.held = held /\ held \in Nat
  BY <1>2, <1>3 DEF Order, maker2
<1>5. /\ maker2 \in Order /\ maker2.side = maker.side
      /\ maker2.price = maker.price /\ maker2.account = maker.account
      /\ maker2.remaining = fill.makerRemaining /\ maker2.status = status
  BY Zenon, <1>1, <1>2, <1>3, <1>4 DEF Order
<1>6. RequiredHold(maker2) \in Nat
  BY <1>5, reserveForType
<1>7. /\ excess \in Nat /\ held - excess \in Nat
      /\ maker.side = "buy" => held - excess = RequiredHold(maker2)
      /\ maker.side = "sell" => held - excess = held
  BY <1>1, <1>4, <1>5, <1>6 DEF ExcessHold, maker2, Sides
<1> HIDE DEF excess
<1>8. /\ maker3 \in Order /\ maker3.side = maker2.side
      /\ maker3.price = maker2.price /\ maker3.account = maker2.account
      /\ maker3.remaining = maker2.remaining
      /\ maker3.status = maker2.status /\ maker3.held = held - excess
  BY <1>4, <1>5, <1>7 DEF Order
<1> HIDE DEF maker3
<1> QED
  BY <1>2, <1>5, <1>7, <1>8 DEF maker2, maker3, excess

\* The maker a settled fill files, its hold trimmed.
SettledMaker(s, fill) ==
  LET maker2 == MakerSettled(s.orders[fill.maker], fill)
  IN [maker2 EXCEPT !.held = @ - ExcessHold(maker2)]
Refiled(s, t, id, order) ==
  \A k \in OrderIds : t.orders[k] = IF k = id THEN order ELSE s.orders[k]

\* What one settled fill does to the exchange state.
LEMMA SettledGood ==
  ASSUME NEW s, BookGood(s), NEW n \in Int, Fresh(s, n), NEW j \in Job,
         j.taker \in Order, j.id \in OrderIds, NEW fill \in Fill,
         SettleError(s, j, fill) = "none"
  PROVE  LET t == Settled(s, j, fill)
         IN /\ t \in State /\ BookGood(t) /\ Fresh(t, n)
            /\ t.levels = s.levels /\ t.sequence = s.sequence
            /\ Refiled(s, t, fill.maker, SettledMaker(s, fill))
<1> DEFINE id == fill.maker
           t == Settled(s, j, fill)
           maker == s.orders[id]
           maker3 == SettledMaker(s, fill)
           maker2 == MakerSettled(maker, fill)
           excess == ExcessHold(maker2)
           entries == TradeEntries(maker, j.taker, fill)
           paid == Post(s.ledger, entries)
           release == ReleaseEntries(maker.account, "quote", excess)
           ledger == IF excess > 0 THEN Post(paid, release) ELSE paid
           trades == Append(s.trades, Trade(j.id, maker, j.taker, fill))
           entry == IF maker3.remaining = 0 THEN s.index[id] ELSE maker3
           X == [s.index EXCEPT ![id] = entry]
           O == [s.orders EXCEPT ![id] = maker3]
<1>1. s \in State /\ SoundBook(s) /\ Uncrossed(s) /\ Kin(s)
  BY DEF BookGood, SoundBook
<1>2. id \in OrderIds
  BY DEF Fill
<1>3. /\ maker # None /\ ~(maker2.held < 0) /\ ~(excess < 0)
      /\ maker2.remaining # 0 => s.index[id] # None
  BY SettleErrorNone
<1>4. maker \in Order
  BY <1>1, <1>2, <1>3 DEF State
<1>5. /\ maker2 \in Order /\ excess \in Nat /\ maker3 \in Order
      /\ maker3.side = maker.side /\ maker3.price = maker.price
      /\ maker3.remaining = fill.makerRemaining
      /\ maker3.remaining # 0 => maker3.status \in OpenStatuses
  BY <1>3, <1>4, MakerSettledType DEF SettledMaker
<1>6. t = [s EXCEPT !.orders = O, !.index = X, !.ledger = ledger,
                    !.trades = trades]
  BY DEF Settled, SettledMaker
<1> HIDE DEF maker3, t
<1>7. maker3.remaining # 0 => s.index[id] # None
  BY <1>3, <1>5 DEF MakerSettled, Order
<1> HIDE DEF maker2, excess
<1>8. ledger \in [LedgerKeys -> Int]
  <2>1. IntEntries(entries) /\ IntEntries(release)
    <3>1. excess \in Int
      BY <1>5
    <3> QED
      BY Zenon, <1>4, <3>1, TradeTypes, EntriesType
  <2> HIDE DEF entries, release
  <2>2. s.ledger \in [LedgerKeys -> Int]
    BY <1>1 DEF State
  <2>3. paid \in [LedgerKeys -> Int]
    BY <2>1, <2>2, PostLedger
  <2> HIDE DEF paid
  <2>4. Post(paid, release) \in [LedgerKeys -> Int]
    BY <2>1, <2>3, PostLedger
  <2> QED
    BY <2>3, <2>4
<1>9. trades \in Seq(TradeType)
  <2>1. Trade(j.id, maker, j.taker, fill) \in TradeType
    BY <1>4, TradeTypes
  <2>2. s.trades \in Seq(TradeType)
    BY <1>1 DEF State
  <2> QED
    BY <2>1, <2>2
<1> HIDE DEF ledger, trades
<1>10. entry \in Order \cup {None}
  BY <1>1, <1>2, <1>5 DEF State
<1>11. O \in [OrderIds -> Order \cup {None}] /\ X \in [OrderIds -> Order \cup {None}]
  BY <1>1, <1>2, <1>5, <1>10 DEF State
<1>12. /\ \A k \in OrderIds : X[k] = IF k = id THEN entry ELSE s.index[k]
       /\ \A k \in OrderIds : O[k] = IF k = id THEN maker3 ELSE s.orders[k]
  BY Zenon, <1>1, <1>2 DEF State
<1> HIDE DEF O, X
<1>13. /\ t \in State /\ t.orders = O /\ t.index = X /\ t.levels = s.levels
       /\ t.sequence = s.sequence
  BY Zenon, <1>1, <1>6, <1>8, <1>9, <1>11 DEF State
<1>14. s.index[id] # None => /\ s.index[id].side = maker.side
                             /\ s.index[id].price = maker.price
  BY <1>1, <1>2 DEF Kin
<1>15. SoundBook(t)
  <2>1. CASE maker3.remaining = 0
    <3>1. \A k \in OrderIds : X[k] = s.index[k]
      BY <2>1, <1>12
    <3>2. t.index = s.index
      <4>1. /\ s.index \in [OrderIds -> Order \cup {None}]
            /\ X \in [OrderIds -> Order \cup {None}]
        BY <1>1, <1>11 DEF State
      <4>2. X = s.index
        BY <3>1, <4>1
      <4> QED
        BY <4>2, <1>13
    <3> QED
      BY <1>1, <1>13, <3>2, SameBookSound
  <2>2. CASE maker3.remaining # 0
    <3> DEFINE u == [s EXCEPT !.index[id] = maker3]
    <3>1. maker3.remaining > 0
      <4>1. maker3.remaining \in Nat
        BY Zenon, <1>5 DEF Order
      <4> QED
        BY <2>2, <4>1
    <3>2. SoundBook(u)
      BY <1>1, <1>2, <1>5, <1>7, <1>14, <2>2, <3>1, IndexUpdateSound
    <3>3. u.levels = s.levels /\ u.index = X
      BY <2>2, <1>1 DEF State, X
    <3> HIDE DEF u
    <3> QED
      BY <1>13, <3>2, <3>3, SameBookSound
  <2> QED
    BY <2>1, <2>2
<1>16. Uncrossed(t)
  BY <1>1, <1>13 DEF Uncrossed, LevelPrices
<1>17. Kin(t)
  <2> SUFFICES ASSUME NEW k \in OrderIds, X[k] # None
               PROVE  /\ O[k] # None /\ O[k].side = X[k].side
                      /\ O[k].price = X[k].price
    BY <1>13 DEF Kin
  <2>1. CASE k = id
    <3>1. maker3 # None
      BY <1>5, ExchangeAssumption
    <3> QED
      BY <2>1, <3>1, <1>5, <1>12, <1>14
  <2>2. CASE k # id
    BY <2>2, <1>1, <1>12 DEF Kin
  <2> QED
    BY <2>1, <2>2
<1>18. Fresh(t, n)
  BY <1>7, <1>12, <1>13 DEF Fresh
<1> QED
  BY <1>12, <1>13, <1>15, <1>16, <1>17, <1>18
     DEF BookGood, Refiled, t, maker3

LEMMA SettleStep ==
  ASSUME BookInv, SettleFill
  PROVE  BookInv'
<1> DEFINE fill == job.fills[job.settled + 1]
           error == SettleError(trial, job, fill)
           held == job.taker.held - Consumed(job.taker, fill)
           taker == [job.taker EXCEPT !.held = held]
           left == job.eventLeft - EventAmount(job.taker, fill)
           settled == job.settled + 1
<1>1. /\ job.stage = "settle" /\ job.settled < Len(job.fills)
      /\ error # "none" => Fail(error)
      /\ error = "none" =>
           /\ trial' = Settled(trial, job, fill)
           /\ job' = [job EXCEPT !.settled = settled, !.taker = taker,
                                 !.eventLeft = left]
           /\ state' = state
  BY DEF SettleFill
<1>2. CASE error # "none"
  <2>1. error \in Errors
    BY SettleErrorType
  <2> HIDE DEF error
  <2> QED
    BY <1>1, <1>2, <2>1, FailStep
<1>3. CASE error = "none"
  <2>1. /\ job.taker \in Order /\ job.id \in OrderIds /\ trial.sequence = job.id
        /\ BookGood(trial) /\ Fresh(trial, job.id) /\ job \in Job
        /\ job.taker.type = "limit" => job.taker.price \in Prices
    BY <1>1 DEF BookInv, TypeOK, WorkInv
  <2>2. fill \in Fill
    <3>1. job.fills \in Seq(Fill) /\ job.settled \in Nat
      BY <2>1 DEF Job
    <3> QED
      BY <3>1, <1>1
  <2> HIDE DEF fill
  <2>3. job.id \in Int
    BY <2>1 DEF OrderIds
  <2>4. /\ trial' \in State /\ BookGood(trial') /\ Fresh(trial', job.id)
        /\ trial'.levels = trial.levels /\ trial'.sequence = trial.sequence
    BY <1>1, <1>3, <2>1, <2>2, <2>3, SettledGood
  <2>5. held \in Nat /\ left \in Nat /\ settled \in Nat
    <3>1. /\ ~(job.taker.held < Consumed(job.taker, fill))
          /\ ~(job.eventLeft < EventAmount(job.taker, fill))
      BY <1>3, SettleErrorNone
    <3>2. /\ Consumed(job.taker, fill) \in Nat
          /\ EventAmount(job.taker, fill) \in Nat
      BY <2>2 DEF Fill, Consumed, EventAmount
    <3>3. job.taker.held \in Nat /\ job.eventLeft \in Nat /\ job.settled \in Nat
      BY <2>1 DEF Order, Job
    <3> QED
      BY <3>1, <3>2, <3>3
  <2> HIDE DEF held, left, settled
  <2>6. /\ taker \in Order /\ taker.type = job.taker.type
        /\ taker.price = job.taker.price /\ taker.side = job.taker.side
        /\ taker.tif = job.taker.tif /\ taker.remaining = job.taker.remaining
    BY <2>1, <2>5 DEF Order
  <2> HIDE DEF taker
  <2>7. /\ job' \in Job /\ job'.stage = "settle" /\ job'.taker = taker
        /\ job'.id = job.id /\ job'.stop = job.stop
    BY Zenon, <1>1, <1>3, <2>1, <2>5, <2>6 DEF Job
  <2>8. ShouldRest(job') => ShouldRest(job)
    BY <2>6, <2>7 DEF ShouldRest
  <2>9. NoCross(trial, job.taker) => NoCross(trial', job'.taker)
    BY <2>4, <2>6, <2>7 DEF NoCross, LevelPrices, Crosses
  <2>10. RestInv'
    BY <1>1, <2>8, <2>9 DEF BookInv, RestInv
  <2> QED
    BY <1>1, <1>3, <2>1, <2>4, <2>6, <2>7, <2>10
       DEF BookInv, TypeOK, StateInv, WorkInv, AppliedInv
<1> QED
  BY <1>2, <1>3

\* An order that crosses nothing can rest without crossing the book.
LEMMA RestGood ==
  ASSUME NEW s, BookGood(s), NEW id \in OrderIds, s.index[id] = None,
         NEW order \in Order, s.orders[id] = order, order.price \in Prices,
         order.status \in OpenStatuses, order.remaining > 0,
         order.type = "limit", NoCross(s, order),
         NEW t, Added(s, t, id, order)
  PROVE  t \in State /\ BookGood(t) /\ SameOutside(s, t) /\ Reindexed(s, t, id, order)
<1>1. SoundBook(s) /\ Uncrossed(s) /\ Kin(s)
  BY DEF BookGood
<1>2. /\ SoundBook(t) /\ SameOutside(s, t) /\ Reindexed(s, t, id, order)
      /\ LevelPrices(t, order.side) \subseteq
              LevelPrices(s, order.side) \cup {order.price}
      /\ LevelPrices(t, Opposite(order.side)) =
              LevelPrices(s, Opposite(order.side))
  BY Zenon, <1>1, AddSound
<1>3. order.side \in Sides
  BY DEF Order
<1>4. \A p \in LevelPrices(s, Opposite(order.side)) :
        Better(order.side, p, order.price)
  BY DEF NoCross, Crosses
<1>5. Uncrossed(t)
  <2>1. CASE order.side = "buy"
    <3>1. Opposite(order.side) = "sell"
      BY <2>1 DEF Opposite
    <3>2. \A p \in LevelPrices(s, "sell") : order.price < p
      <4> SUFFICES ASSUME NEW p \in LevelPrices(s, "sell")
                   PROVE  order.price < p
        OBVIOUS
      <4>1. p \in Prices
        BY DEF LevelPrices
      <4> QED
        BY <4>1, <1>4, <2>1, <3>1, PriceNat DEF Better
    <3> QED
      BY <1>1, <1>2, <2>1, <3>1, <3>2 DEF Uncrossed
  <2>2. CASE order.side = "sell"
    <3>1. Opposite(order.side) = "buy"
      BY <2>2 DEF Opposite
    <3>2. \A p \in LevelPrices(s, "buy") : p < order.price
      BY <1>4, <2>2, <3>1 DEF Better
    <3> QED
      BY <1>1, <1>2, <2>2, <3>1, <3>2 DEF Uncrossed
  <2> QED
    BY <1>3, <2>1, <2>2 DEF Sides
<1>6. Kin(t)
  BY Zenon, <1>1, <1>2, ExchangeAssumption DEF Kin, SameOutside, Reindexed
<1> QED
  BY <1>2, <1>5, <1>6 DEF BookGood, SoundBook

LEMMA FinalStatusType ==
  ASSUME NEW j
  PROVE  /\ FinalStatus(j) \in Statuses
         /\ ShouldRest(j) => FinalStatus(j) \in OpenStatuses
         /\ ~ShouldRest(j) => FinalStatus(j) \notin OpenStatuses
<1> DEFINE rest == ShouldRest(j)
           status == FinalStatus(j)
<1>1. /\ rest => status \in {"partially_filled", "open"}
      /\ ~rest => status \in {"filled", "canceled"}
  BY Zenon DEF FinalStatus
<1> HIDE DEF rest, status
<1> QED
  BY <1>1 DEF rest, status, Statuses, OpenStatuses

LEMMA FinishStep ==
  ASSUME BookInv, FinishSubmit
  PROVE  BookInv'
<1> DEFINE id == job.id
           rest == ShouldRest(job)
           desired == DesiredHold(job)
           release == job.taker.held - desired
           status == FinalStatus(job)
           order == [job.taker EXCEPT !.held = desired, !.status = status]
           kept == [trial EXCEPT !.orders[id] = order]
           s == IF rest THEN BookAdd(kept, id, order) ELSE kept
           j == [job EXCEPT !.stage = "applied"]
           entries == ReleaseEntries(order.account, HeldAsset(order), release)
<1>1. /\ job.stage = "settle"
      /\ release < 0 => Fail("hold_below_required")
      /\ ~(release < 0) /\ release = 0 =>
           trial' = s /\ job' = j /\ state' = state
      /\ ~(release < 0) /\ release # 0 => PostOrFail(s, entries, j)
  BY DEF FinishSubmit
<1>2. /\ job.taker \in Order /\ id \in OrderIds /\ trial.sequence = id
      /\ BookGood(trial) /\ Fresh(trial, id) /\ job \in Job
      /\ job.taker.type = "limit" => job.taker.price \in Prices
      /\ rest => NoCross(trial, job.taker)
  BY <1>1 DEF BookInv, TypeOK, WorkInv, RestInv
<1>j. j \in Job /\ j.stage = "applied"
  BY Zenon, <1>2 DEF Job
<1> HIDE DEF j
<1>3. desired \in Nat /\ release \in Int
  BY <1>2, reserveForType DEF DesiredHold, Order
<1>4. /\ status \in Statuses
      /\ rest => status \in OpenStatuses
  BY FinalStatusType
<1>5. rest => /\ job.taker.type = "limit" /\ job.taker.remaining > 0
  BY DEF ShouldRest
<1> HIDE DEF rest, desired, status
<1>6. /\ order \in Order /\ order.type = job.taker.type
      /\ order.price = job.taker.price /\ order.side = job.taker.side
      /\ order.remaining = job.taker.remaining /\ order.status = status
  BY Zenon, <1>2, <1>3, <1>4 DEF Order
<1>7. trial.index[id] = None
  BY <1>2 DEF Fresh, OrderIds
<1> HIDE DEF order
<1>8. /\ kept \in State /\ BookGood(kept) /\ kept.levels = trial.levels
      /\ kept.index = trial.index /\ kept.sequence = id
      /\ kept.orders[id] = order
  BY <1>2, <1>6, <1>7, FileOrder
<1> HIDE DEF kept
<1>9. Fresh(kept, id)
  BY <1>2, <1>8 DEF Fresh
<1>10. s \in State /\ BookGood(s) /\ s.sequence = id /\ Fresh(s, id + 1)
  <2>1. CASE rest
    <3>1. NoCross(kept, order)
      BY <1>2, <1>6, <1>8, <2>1 DEF NoCross, LevelPrices, Crosses
    <3>2. Added(kept, s, id, order)
      BY <2>1 DEF Added
    <3>3. /\ order.price \in Prices /\ order.status \in OpenStatuses
          /\ order.remaining > 0 /\ order.type = "limit"
          /\ kept.index[id] = None
      BY <1>2, <1>4, <1>5, <1>6, <1>7, <1>8, <2>1
    <3> HIDE DEF s
    <3>4. /\ s \in State /\ BookGood(s) /\ SameOutside(kept, s)
          /\ Reindexed(kept, s, id, order)
      BY Zenon, <1>2, <1>6, <1>8, <3>1, <3>2, <3>3, RestGood
    <3>5. Fresh(s, id + 1)
      BY <1>2, <1>9, <3>4 DEF Fresh, Reindexed, OrderIds
    <3> QED
      BY <1>8, <3>4, <3>5 DEF SameOutside
  <2>2. CASE ~rest
    <3>1. id \in Int
      BY <1>2 DEF OrderIds
    <3> QED
      BY <1>8, <1>9, <2>2, <3>1, FreshLater
  <2> QED
    BY <2>1, <2>2
<1> HIDE DEF s
<1>11. CASE release < 0
  BY <1>1, <1>11, FailStep DEF Errors
<1>12. CASE release = 0
  <2>1. trial' = s /\ job' = j /\ state' = state
    BY <1>1, <1>12
  <2> QED
    BY <1>j, <1>10, <2>1, AppliedStep
<1>13. CASE release > 0
  <2>1. IntEntries(entries)
    BY <1>3, EntriesType
  <2> HIDE DEF entries
  <2>2. PostOrFail(s, entries, j)
    BY <1>1, <1>3, <1>13
  <2>3. SUFFICES ASSUME state' = state, job' = j,
                        trial' \in State, trial'.levels = s.levels,
                        trial'.index = s.index, trial'.orders = s.orders,
                        trial'.sequence = s.sequence
                 PROVE  BookInv'
    BY <1>10, <2>1, <2>2, PostStep
  <2>4. BookGood(trial') /\ Fresh(trial', id + 1)
    BY <1>2, <1>10, <2>3, SameBookGood DEF OrderIds
  <2> QED
    BY <1>j, <1>10, <2>3, <2>4, AppliedStep
<1> QED
  BY <1>3, <1>11, <1>12, <1>13

-----------------------------------------------------------------------------
(* Cancel, commit and the steps that drop the clone *)

LEMMA CancelRejectedStep ==
  ASSUME BookInv, NEW a \in Accounts, NEW id \in OrderIds,
         CancelRejected(a, id)
  PROVE  BookInv'
<1>1. /\ Begin /\ state' = state /\ trial' = Cloned
      /\ job' = [job EXCEPT !.stage = "applied", !.account = a, !.id = id]
  BY DEF CancelRejected
<1>j. job' \in Job /\ job'.stage = "applied"
  <2>1. id \in 0..MaxSequence
    BY ExchangeAssumption DEF OrderIds
  <2> QED
    BY Zenon, <1>1, <2>1, AppliedJob
<1>2. Fresh(Cloned, Cloned.sequence + 1)
  BY <1>1, ClonedGood, FreshLater DEF OrderIds
<1> QED
  BY <1>j, <1>1, <1>2, ClonedGood, AppliedStep

LEMMA CancelStep ==
  ASSUME BookInv, NEW a \in Accounts, NEW id \in OrderIds, CancelOrder(a, id)
  PROVE  BookInv'
<1> DEFINE order == state.orders[id]
           removed == BookRemove(Cloned, id, state.index[id])
           closed == [order EXCEPT !.status = "canceled", !.held = 0]
           s == [removed EXCEPT !.orders[id] = closed]
           j == [job EXCEPT !.stage = "applied", !.account = a, !.id = id]
           entries == ReleaseEntries(a, HeldAsset(order), order.held)
           bad == state.index[id] = None \/ order.held <= 0
<1>1. /\ Begin /\ order # None
      /\ bad => Fail("invalid_held_funds")
      /\ ~bad => PostOrFail(s, entries, j)
  BY DEF CancelOrder, Cancelable
<1>j. j \in Job /\ j.stage = "applied"
  <2>1. id \in 0..MaxSequence
    BY ExchangeAssumption DEF OrderIds
  <2> QED
    BY Zenon, <2>1, AppliedJob
<1> HIDE DEF j
<1>2. CASE bad
  BY <1>1, <1>2, FailStep DEF Errors
<1>3. CASE ~bad
  <2>1. /\ Cloned \in State /\ BookGood(Cloned) /\ SoundBook(Cloned)
        /\ Uncrossed(Cloned) /\ Kin(Cloned)
        /\ Cloned.index = state.index /\ Cloned.levels = state.levels
        /\ Cloned.orders = state.orders
        /\ Cloned.sequence \in OrderIds /\ Cloned.sequence \in Int
        /\ Fresh(Cloned, Cloned.sequence)
    BY <1>1, ClonedGood DEF BookGood, OrderIds
  <2>2. PICK sd \in Sides, pr \in Prices :
               \E n \in 1..Len(Cloned.levels[sd][pr]) :
                 Cloned.levels[sd][pr][n] = id
    BY <1>3, <2>1 DEF BookInv, StateInv, IndexedAreQueued
  <2>3. PICK n \in 1..Len(Cloned.levels[sd][pr]) :
               Cloned.levels[sd][pr][n] = id
    BY <2>2
  <2>4. Removed(Cloned, removed, sd, pr, n, id)
    BY <2>1, <2>3 DEF Removed
  <2>5. order \in Order
    BY <1>1 DEF BookInv, TypeOK, State
  <2>6. order.held \in Int
    BY <2>5 DEF Order
  <2> HIDE DEF removed
  <2>7. /\ SoundBook(removed) /\ SameOutside(Cloned, removed)
        /\ Reindexed(Cloned, removed, id, None) /\ NoNewLevels(Cloned, removed)
    BY Zenon, <2>1, <2>2, <2>3, <2>4, RemoveSound
  <2>8. Cloned.index[id] # None
    BY <1>3, <2>1
  <2>9. Kin(removed) /\ Fresh(removed, Cloned.sequence)
    BY Zenon, <2>1, <2>7, <2>8, IndexChanged
  <2>10. BookGood(removed)
    BY <2>1, <2>7, <2>9, FewerLevels DEF BookGood
  <2>11. closed \in Order
    BY Zenon, <2>5 DEF Order, Statuses
  <2>12. removed.index[id] = None
    BY <2>7 DEF Reindexed
  <2> HIDE DEF closed
  <2>13. /\ s \in State /\ BookGood(s) /\ s.index = removed.index
         /\ s.sequence = removed.sequence
    BY <2>10, <2>11, <2>12, FileOrder
  <2>14. s.sequence = Cloned.sequence /\ Fresh(s, Cloned.sequence + 1)
    BY Zenon, <2>1, <2>7, <2>9, <2>13, FreshLater DEF SameOutside, Fresh
  <2>15. IntEntries(entries)
    BY Zenon, <2>6, EntriesType
  <2> HIDE DEF entries, s
  <2>16. SUFFICES ASSUME state' = state, job' = j,
                         trial' \in State, trial'.levels = s.levels,
                         trial'.index = s.index, trial'.orders = s.orders,
                         trial'.sequence = s.sequence
                  PROVE  BookInv'
    BY <1>1, <1>3, <2>13, <2>15, PostStep
  <2>17. BookGood(trial') /\ Fresh(trial', Cloned.sequence + 1)
    BY <2>1, <2>13, <2>14, <2>16, SameBookGood
  <2> QED
    BY <1>j, <2>14, <2>16, <2>17, AppliedStep
<1> QED
  BY <1>2, <1>3

LEMMA NoJobType ==
  /\ NoJob \in Job /\ NoJob.stage = "idle"
<1>1. 0 \in 0..MaxSequence /\ 0 \in Nat
  BY ExchangeAssumption
<1>2. <<>> \in Seq(Fill)
  OBVIOUS
<1> QED
  BY Zenon, <1>1, <1>2 DEF NoJob, Job, Stops, Errors

\* Back to idle with the clone equal to a good state.
LEMMA IdleStep ==
  ASSUME job' = NoJob, trial' \in State, StateInv', state' \in State
  PROVE  BookInv'
<1>1. job' \in Job /\ job'.stage = "idle"
  BY NoJobType
<1> QED
  BY <1>1 DEF BookInv, TypeOK, WorkInv, RestInv, AppliedInv

LEMMA DropStep ==
  ASSUME BookInv, AppendFails \/ ReturnError
  PROVE  BookInv'
<1>1. trial' = state /\ job' = NoJob /\ state' = state
  BY DEF AppendFails, ReturnError
<1>2. StateInv' /\ state' \in State /\ trial' \in State
  BY <1>1 DEF BookInv, StateInv, TypeOK
<1> QED
  BY <1>1, <1>2, IdleStep

\* Dropping closed orders of the demo maker touches no resting order.
LEMMA CompactGood ==
  ASSUME NEW s, BookGood(s), IndexesAgree(Compact(s))
  PROVE  LET t == Compact(s)
         IN /\ t \in State /\ BookGood(t) /\ t.index = s.index
            /\ t.sequence = s.sequence
<1> DEFINE t == Compact(s)
           O == [id \in OrderIds |->
                   IF /\ s.orders[id] # None
                      /\ s.orders[id].account = DemoMaker
                      /\ ~IsOpen(s.orders[id]) THEN None ELSE s.orders[id]]
<1>1. s \in State /\ SoundBook(s) /\ Uncrossed(s)
  BY DEF BookGood, SoundBook
<1>2. t = [s EXCEPT !.orders = O]
  BY DEF Compact
<1>3. O \in [OrderIds -> Order \cup {None}]
  BY <1>1 DEF State
<1> HIDE DEF O, t
<1>4. /\ t \in State /\ t.levels = s.levels /\ t.index = s.index
      /\ t.sequence = s.sequence
  BY Zenon, <1>1, <1>2, <1>3 DEF State
<1>5. SoundBook(t) /\ \A side : LevelPrices(t, side) = LevelPrices(s, side)
  BY <1>1, <1>4, SameBookSound
<1>6. Uncrossed(t)
  BY <1>1, <1>5 DEF Uncrossed
<1>7. Kin(t)
  BY DEF IndexesAgree, Kin, t
<1> QED
  BY <1>4, <1>5, <1>6, <1>7 DEF BookGood, t

LEMMA CommitStep ==
  ASSUME BookInv, Commit
  PROVE  BookInv'
<1> DEFINE t == Compact(trial)
<1>1. /\ job.stage = "applied"
      /\ validate(t) => state' = t /\ trial' = t /\ job' = NoJob
      /\ ~validate(t) => Fail("validate_trial")
  BY DEF Commit
<1>2. CASE ~validate(t)
  BY <1>1, <1>2, FailStep DEF Errors
<1>3. CASE validate(t)
  <2>1. BookGood(trial) /\ Fresh(trial, trial.sequence + 1)
    BY <1>1 DEF BookInv, AppliedInv
  <2>2. IndexesAgree(t) /\ IndexedAreQueued(t)
    BY <1>3 DEF validate, BookConsistent
  <2>3. /\ t \in State /\ BookGood(t) /\ t.index = trial.index
        /\ t.sequence = trial.sequence
    BY <2>1, <2>2, CompactGood
  <2> HIDE DEF t
  <2>4. Fresh(t, t.sequence + 1)
    BY <2>1, <2>3 DEF Fresh
  <2>5. StateInv'
    BY <1>1, <1>3, <2>2, <2>3, <2>4 DEF StateInv
  <2> QED
    BY <1>1, <1>3, <2>3, <2>5, IdleStep
<1> QED
  BY <1>2, <1>3

-----------------------------------------------------------------------------
(* Theorems *)

LEMMA BookInit ==
  Init => BookInv
<1> SUFFICES ASSUME Init PROVE BookInv
  OBVIOUS
<1>1. EmptyState \in State
  BY ExchangeAssumption DEF EmptyState, State, EmptyLedger
<1>2. /\ EmptyState.index = [o \in OrderIds |-> None]
      /\ EmptyState.levels = [side \in Sides |-> [p \in Prices |-> <<>>]]
      /\ EmptyState.sequence = 0
  BY DEF EmptyState
<1>3. /\ QueuesSound(EmptyState) /\ Uncrossed(EmptyState) /\ Kin(EmptyState)
      /\ IndexedAreQueued(EmptyState)
      /\ Fresh(EmptyState, EmptyState.sequence + 1)
  BY <1>2 DEF QueuesSound, Uncrossed, LevelPrices, Kin, IndexedAreQueued,
              Fresh, Sides
<1>4. state = EmptyState /\ trial = EmptyState /\ job = NoJob
  BY DEF Init
<1> HIDE DEF Init
<1>5. StateInv
  BY <1>1, <1>3, <1>4 DEF StateInv, BookGood, SoundBook
<1> QED
  BY <1>1, <1>4, <1>5, NoJobType
     DEF BookInv, TypeOK, WorkInv, RestInv, AppliedInv

LEMMA BookNext ==
  BookInv /\ [Next]_vars => BookInv'
<1> SUFFICES ASSUME BookInv, [Next]_vars PROVE BookInv'
  OBVIOUS
<1>1. CASE UNCHANGED vars
  BY <1>1 DEF vars, BookInv, TypeOK, StateInv, WorkInv, RestInv, AppliedInv
<1>2. CASE \E a \in Accounts, x \in Assets, n \in FundAmounts : Fund(a, x, n)
  BY <1>2, FundStep
<1>3. CASE \E r \in Requests : RejectOrder(r) \/ AcceptOrder(r)
  BY <1>3, RejectStep, AcceptStep
<1>4. CASE \E a \in Accounts, id \in OrderIds : CancelRejected(a, id)
  BY <1>4, CancelRejectedStep
<1>5. CASE \E a \in Accounts, id \in OrderIds : CancelOrder(a, id)
  BY <1>5, CancelStep
<1>6. CASE StopMatching \/ MatchFill \/ SettleFill \/ FinishSubmit
  BY <1>6, StopStep, MatchFillStep, SettleStep, FinishStep
<1>7. CASE Commit \/ AppendFails \/ ReturnError
  BY <1>7, CommitStep, DropStep
<1> QED
  BY <1>1, <1>2, <1>3, <1>4, <1>5, <1>6, <1>7 DEF Next

\* Every state the exchange, its clone and the command in progress go through
\* is well typed: in particular no fill, settlement or cancel makes a
\* remaining quantity, a remaining budget or a hold negative.
THEOREM TypeCorrect == Spec => []TypeOK
<1>1. BookInv => TypeOK
  BY DEF BookInv
<1> QED
  BY <1>1, BookInit, BookNext, PTL DEF Spec

\* The committed book is never crossed, for any set of prices, accounts and
\* requests: Match, the self-trade rule and the post-only check leave no
\* resting order that an opposite one reaches.
THEOREM NeverCrossed == Spec => []BookUncrossed
<1>1. BookInv => BookUncrossed
  BY DEF BookInv, StateInv, BookGood, BookUncrossed
<1> QED
  BY <1>1, BookInit, BookNext, PTL DEF Spec
=============================================================================
