----------------------- MODULE SimulatedTradingProofs -----------------------
(***************************************************************************)
(* Theorems about simulated trading.  Paper trading: that the totals of the  *)
(* positions are what their orders come to.  The entry signals: that a live  *)
(* bot decides what a backtest decides.                                      *)
(***************************************************************************)
EXTENDS PaperTrading, EntrySignals, FiniteSums, SequenceTheorems, TLAPS

(***************************************************************************)
(* Paper trading.                                                            *)
(***************************************************************************)
\* A trigger is a price of the grid, or lies below or above all of them.
LEMMA TriggersArePrices ==
    \A c, q, t : PriceUp(c, q, t) \in Nat /\ PriceBelow(c, q, t) \in Nat
<1>1. HighestPrice \in Prices /\ \A x \in Prices : x <= HighestPrice
  BY PricesAssumption DEF HighestPrice
<1>2. HighestPrice \in Nat /\ Never \in Nat
  BY <1>1, PricesAssumption DEF Never
<1>3. ASSUME NEW c, NEW q, NEW t PROVE PriceUp(c, q, t) \in Nat
  <2> DEFINE Above == {p \in Prices : 100 * p * q >= c * (100 + t)}
  <2>1. Above \in SUBSET Nat
    BY PricesAssumption
  <2>2. PriceUp(c, q, t) = IF Above = {} THEN Never ELSE CHOOSE p \in Above : \A x \in Above : p <= x
    BY DEF PriceUp
  <2> HIDE DEF Above
  <2> QED BY <1>2, <2>1, <2>2, LeastExists
<1>4. ASSUME NEW c, NEW q, NEW t PROVE PriceBelow(c, q, t) \in Nat
  <2> DEFINE Below == {p \in Prices : 100 * p * q <= c * (100 - t)}
  <2>1. Below \in SUBSET Nat /\ \A x \in Below : x <= HighestPrice
    BY <1>1, PricesAssumption
  <2>2. PriceBelow(c, q, t) = IF Below = {} THEN 0 ELSE CHOOSE p \in Below : \A x \in Below : x <= p
    BY DEF PriceBelow
  <2> HIDE DEF Below
  <2>3. Below # {} => \E m \in Below : \A x \in Below : x <= m
    BY <1>2, <2>1, GreatestExists
  <2>4. CASE Below = {}
    BY <2>2, <2>4
  <2>5. CASE Below # {}
    <3>1. (CHOOSE p \in Below : \A x \in Below : x <= p) \in Below
      BY <2>3, <2>5
    <3> QED BY <2>1, <2>2, <2>5, <3>1
  <2> QED BY <2>4, <2>5
<1> QED BY <1>3, <1>4

-----------------------------------------------------------------------------
(* Rows *)

\* What the rows say of the orders, if none was written over unseen.
Agree(p, o) ==
    ~o.lost => /\ Basket(p).quantity = o.bought - o.sold
               /\ p.pnl = o.received - o.spent + Basket(p).cost
               /\ Basket(p).cost <= PaperBot.riskBudget

\* A level bought as a leg has its leg.
LegsKept(p, o) ==
    \A l \in Levels : /\ o.legBuys[l] <= 1
                      /\ o.legBuys[l] > 0 => \E i \in DOMAIN p.legs : p.legs[i].level = l

\* What the legs hold, and what they cost.
Quantities(p) == [i \in DOMAIN p.legs |-> p.legs[i].quantity]
Costs(p) == [i \in DOMAIN p.legs |-> p.legs[i].cost]

LEMMA BasketIsSum ==
    ASSUME NEW p
    PROVE  /\ Basket(p).quantity = p.quantity + SumOf(Quantities(p), OpenLegs(p))
           /\ Basket(p).cost = p.cost + SumOf(Costs(p), OpenLegs(p))
BY SumFunctionIsSum DEF Basket, BasketTotals, OpenLegs, Quantities, Costs

\* Legs are numbered, and any set of them is finite.
LEMMA LegsAreFinite ==
    ASSUME NEW p \in PositionRows, NEW T, T \subseteq DOMAIN p.legs
    PROVE  /\ IsFiniteSet(T)
           /\ \A i \in T : /\ p.legs[i] \in LegRows
                           /\ Quantities(p)[i] = p.legs[i].quantity /\ Quantities(p)[i] \in Nat
                           /\ Costs(p)[i] = p.legs[i].cost /\ Costs(p)[i] \in Nat
<1>1. p.legs \in Seq(LegRows)
  BY DEF PositionRows
<1>2. DOMAIN p.legs = 1..Len(p.legs) /\ Len(p.legs) \in Nat
  BY <1>1
<1>3. IsFiniteSet(1..Len(p.legs))
  BY <1>2, FS_Interval
<1>4. IsFiniteSet(T)
  BY <1>2, <1>3, FS_Subset
<1>5. ASSUME NEW i \in T PROVE p.legs[i] \in LegRows
  BY <1>1, <1>2
<1> QED BY <1>4, <1>5 DEF LegRows, Quantities, Costs

\* The sums over legs are numbers.
LEMMA LegSumsAreNat ==
    ASSUME NEW p \in PositionRows, NEW T, T \subseteq DOMAIN p.legs
    PROVE  SumOf(Quantities(p), T) \in Nat /\ SumOf(Costs(p), T) \in Nat
<1>1. IsFiniteSet(T) /\ (\A i \in T : Quantities(p)[i] \in Nat) /\ (\A i \in T : Costs(p)[i] \in Nat)
  BY LegsAreFinite
<1>2. (\A i \in T : Quantities(p)[i] \in Int) /\ (\A i \in T : Costs(p)[i] \in Int)
  BY <1>1
<1>3. SumOf(Quantities(p), T) \in Int /\ SumOf(Quantities(p), T) >= 0
  BY <1>1, <1>2, SumInteger, SumNonNegative
<1>4. SumOf(Costs(p), T) \in Int /\ SumOf(Costs(p), T) >= 0
  BY <1>1, <1>2, SumInteger, SumNonNegative
<1> QED BY <1>3, <1>4

\* What is held and what it costs.
LEMMA BasketIsNat ==
    ASSUME NEW p \in PositionRows
    PROVE  /\ Basket(p).quantity \in Nat /\ Basket(p).cost \in Nat
           /\ p.quantity \in Nat /\ p.cost \in Nat
<1>1. OpenLegs(p) \subseteq DOMAIN p.legs
  BY DEF OpenLegs
<1>2. p.quantity \in Nat /\ p.cost \in Nat
  BY DEF PositionRows
<1> QED BY <1>1, <1>2, LegSumsAreNat, BasketIsSum

\* The same legs, for what the parent may have become.
LEMMA SameLegs ==
    ASSUME NEW p \in PositionRows, NEW q \in PositionRows, DOMAIN q.legs = DOMAIN p.legs,
           \A i \in DOMAIN p.legs : /\ q.legs[i].status = p.legs[i].status
                                    /\ q.legs[i].quantity = p.legs[i].quantity
                                    /\ q.legs[i].cost = p.legs[i].cost
    PROVE  /\ Basket(q).quantity = Basket(p).quantity - p.quantity + q.quantity
           /\ Basket(q).cost = Basket(p).cost - p.cost + q.cost
<1>1. OpenLegs(q) = OpenLegs(p) /\ OpenLegs(p) \subseteq DOMAIN p.legs
  BY DEF OpenLegs
<1>2. Quantities(q) = Quantities(p) /\ Costs(q) = Costs(p)
  BY DEF Quantities, Costs
<1>3. SumOf(Quantities(p), OpenLegs(p)) \in Nat /\ SumOf(Costs(p), OpenLegs(p)) \in Nat
  BY <1>1, LegSumsAreNat
<1>4. p.quantity \in Nat /\ p.cost \in Nat /\ q.quantity \in Nat /\ q.cost \in Nat
  BY BasketIsNat
<1> QED BY <1>1, <1>2, <1>3, <1>4, BasketIsSum

\* One leg more, which is open.
LEMMA LegAdded ==
    ASSUME NEW p \in PositionRows, NEW q \in PositionRows, NEW leg \in LegRows, leg.status = "OPEN",
           q.legs = Append(p.legs, leg)
    PROVE  /\ Basket(q).quantity = Basket(p).quantity - p.quantity + q.quantity + leg.quantity
           /\ Basket(q).cost = Basket(p).cost - p.cost + q.cost + leg.cost
<1> DEFINE x == Len(p.legs) + 1
           S == OpenLegs(p)
<1>1. p.legs \in Seq(LegRows) /\ Len(p.legs) \in Nat
  BY DEF PositionRows
<1>2. /\ DOMAIN q.legs = 1..x /\ DOMAIN p.legs = 1..Len(p.legs) /\ q.legs[x] = leg
      /\ \A i \in 1..Len(p.legs) : q.legs[i] = p.legs[i]
  BY <1>1
<1>3. S \subseteq DOMAIN p.legs /\ x \notin S /\ OpenLegs(q) = S \cup {x} /\ S \cup {x} \subseteq DOMAIN q.legs
  BY <1>1, <1>2 DEF OpenLegs
<1>4. /\ IsFiniteSet(S)
      /\ \A i \in S \cup {x} : Quantities(q)[i] \in Int /\ Costs(q)[i] \in Int
      /\ \A i \in S : Quantities(p)[i] = Quantities(q)[i] /\ Costs(p)[i] = Costs(q)[i]
  <2>1. IsFiniteSet(S)
    BY <1>3, LegsAreFinite
  <2>2. ASSUME NEW i \in S \cup {x} PROVE Quantities(q)[i] \in Int /\ Costs(q)[i] \in Int
    <3>1. {i} \subseteq DOMAIN q.legs
      BY <1>3
    <3>2. Quantities(q)[i] \in Nat /\ Costs(q)[i] \in Nat
      BY <3>1, LegsAreFinite
    <3> QED BY <3>2
  <2>3. ASSUME NEW i \in S PROVE Quantities(p)[i] = Quantities(q)[i] /\ Costs(p)[i] = Costs(q)[i]
    BY <1>2, <1>3 DEF Quantities, Costs
  <2> QED BY <2>1, <2>2, <2>3
<1>5. Quantities(q)[x] = leg.quantity /\ Costs(q)[x] = leg.cost
  BY <1>1, <1>2 DEF Quantities, Costs
<1>6. S \subseteq DOMAIN p.legs
  BY <1>3
<1> HIDE DEF x, S
<1>7. /\ SumOf(Quantities(q), S \cup {x}) = SumOf(Quantities(q), S) + Quantities(q)[x]
      /\ SumOf(Costs(q), S \cup {x}) = SumOf(Costs(q), S) + Costs(q)[x]
  <2>1. x \notin S /\ IsFiniteSet(S)
    BY <1>3, <1>4
  <2>2. \A i \in S \cup {x} : Quantities(q)[i] \in Int
    BY <1>4
  <2>3. \A i \in S \cup {x} : Costs(q)[i] \in Int
    BY <1>4
  <2>4. SumOf(Quantities(q), S \cup {x}) = SumOf(Quantities(q), S) + Quantities(q)[x]
    BY <2>1, <2>2, SumAdd
  <2>5. SumOf(Costs(q), S \cup {x}) = SumOf(Costs(q), S) + Costs(q)[x]
    BY <2>1, <2>3, SumAdd
  <2> QED BY <2>4, <2>5
<1>8. /\ SumOf(Quantities(q), S) = SumOf(Quantities(p), S)
      /\ SumOf(Costs(q), S) = SumOf(Costs(p), S)
  BY <1>4, SumEqual
<1>9. SumOf(Quantities(p), S) \in Nat /\ SumOf(Costs(p), S) \in Nat
  BY <1>6, LegSumsAreNat
<1>10. p.quantity \in Nat /\ p.cost \in Nat /\ q.quantity \in Nat /\ q.cost \in Nat
       /\ leg.quantity \in Nat /\ leg.cost \in Nat
  BY BasketIsNat DEF LegRows
<1>11. /\ Basket(p).quantity = p.quantity + SumOf(Quantities(p), S)
       /\ Basket(p).cost = p.cost + SumOf(Costs(p), S)
       /\ Basket(q).quantity = q.quantity + SumOf(Quantities(q), S \cup {x})
       /\ Basket(q).cost = q.cost + SumOf(Costs(q), S \cup {x})
  BY <1>3, BasketIsSum DEF S
<1>12. Basket(q).quantity = q.quantity + (SumOf(Quantities(p), S) + leg.quantity)
  BY <1>5, <1>7, <1>8, <1>11
<1>13. Basket(q).cost = q.cost + (SumOf(Costs(p), S) + leg.cost)
  BY <1>5, <1>7, <1>8, <1>11
<1>14. \A a, b, c, d \in Nat : a + (b + c) = (d + b) - d + a + c
  OBVIOUS
<1>15. Basket(q).quantity = Basket(p).quantity - p.quantity + q.quantity + leg.quantity
  <2>1. SumOf(Quantities(p), S) \in Nat /\ p.quantity \in Nat /\ q.quantity \in Nat /\ leg.quantity \in Nat
    BY <1>9, <1>10
  <2>2. Basket(p).quantity = p.quantity + SumOf(Quantities(p), S)
    BY <1>11
  <2> QED BY <1>12, <1>14, <2>1, <2>2
<1>16. Basket(q).cost = Basket(p).cost - p.cost + q.cost + leg.cost
  <2>1. SumOf(Costs(p), S) \in Nat /\ p.cost \in Nat /\ q.cost \in Nat /\ leg.cost \in Nat
    BY <1>9, <1>10
  <2>2. Basket(p).cost = p.cost + SumOf(Costs(p), S)
    BY <1>11
  <2> QED BY <1>13, <1>14, <2>1, <2>2
<1> QED BY <1>15, <1>16

\* Some of the open legs closed.
LEMMA LegsClosed ==
    ASSUME NEW p \in PositionRows, NEW q \in PositionRows, NEW T, T \subseteq OpenLegs(p),
           DOMAIN q.legs = DOMAIN p.legs, \A i \in T : q.legs[i].status = "CLOSED",
           \A i \in DOMAIN p.legs \ T : q.legs[i] = p.legs[i]
    PROVE  /\ Basket(q).quantity = Basket(p).quantity - p.quantity + q.quantity - SumOf(Quantities(p), T)
           /\ Basket(q).cost = Basket(p).cost - p.cost + q.cost - SumOf(Costs(p), T)
           /\ SumOf(Quantities(p), T) \in Nat /\ SumOf(Costs(p), T) \in Nat
<1> DEFINE O == OpenLegs(p)
           R == O \ T
<1>1. O \subseteq DOMAIN p.legs /\ T \subseteq DOMAIN p.legs /\ R \subseteq DOMAIN p.legs
  BY DEF OpenLegs
<1>2. OpenLegs(q) = R /\ R \cup T = O /\ R \cap T = {}
  BY <1>1 DEF OpenLegs
<1>3. /\ IsFiniteSet(R) /\ IsFiniteSet(T)
      /\ \A i \in R \cup T : Quantities(p)[i] \in Int /\ Costs(p)[i] \in Int
      /\ \A i \in R : Quantities(p)[i] = Quantities(q)[i] /\ Costs(p)[i] = Costs(q)[i]
  <2>1. IsFiniteSet(R) /\ IsFiniteSet(T)
    BY <1>1, LegsAreFinite
  <2>2. ASSUME NEW i \in R \cup T PROVE Quantities(p)[i] \in Int /\ Costs(p)[i] \in Int
    <3>1. {i} \subseteq DOMAIN p.legs
      BY <1>1
    <3>2. Quantities(p)[i] \in Nat /\ Costs(p)[i] \in Nat
      BY <3>1, LegsAreFinite
    <3> QED BY <3>2
  <2>3. ASSUME NEW i \in R PROVE Quantities(p)[i] = Quantities(q)[i] /\ Costs(p)[i] = Costs(q)[i]
    BY <1>1 DEF Quantities, Costs
  <2> QED BY <2>1, <2>2, <2>3
<1> HIDE DEF O, R
<1>4. /\ SumOf(Quantities(p), R \cup T) = SumOf(Quantities(p), R) + SumOf(Quantities(p), T)
      /\ SumOf(Quantities(q), R) = SumOf(Quantities(p), R)
  BY <1>2, <1>3, SumUnion, SumEqual
<1>5. /\ SumOf(Costs(p), R \cup T) = SumOf(Costs(p), R) + SumOf(Costs(p), T)
      /\ SumOf(Costs(q), R) = SumOf(Costs(p), R)
  BY <1>2, <1>3, SumUnion, SumEqual
<1>6. /\ SumOf(Quantities(p), R) \in Nat /\ SumOf(Costs(p), R) \in Nat
      /\ SumOf(Quantities(p), T) \in Nat /\ SumOf(Costs(p), T) \in Nat
  BY <1>1, LegSumsAreNat
<1>7. p.quantity \in Nat /\ p.cost \in Nat /\ q.quantity \in Nat /\ q.cost \in Nat
  BY BasketIsNat
<1>8. /\ Basket(p).quantity = p.quantity + SumOf(Quantities(p), R \cup T)
      /\ Basket(p).cost = p.cost + SumOf(Costs(p), R \cup T)
      /\ Basket(q).quantity = q.quantity + SumOf(Quantities(q), R)
      /\ Basket(q).cost = q.cost + SumOf(Costs(q), R)
  BY <1>2, BasketIsSum DEF O
<1> QED BY <1>4, <1>5, <1>6, <1>7, <1>8

\* A position without legs.
LEMMA NoLegs ==
    ASSUME NEW p \in PositionRows, OpenLegs(p) = {}
    PROVE  Basket(p).quantity = p.quantity /\ Basket(p).cost = p.cost
<1>1. p.quantity \in Nat /\ p.cost \in Nat
  BY BasketIsNat
<1> QED BY <1>1, BasketIsSum, SumEmpty

-----------------------------------------------------------------------------
(* The invariant *)

\* What an operation that has read still finds: positions and legs are never removed.
HasRead(w) ==
    /\ w.pc = "create" => w.price \in Prices
    /\ w.pc \in Holding => w.n \in DOMAIN paper /\ w.price \in Prices /\ w.view \in PositionRows
    /\ w.pc \in Targeting => w.n \in DOMAIN paper /\ w.price \in Prices
    /\ w.pc = "INDEPENDENT" => w.view.leg \in DOMAIN paper[w.n].legs

RowsInv ==
    /\ paper \in Seq(PositionRows) /\ paperOrders \in Seq(OrderSums)
    /\ Len(paperOrders) = Len(paper)
    /\ \A n \in DOMAIN paper : Agree(paper[n], paperOrders[n]) /\ LegsKept(paper[n], paperOrders[n])
WorkersInv ==
    /\ paperRunning \in BOOLEAN /\ paperRequests \in Nat
    /\ paperWorker \in [PaperActors -> WorkerRows]
    /\ \A a \in PaperActors : HasRead(paperWorker[a])
PaperInv == RowsInv /\ WorkersInv

LEMMA IdleReadsNothing == IdleWorker \in WorkerRows /\ HasRead(IdleWorker)
BY DEF IdleWorker, WorkerRows, Views, HasRead, Holding, Targeting

LEMMA PaperInvInit == PaperInit => PaperInv
<1> SUFFICES ASSUME PaperInit PROVE PaperInv
  OBVIOUS
<1>1. RowsInv
  BY DEF PaperInit, RowsInv
<1>2. WorkersInv
  BY IdleReadsNothing DEF PaperInit, WorkersInv
<1> QED BY <1>1, <1>2 DEF PaperInv

LEMMA RowsAreTyped ==
    ASSUME RowsInv, NEW n \in DOMAIN paper
    PROVE  paper[n] \in PositionRows /\ paperOrders[n] \in OrderSums /\ n \in DOMAIN paperOrders /\ n \in Nat
BY DEF RowsInv

\* One position written, with the sums of its orders.
Rewrites(n, q) ==
    /\ q \in PositionRows /\ DOMAIN paper[n].legs \subseteq DOMAIN q.legs
    /\ paper' = [paper EXCEPT ![n] = q]
    /\ \E o \in OrderSums : /\ paperOrders' = [paperOrders EXCEPT ![n] = o]
                            /\ Agree(q, o) /\ LegsKept(q, o)

LEMMA RewriteKeepsRows ==
    ASSUME RowsInv, NEW n \in DOMAIN paper, NEW q, Rewrites(n, q)
    PROVE  /\ RowsInv'
           /\ DOMAIN paper' = DOMAIN paper /\ paper'[n] = q
           /\ \A m \in DOMAIN paper : DOMAIN paper[m].legs \subseteq DOMAIN paper'[m].legs
<1>1. PICK o \in OrderSums : paperOrders' = [paperOrders EXCEPT ![n] = o] /\ Agree(q, o) /\ LegsKept(q, o)
  BY DEF Rewrites
<1>2. n \in DOMAIN paperOrders
  BY RowsAreTyped
<1>3. q \in PositionRows /\ paper' = [paper EXCEPT ![n] = q] /\ DOMAIN paper[n].legs \subseteq DOMAIN q.legs
  BY DEF Rewrites
<1>4. /\ paper' \in Seq(PositionRows) /\ Len(paper') = Len(paper) /\ DOMAIN paper' = DOMAIN paper
      /\ paper'[n] = q /\ \A m \in DOMAIN paper : m # n => paper'[m] = paper[m]
  BY <1>3, ExceptSeq DEF RowsInv
<1>5. /\ paperOrders' \in Seq(OrderSums) /\ Len(paperOrders') = Len(paperOrders)
      /\ paperOrders'[n] = o /\ \A m \in DOMAIN paper : m # n => paperOrders'[m] = paperOrders[m]
  BY <1>1, <1>2, ExceptSeq DEF RowsInv
<1>6. ASSUME NEW m \in DOMAIN paper'
      PROVE  Agree(paper'[m], paperOrders'[m]) /\ LegsKept(paper'[m], paperOrders'[m])
  BY <1>1, <1>4, <1>5 DEF RowsInv
<1>7. RowsInv'
  BY <1>4, <1>5, <1>6 DEF RowsInv, Agree, LegsKept, Basket
<1>8. \A m \in DOMAIN paper : DOMAIN paper[m].legs \subseteq DOMAIN paper'[m].legs
  BY <1>3, <1>4
<1> QED BY <1>4, <1>7, <1>8

\* Nobody loses what it has read when positions and legs are only added.
LEMMA WorkersKeep ==
    ASSUME RowsInv, WorkersInv, DOMAIN paper \subseteq DOMAIN paper',
           \A m \in DOMAIN paper : DOMAIN paper[m].legs \subseteq DOMAIN paper'[m].legs,
           NEW a \in PaperActors, NEW w \in WorkerRows, HasRead(w)',
           paperWorker' = [paperWorker EXCEPT ![a] = w],
           paperRunning' \in BOOLEAN, paperRequests' \in Nat
    PROVE  WorkersInv'
<1>1. paperWorker' \in [PaperActors -> WorkerRows] /\ paperWorker'[a] = w
      /\ \A b \in PaperActors : b # a => paperWorker'[b] = paperWorker[b]
  BY DEF WorkersInv
<1>2. ASSUME NEW b \in PaperActors PROVE HasRead(paperWorker[b])'
  <2>1. CASE b = a
    BY <1>1, <2>1 DEF HasRead
  <2>2. CASE b # a
    BY <1>1, <2>2 DEF HasRead, WorkersInv, Targeting
  <2> QED BY <2>1, <2>2
<1> QED BY <1>1, <1>2 DEF WorkersInv

\* The end of an operation that wrote.
LEMMA FinishedWrite ==
    ASSUME PaperInv, NEW a \in PaperActors, NEW n \in DOMAIN paper, NEW q, Rewrites(n, q), Finish(a)
    PROVE  PaperInv'
<1>1. /\ RowsInv' /\ DOMAIN paper' = DOMAIN paper
      /\ \A m \in DOMAIN paper : DOMAIN paper[m].legs \subseteq DOMAIN paper'[m].legs
  BY RewriteKeepsRows DEF PaperInv
<1>2. IdleWorker \in WorkerRows /\ HasRead(IdleWorker)'
  BY IdleReadsNothing DEF HasRead, IdleWorker, Holding, Targeting
<1>3. /\ paperWorker' = [paperWorker EXCEPT ![a] = IdleWorker]
      /\ paperRunning' \in BOOLEAN /\ paperRequests' \in Nat
  BY DEF Finish, Done, PaperInv, WorkersInv
<1>4. WorkersInv'
  BY <1>1, <1>2, <1>3, WorkersKeep DEF PaperInv
<1> QED BY <1>1, <1>4 DEF PaperInv

\* The end of an operation, or a step of one, that wrote nothing.
LEMMA NothingWritten ==
    ASSUME PaperInv, NEW a \in PaperActors, UNCHANGED <<paper, paperOrders>>, NEW w \in WorkerRows,
           HasRead(w), paperWorker' = [paperWorker EXCEPT ![a] = w],
           paperRunning' \in BOOLEAN, paperRequests' \in Nat
    PROVE  PaperInv'
<1>1. RowsInv'
  BY DEF PaperInv, RowsInv, Agree, LegsKept, Basket
<1>2. HasRead(w)'
  BY DEF HasRead
<1>3. WorkersInv'
  BY <1>2, WorkersKeep DEF PaperInv
<1> QED BY <1>1, <1>3 DEF PaperInv

-----------------------------------------------------------------------------
(* The writes *)

\* What a holds of the position it writes.
LEMMA WhatIsHeld ==
    ASSUME PaperInv, NEW a \in PaperActors, paperWorker[a].pc \in Holding
    PROVE  /\ paperWorker[a] \in WorkerRows /\ HasRead(paperWorker[a])
           /\ paperWorker[a].n \in DOMAIN paper /\ paperWorker[a].price \in Nat \ {0}
           /\ paperWorker[a].price \in Prices
           /\ paperWorker[a].view \in PositionRows
           /\ paper[paperWorker[a].n] \in PositionRows
           /\ paperOrders[paperWorker[a].n] \in OrderSums
BY RowsAreTyped, PricesAssumption DEF PaperInv, WorkersInv, HasRead

\* The sums of the orders after a purchase and after a sale.
LEMMA PaperBooked ==
    ASSUME PaperInv, NEW a \in PaperActors, paperWorker[a].pc \in Holding, NEW o \in OrderSums, Book(a, o)
    PROVE  \E b \in OrderSums :
               /\ paperOrders' = [paperOrders EXCEPT ![paperWorker[a].n] = b]
               /\ b.bought = o.bought /\ b.sold = o.sold /\ b.spent = o.spent /\ b.received = o.received
               /\ b.legBuys = o.legBuys
               /\ ~b.lost => ~o.lost /\ paperWorker[a].view = paper[paperWorker[a].n]
<1> DEFINE b == [o EXCEPT !.lost = @ \/ StaleView(a)]
<1>1. StaleView(a) \in BOOLEAN /\ (~StaleView(a) => paperWorker[a].view = paper[paperWorker[a].n])
  BY DEF StaleView
<1>2. /\ b \in OrderSums
      /\ b.bought = o.bought /\ b.sold = o.sold /\ b.spent = o.spent /\ b.received = o.received
      /\ b.legBuys = o.legBuys /\ b.lost = (o.lost \/ StaleView(a))
  BY <1>1 DEF OrderSums
<1>3. paperOrders' = [paperOrders EXCEPT ![paperWorker[a].n] = b]
  BY DEF Book
<1> HIDE DEF b
<1> QED BY <1>1, <1>2, <1>3

\* A purchase in the sums.
LEMMA BoughtSums ==
    ASSUME NEW a, paperOrders[paperWorker[a].n] \in OrderSums, NEW x \in Int, NEW y \in Int
    PROVE  LET o == paperOrders[paperWorker[a].n]
               k == Bought(a, x, y)
           IN /\ k \in OrderSums /\ k.bought = o.bought + x /\ k.spent = o.spent + y
              /\ k.sold = o.sold /\ k.received = o.received /\ k.legBuys = o.legBuys /\ k.lost = o.lost
<1>1. PICK r \in OrderSums : r = paperOrders[paperWorker[a].n]
  OBVIOUS
<1>2. PICK x1 \in Int, y1 \in Int : x1 = r.bought + x /\ y1 = r.spent + y
  BY DEF OrderSums
<1>3. Bought(a, x, y) = [r EXCEPT !.bought = x1, !.spent = y1]
  BY <1>1, <1>2 DEF Bought
<1> QED BY <1>1, <1>2, <1>3 DEF OrderSums

\* What the sums of the orders say of the position before the purchase.
Purchase(a, b, x, y) ==
    LET p == paper[paperWorker[a].n]
    IN /\ paperOrders' = [paperOrders EXCEPT ![paperWorker[a].n] = b]
       /\ ~b.lost => /\ paperWorker[a].view = p
                     /\ Basket(p).quantity + x = b.bought - b.sold
                     /\ p.pnl = b.received - b.spent + Basket(p).cost + y
                     /\ Basket(p).cost <= PaperBot.riskBudget

\* A purchase booked: what the sums then say of the position before it.
LEMMA PurchaseBooked ==
    ASSUME PaperInv, NEW a \in PaperActors, paperWorker[a].pc \in Holding,
           NEW x \in Int, NEW y \in Int, NEW k, k = Bought(a, x, y),
           NEW c \in OrderSums, c.bought = k.bought, c.spent = k.spent, c.sold = k.sold,
           c.received = k.received, c.lost = k.lost, Book(a, c)
    PROVE  \E b \in OrderSums : Purchase(a, b, x, y) /\ b.legBuys = c.legBuys
<1> DEFINE n == paperWorker[a].n
           p == paper[n]
           o == paperOrders[n]
<1>1. n \in DOMAIN paper /\ p \in PositionRows /\ o \in OrderSums
  BY WhatIsHeld
<1>2. /\ c.bought = o.bought + x /\ c.spent = o.spent + y
      /\ c.sold = o.sold /\ c.received = o.received /\ c.lost = o.lost
  BY <1>1, BoughtSums
<1>3. Book(a, c)
  OBVIOUS
<1>4. PICK b \in OrderSums :
               /\ paperOrders' = [paperOrders EXCEPT ![n] = b]
               /\ b.bought = c.bought /\ b.sold = c.sold /\ b.spent = c.spent /\ b.received = c.received
               /\ b.legBuys = c.legBuys
               /\ ~b.lost => ~c.lost /\ paperWorker[a].view = p
  BY <1>3, PaperBooked
<1>5. ~b.lost => /\ paperWorker[a].view = p
                  /\ Basket(p).quantity + x = b.bought - b.sold
                  /\ p.pnl = b.received - b.spent + Basket(p).cost + y
                  /\ Basket(p).cost <= PaperBot.riskBudget
  <2> SUFFICES ASSUME ~b.lost
               PROVE  /\ paperWorker[a].view = p
                      /\ Basket(p).quantity + x = b.bought - b.sold
                      /\ p.pnl = b.received - b.spent + Basket(p).cost + y
                      /\ Basket(p).cost <= PaperBot.riskBudget
    OBVIOUS
  <2>1. /\ Basket(p).quantity = o.bought - o.sold
        /\ p.pnl = o.received - o.spent + Basket(p).cost
        /\ Basket(p).cost <= PaperBot.riskBudget
    BY <1>1, <1>2, <1>4 DEF PaperInv, RowsInv, Agree
  <2>2. o.bought \in Int /\ o.sold \in Int /\ o.spent \in Int /\ o.received \in Int
    BY <1>1 DEF OrderSums
  <2>3. Basket(p).quantity \in Nat /\ Basket(p).cost \in Nat
    BY <1>1, BasketIsNat
  <2>4. b.bought = o.bought + x /\ b.spent = o.spent + y /\ b.sold = o.sold /\ b.received = o.received
    BY <1>2, <1>4
  <2>5. Basket(p).quantity + x = b.bought - b.sold
    BY <2>1, <2>2, <2>4
  <2>6. p.pnl = b.received - b.spent + Basket(p).cost + y
    BY <2>1, <2>2, <2>3, <2>4
  <2> QED BY <1>4, <2>1, <2>5, <2>6
<1> QED BY <1>4, <1>5 DEF Purchase

\* A sale, likewise.
Sale(a, b, x, y) ==
    LET p == paper[paperWorker[a].n]
    IN /\ paperOrders' = [paperOrders EXCEPT ![paperWorker[a].n] = b]
       /\ ~b.lost => /\ paperWorker[a].view = p
                     /\ Basket(p).quantity - x = b.bought - b.sold
                     /\ p.pnl + y = b.received - b.spent + Basket(p).cost
                     /\ Basket(p).cost <= PaperBot.riskBudget

LEMMA PaperSaleBooked ==
    ASSUME PaperInv, NEW a \in PaperActors, paperWorker[a].pc \in Holding,
           NEW x \in Int, NEW y \in Int, Book(a, Sold(a, x, y))
    PROVE  \E b \in OrderSums : Sale(a, b, x, y) /\ b.legBuys = paperOrders[paperWorker[a].n].legBuys
<1> DEFINE n == paperWorker[a].n
           p == paper[n]
           o == paperOrders[n]
           c == Sold(a, x, y)
<1>1. n \in DOMAIN paper /\ p \in PositionRows /\ o \in OrderSums
  BY WhatIsHeld
<1>2. /\ c \in OrderSums /\ c.sold = o.sold + x /\ c.received = o.received + y
      /\ c.bought = o.bought /\ c.spent = o.spent /\ c.legBuys = o.legBuys /\ c.lost = o.lost
  <2>1. PICK r \in OrderSums : r = o
    BY <1>1
  <2>2. PICK x1 \in Int, y1 \in Int : x1 = r.sold + x /\ y1 = r.received + y
    BY DEF OrderSums
  <2>3. c = [r EXCEPT !.sold = x1, !.received = y1]
    BY <2>1, <2>2 DEF Sold
  <2> QED BY <2>1, <2>2, <2>3 DEF OrderSums
<1>3. Book(a, c)
  OBVIOUS
<1> HIDE DEF c
<1>4. PICK b \in OrderSums :
               /\ paperOrders' = [paperOrders EXCEPT ![n] = b]
               /\ b.bought = c.bought /\ b.sold = c.sold /\ b.spent = c.spent /\ b.received = c.received
               /\ b.legBuys = c.legBuys
               /\ ~b.lost => ~c.lost /\ paperWorker[a].view = p
  BY <1>2, <1>3, PaperBooked
<1>5. ~b.lost => /\ paperWorker[a].view = p
                 /\ Basket(p).quantity - x = b.bought - b.sold
                 /\ p.pnl + y = b.received - b.spent + Basket(p).cost
                 /\ Basket(p).cost <= PaperBot.riskBudget
  <2> SUFFICES ASSUME ~b.lost
               PROVE  /\ paperWorker[a].view = p
                      /\ Basket(p).quantity - x = b.bought - b.sold
                      /\ p.pnl + y = b.received - b.spent + Basket(p).cost
                      /\ Basket(p).cost <= PaperBot.riskBudget
    OBVIOUS
  <2>1. /\ Basket(p).quantity = o.bought - o.sold
        /\ p.pnl = o.received - o.spent + Basket(p).cost
        /\ Basket(p).cost <= PaperBot.riskBudget
    BY <1>1, <1>2, <1>4 DEF PaperInv, RowsInv, Agree
  <2>2. o.bought \in Int /\ o.sold \in Int /\ o.spent \in Int /\ o.received \in Int
    BY <1>1 DEF OrderSums
  <2>3. Basket(p).quantity \in Nat /\ Basket(p).cost \in Nat
    BY <1>1, BasketIsNat
  <2>4. b.sold = o.sold + x /\ b.received = o.received + y /\ b.bought = o.bought /\ b.spent = o.spent
    BY <1>2, <1>4
  <2>5. Basket(p).quantity - x = b.bought - b.sold
    BY <2>1, <2>2, <2>4
  <2>6. p.pnl + y = b.received - b.spent + Basket(p).cost
    BY <2>1, <2>2, <2>3, <2>4
  <2> QED BY <1>4, <2>1, <2>5, <2>6
<1> QED BY <1>2, <1>4, <1>5 DEF Sale

\* The levels a bot may buy after the first one.
LEMMA LevelsOfPlan ==
    ASSUME NEW l \in Nat, l + 2 \in DOMAIN PaperPlan
    PROVE  l + 2 \in Levels /\ PaperPlan[l + 2].quote \in Nat
<1>1. DOMAIN PaperPlan \subseteq 1..(PaperBot.maxDcaOrders + 1)
  BY DEF PaperPlan, BuildPlan
<1>2. PaperPlan[l + 2].quote \in Nat
  BY PaperTradingAssumption DEF PaperPlan
<1>4. l + 2 \in 2..(PaperBot.maxDcaOrders + 1)
  BY <1>1
<1> QED BY <1>2, <1>4 DEF Levels

LEMMA WholeQuantity ==
    ASSUME NEW x \in Nat, NEW y \in Nat \ {0}
    PROVE  x \div y \in Nat
OBVIOUS

LEMMA DcaRewrites ==
    ASSUME PaperInv, NEW a \in PaperActors, paperWorker[a].pc \in Holding, Possible(a, "dca"), ExecuteDca(a)
    PROVE  \E q : Rewrites(paperWorker[a].n, q)
<1> DEFINE w == paperWorker[a]
           n == w.n
           p == w.view
           r == paper[n]
           level == p.dcaCount + 2
           quote == PaperPlan[level].quote
           quantity == quote \div w.price
           leg == PaperPlan[level].independent
           newQuantity == IF leg THEN p.quantity ELSE p.quantity + quantity
           newCost == IF leg THEN p.cost ELSE p.cost + quote
           newLeg == [level |-> level, status |-> "OPEN", quantity |-> quantity, cost |-> quote,
                      entry |-> w.price, tp |-> PriceUp(w.price, 1, PaperBot.subTakeProfit)]
           legs == IF leg THEN Append(r.legs, newLeg) ELSE r.legs
           more == IF leg THEN 1 ELSE 0
<1>1. /\ n \in DOMAIN paper /\ w.price \in Nat \ {0} /\ p \in PositionRows /\ r \in PositionRows
      /\ paperOrders[n] \in OrderSums
  BY WhatIsHeld
<1>2. /\ level \in DOMAIN PaperPlan /\ WithinBudget(quote, Basket(p).cost, PaperBot.riskBudget)
      /\ leg => \A i \in DOMAIN r.legs : r.legs[i].level # level
  BY DEF Possible
<1>3. p.dcaCount \in Nat /\ level \in Levels /\ level \in Nat /\ quote \in Nat
  <2>1. p.dcaCount \in Nat
    BY <1>1 DEF PositionRows
  <2> QED BY <1>2, <2>1, LevelsOfPlan
<1>4. quantity \in Nat
  <2> HIDE DEF w, quote
  <2> QED BY <1>1, <1>3, WholeQuantity
<1>5. newQuantity \in Nat /\ newCost \in Nat
  <2>1. p.quantity \in Nat /\ p.cost \in Nat
    BY <1>1, BasketIsNat
  <2> HIDE DEF quantity, quote, p, leg
  <2> QED BY <1>3, <1>4, <2>1
<1>6. newLeg \in LegRows
  <2>1. w.price \in Int /\ PriceUp(w.price, 1, PaperBot.subTakeProfit) \in Int
    BY <1>1, TriggersArePrices
  <2> HIDE DEF w, level, quantity, quote
  <2> QED BY <1>3, <1>4, <2>1 DEF LegRows
<1>7. PICK x, t : /\ x = NextDcaPrice(level + 1, w.price)
                  /\ t = IF (leg \/ p.tpManual) /\ p.tp # NoPrice
                         THEN p.tp ELSE Average(newCost, newQuantity, PaperBot.takeProfit)
  OBVIOUS
<1>8. x \in Int /\ t \in Int
  <2>1. p.tp \in Int
    BY <1>1 DEF PositionRows
  <2>2. x \in Int
    BY <1>7, TriggersArePrices DEF NextDcaPrice, PriceDown, NoPrice
  <2>3. Average(newCost, newQuantity, PaperBot.takeProfit) \in Int
    BY TriggersArePrices DEF Average
  <2> QED BY <1>7, <2>1, <2>2, <2>3
<1>9. PICK q : q = [r EXCEPT !.legs = legs, !.quantity = newQuantity,
                             !.cost = newCost, !.dcaCount = p.dcaCount + 1, !.nextDca = x, !.tp = t]
  OBVIOUS
<1>10. paper' = [paper EXCEPT ![n] = q]
  BY <1>7, <1>9 DEF ExecuteDca
<1>11. legs \in Seq(LegRows) /\ DOMAIN r.legs \subseteq DOMAIN legs
       /\ (leg => legs = Append(r.legs, newLeg)) /\ (~leg => legs = r.legs)
       /\ \A i \in DOMAIN r.legs : legs[i] = r.legs[i]
  <2>1. r.legs \in Seq(LegRows)
    BY <1>1 DEF PositionRows
  <2> HIDE DEF newLeg, r, leg
  <2> QED BY <1>6, <2>1
<1>12. q \in PositionRows /\ q.legs = legs /\ q.quantity = newQuantity /\ q.cost = newCost /\ q.pnl = r.pnl
  <2>1. p.dcaCount + 1 \in Nat
    BY <1>3
  <2> HIDE DEF legs, newQuantity, newCost, p, r
  <2> QED BY <1>1, <1>5, <1>8, <1>9, <1>11, <2>1 DEF PositionRows
<1>13. Book(a, [Bought(a, quantity, quote) EXCEPT !.legBuys[level] = @ + more])
  BY DEF ExecuteDca
<1>14. PICK b \in OrderSums :
               /\ paperOrders' = [paperOrders EXCEPT ![n] = b]
               /\ ~b.lost => /\ p = r
                             /\ Basket(r).quantity + quantity = b.bought - b.sold
                             /\ r.pnl = b.received - b.spent + Basket(r).cost + quote
                             /\ Basket(r).cost <= PaperBot.riskBudget
               /\ \A l \in Levels : b.legBuys[l] = paperOrders[n].legBuys[l] + (IF l = level THEN more ELSE 0)
  <2>1. quantity \in Int /\ quote \in Int /\ more \in {0, 1}
    BY <1>3, <1>4
  <2>2. PICK k, c : k = Bought(a, quantity, quote) /\ c = [k EXCEPT !.legBuys[level] = @ + more]
    OBVIOUS
  <2> HIDE DEF quantity, quote, more, level
  <2>3. Book(a, c)
    BY <1>13, <2>2
  <2>4. k \in OrderSums /\ k.legBuys = paperOrders[n].legBuys
    BY <1>1, <2>1, <2>2, BoughtSums
  <2>5. /\ c \in OrderSums /\ c.bought = k.bought /\ c.spent = k.spent
        /\ c.sold = k.sold /\ c.received = k.received /\ c.lost = k.lost
        /\ \A l \in Levels : c.legBuys[l] = k.legBuys[l] + (IF l = level THEN more ELSE 0)
    <3>1. k.legBuys \in [Levels -> Nat]
      BY <2>4 DEF OrderSums
    <3>2. PICK f : f = [k.legBuys EXCEPT ![level] = @ + more]
      OBVIOUS
    <3>3. f \in [Levels -> Nat] /\ \A l \in Levels : f[l] = k.legBuys[l] + (IF l = level THEN more ELSE 0)
      BY <1>3, <2>1, <3>1, <3>2
    <3>4. c = [k EXCEPT !.legBuys = f]
      BY <2>2, <3>2
    <3> QED BY <2>4, <3>3, <3>4 DEF OrderSums
  <2>6. PICK b \in OrderSums :
               /\ paperOrders' = [paperOrders EXCEPT ![n] = b]
               /\ ~b.lost => /\ p = r
                             /\ Basket(r).quantity + quantity = b.bought - b.sold
                             /\ r.pnl = b.received - b.spent + Basket(r).cost + quote
                             /\ Basket(r).cost <= PaperBot.riskBudget
               /\ b.legBuys = c.legBuys
    <3>1. PICK x1 \in Int, y1 \in Int : x1 = quantity /\ y1 = quote
      BY <2>1
    <3>2. k = Bought(a, x1, y1) /\ c \in OrderSums
      BY <2>2, <2>5, <3>1
    <3>3. \E b \in OrderSums : Purchase(a, b, x1, y1) /\ b.legBuys = c.legBuys
      BY <2>3, <2>5, <3>2, PurchaseBooked
    <3> QED BY <3>1, <3>3 DEF Purchase
  <2> QED BY <2>4, <2>5, <2>6
<1>15. Agree(q, b)
  <2> SUFFICES ASSUME ~b.lost
               PROVE  /\ Basket(q).quantity = b.bought - b.sold
                      /\ q.pnl = b.received - b.spent + Basket(q).cost
                      /\ Basket(q).cost <= PaperBot.riskBudget
    BY DEF Agree
  <2>1. p = r /\ Basket(r).cost + quote <= PaperBot.riskBudget
    BY <1>2, <1>14 DEF WithinBudget
  <2>2. Basket(q).quantity = Basket(r).quantity + quantity /\ Basket(q).cost = Basket(r).cost + quote
    <3>1. r.quantity \in Nat /\ r.cost \in Nat /\ Basket(r).quantity \in Nat /\ Basket(r).cost \in Nat
      BY <1>1, BasketIsNat
    <3>2. CASE leg
      <4>1. /\ Basket(q).quantity = Basket(r).quantity - r.quantity + q.quantity + newLeg.quantity
            /\ Basket(q).cost = Basket(r).cost - r.cost + q.cost + newLeg.cost
        <5>1. newLeg.status = "OPEN" /\ q.legs = Append(r.legs, newLeg)
          BY <1>11, <1>12, <3>2
        <5> HIDE DEF newLeg, r
        <5> QED BY <1>1, <1>6, <1>12, <5>1, LegAdded
      <4>2. q.quantity = r.quantity /\ q.cost = r.cost
        BY <1>12, <2>1, <3>2
      <4>3. newLeg.quantity = quantity /\ newLeg.cost = quote
        OBVIOUS
      <4> HIDE DEF newLeg, r, quantity, quote
      <4> QED BY <1>3, <1>4, <3>1, <4>1, <4>2, <4>3
    <3>3. CASE ~leg
      <4>1. /\ Basket(q).quantity = Basket(r).quantity - r.quantity + q.quantity
            /\ Basket(q).cost = Basket(r).cost - r.cost + q.cost
        <5>1. q.legs = r.legs
          BY <1>11, <1>12, <3>3
        <5> HIDE DEF r
        <5> QED BY <1>1, <1>12, <5>1, SameLegs
      <4>2. q.quantity = r.quantity + quantity /\ q.cost = r.cost + quote
        BY <1>12, <2>1, <3>3
      <4> HIDE DEF r, quantity, quote
      <4> QED BY <1>3, <1>4, <3>1, <4>1, <4>2
    <3> QED BY <1>3, <3>2, <3>3
  <2>3. Basket(r).cost \in Nat /\ r.pnl \in Int /\ b.received \in Int /\ b.spent \in Int
    BY <1>1, BasketIsNat DEF PositionRows, OrderSums
  <2> HIDE DEF r, quantity, quote
  <2>4. q.pnl = b.received - b.spent + (Basket(r).cost + quote)
    BY <1>3, <1>12, <1>14, <2>3
  <2> QED BY <1>14, <2>1, <2>2, <2>4
<1>16. LegsKept(q, b)
  <2> SUFFICES ASSUME NEW l \in Levels
               PROVE  /\ b.legBuys[l] <= 1
                      /\ b.legBuys[l] > 0 => \E i \in DOMAIN q.legs : q.legs[i].level = l
    BY DEF LegsKept
  <2>1. /\ paperOrders[n].legBuys[l] \in Nat /\ paperOrders[n].legBuys[l] <= 1
        /\ paperOrders[n].legBuys[l] > 0 => \E i \in DOMAIN r.legs : r.legs[i].level = l
    BY <1>1 DEF PaperInv, RowsInv, LegsKept, OrderSums
  <2>2. CASE l = level /\ leg
    <3>1. paperOrders[n].legBuys[l] = 0
      BY <1>2, <2>1, <2>2
    <3>2. b.legBuys[l] = 1
      BY <1>14, <2>2, <3>1
    <3>3. \E i \in DOMAIN q.legs : q.legs[i].level = l
      <4>1. q.legs = Append(r.legs, newLeg) /\ r.legs \in Seq(LegRows)
        BY <1>1, <1>11, <1>12, <2>2 DEF PositionRows
      <4>2. newLeg.level = l
        BY <2>2
      <4> HIDE DEF newLeg, r
      <4>3. Len(r.legs) + 1 \in DOMAIN q.legs /\ q.legs[Len(r.legs) + 1] = newLeg
        BY <4>1
      <4> QED BY <4>2, <4>3
    <3> QED BY <3>2, <3>3
  <2>3. CASE ~(l = level /\ leg)
    <3>1. b.legBuys[l] = paperOrders[n].legBuys[l]
      BY <1>14, <2>1, <2>3
    <3>2. ASSUME NEW i \in DOMAIN r.legs, r.legs[i].level = l
          PROVE  i \in DOMAIN q.legs /\ q.legs[i].level = l
      BY <1>11, <1>12, <3>2
    <3> QED BY <2>1, <3>1, <3>2
  <2> QED BY <2>2, <2>3
<1> QED BY <1>10, <1>11, <1>12, <1>14, <1>15, <1>16 DEF Rewrites

\* A position whose legs keep their levels keeps its legs.
LEMMA LevelsStay ==
    ASSUME PaperInv, NEW n \in DOMAIN paper, NEW q \in PositionRows, NEW b \in OrderSums,
           b.legBuys = paperOrders[n].legBuys, DOMAIN q.legs = DOMAIN paper[n].legs,
           \A i \in DOMAIN q.legs : q.legs[i].level = paper[n].legs[i].level
    PROVE  LegsKept(q, b)
<1>1. LegsKept(paper[n], paperOrders[n])
  BY DEF PaperInv, RowsInv
<1> QED BY <1>1 DEF LegsKept

\* The price of a whole quantity.
LEMMA PaperProceeds ==
    ASSUME NEW x \in Nat, NEW y \in Nat
    PROVE  x * y \in Nat
OBVIOUS

LEMMA CloseRewrites ==
    ASSUME PaperInv, NEW a \in PaperActors, paperWorker[a].pc \in Holding, ExecuteClose(a)
    PROVE  \E q : Rewrites(paperWorker[a].n, q)
<1> DEFINE w == paperWorker[a]
           n == w.n
           p == w.view
           r == paper[n]
           y == p.quantity * w.price
           pnl == p.pnl + y - p.cost
           status == IF OpenLegs(p) # {} THEN "OPEN" ELSE "CLOSED"
<1>1. /\ n \in DOMAIN paper /\ w.price \in Nat \ {0} /\ p \in PositionRows /\ r \in PositionRows
      /\ paperOrders[n] \in OrderSums
  BY WhatIsHeld
<1>2. p.quantity \in Nat /\ p.cost \in Nat /\ p.pnl \in Int
  BY <1>1 DEF PositionRows
<1>3. y \in Nat
  BY <1>1, <1>2, PaperProceeds
<1>4. pnl \in Int
  <2> HIDE DEF y
  <2> QED BY <1>2, <1>3
<1>5. PICK q : q = [r EXCEPT !.status = status, !.quantity = 0, !.cost = 0, !.pnl = pnl,
                             !.nextDca = NoPrice, !.tp = NoPrice]
  OBVIOUS
<1>6. paper' = [paper EXCEPT ![n] = q] /\ Book(a, Sold(a, p.quantity, y))
  BY <1>5 DEF ExecuteClose
<1>7. q \in PositionRows /\ q.quantity = 0 /\ q.cost = 0 /\ q.pnl = pnl /\ q.legs = r.legs
  <2>1. status \in {"OPEN", "CLOSED"} /\ NoPrice \in Int
    BY DEF NoPrice
  <2> HIDE DEF pnl, r, status
  <2> QED BY <1>1, <1>4, <1>5, <2>1 DEF PositionRows
<1>8. PICK b \in OrderSums : Sale(a, b, p.quantity, y) /\ b.legBuys = paperOrders[n].legBuys
  <2>1. PICK x1 \in Int, y1 \in Int : x1 = p.quantity /\ y1 = y
    BY <1>2, <1>3
  <2>2. Book(a, Sold(a, x1, y1))
    BY <1>6, <2>1
  <2>3. \E b \in OrderSums : Sale(a, b, x1, y1) /\ b.legBuys = paperOrders[n].legBuys
    BY <2>2, PaperSaleBooked
  <2> QED BY <2>1, <2>3
<1>9. Agree(q, b)
  <2> SUFFICES ASSUME ~b.lost
               PROVE  /\ Basket(q).quantity = b.bought - b.sold
                      /\ q.pnl = b.received - b.spent + Basket(q).cost
                      /\ Basket(q).cost <= PaperBot.riskBudget
    BY DEF Agree
  <2>1. /\ p = r /\ Basket(r).quantity - r.quantity = b.bought - b.sold
        /\ r.pnl + y = b.received - b.spent + Basket(r).cost
        /\ Basket(r).cost <= PaperBot.riskBudget
    BY <1>8 DEF Sale
  <2>2. /\ Basket(q).quantity = Basket(r).quantity - r.quantity + q.quantity
        /\ Basket(q).cost = Basket(r).cost - r.cost + q.cost
    BY <1>1, <1>7, SameLegs
  <2>3. /\ Basket(r).quantity \in Nat /\ Basket(r).cost \in Nat /\ r.quantity \in Nat /\ r.cost \in Nat
        /\ r.pnl \in Int /\ b.received \in Int /\ b.spent \in Int /\ b.bought \in Int /\ b.sold \in Int
    BY <1>1, BasketIsNat DEF PositionRows, OrderSums
  <2>4. q.pnl = r.pnl + y - r.cost
    BY <1>7, <2>1
  <2> HIDE DEF r, y, pnl
  <2>5. Basket(q).quantity = b.bought - b.sold
    BY <1>7, <2>1, <2>2, <2>3
  <2>6. q.pnl = b.received - b.spent + Basket(q).cost
    <3>1. PICK c, d, e, f, g : /\ c = Basket(r).cost /\ d = r.cost /\ e = r.pnl
                               /\ f = b.received /\ g = b.spent
      OBVIOUS
    <3>2. c \in Nat /\ d \in Nat /\ e \in Int /\ f \in Int /\ g \in Int
      BY <2>3, <3>1
    <3>3. Basket(q).cost = c - d + 0
      BY <1>7, <2>2, <3>1
    <3>4. e + y = f - g + c /\ q.pnl = e + y - d
      BY <2>1, <2>4, <3>1
    <3>5. e + y - d = f - g + (c - d + 0)
      BY <1>3, <3>2, <3>4
    <3> QED BY <3>1, <3>3, <3>4, <3>5
  <2>7. Basket(q).cost <= PaperBot.riskBudget
    BY <1>7, <2>1, <2>2, <2>3, PaperTradingAssumption
  <2> QED BY <2>5, <2>6, <2>7
<1>10. LegsKept(q, b)
  BY <1>1, <1>7, <1>8, LevelsStay
<1> QED BY <1>6, <1>7, <1>8, <1>9, <1>10 DEF Rewrites, Sale

\* What the sold legs hold is the sum over them.
LEMMA SoldLegs ==
    ASSUME NEW p \in PositionRows, NEW T, T \subseteq OpenLegs(p),
           NEW s, s = [i \in DOMAIN p.legs |->
                          [p.legs[i] EXCEPT !.status = IF i \in T THEN "OPEN" ELSE "CLOSED"]]
    PROVE  /\ BasketTotals([quantity |-> 0, cost |-> 0], s).quantity = SumOf(Quantities(p), T)
           /\ BasketTotals([quantity |-> 0, cost |-> 0], s).cost = SumOf(Costs(p), T)
<1>1. T \subseteq DOMAIN p.legs
  BY DEF OpenLegs
<1>2. \A i \in DOMAIN p.legs : p.legs[i] \in LegRows
  BY LegsAreFinite
<1>3. DOMAIN s = DOMAIN p.legs
      /\ \A i \in DOMAIN p.legs : /\ s[i].status = (IF i \in T THEN "OPEN" ELSE "CLOSED")
                                  /\ s[i].quantity = p.legs[i].quantity /\ s[i].cost = p.legs[i].cost
  BY <1>2 DEF LegRows
<1>4. {i \in DOMAIN s : s[i].status = "OPEN"} = T
  BY <1>1, <1>3
<1>5. [i \in DOMAIN s |-> s[i].quantity] = Quantities(p) /\ [i \in DOMAIN s |-> s[i].cost] = Costs(p)
  BY <1>3 DEF Quantities, Costs
<1>6. SumOf(Quantities(p), T) \in Nat /\ SumOf(Costs(p), T) \in Nat
  BY <1>1, LegSumsAreNat
<1>7. /\ BasketTotals([quantity |-> 0, cost |-> 0], s).quantity = 0 + SumOf(Quantities(p), T)
      /\ BasketTotals([quantity |-> 0, cost |-> 0], s).cost = 0 + SumOf(Costs(p), T)
  BY <1>4, <1>5, SumFunctionIsSum DEF BasketTotals
<1> QED BY <1>6, <1>7

\* The tick goes on with the row as it is after the sale of its legs.
LEMMA PaperSaleKeeps ==
    ASSUME PaperInv, NEW a \in PaperActors, CloseEligibleSubPositions(a)
    PROVE  PaperInv'
<1> DEFINE w == paperWorker[a]
           n == w.n
           p == w.view
           r == paper[n]
           T == EligibleLegs(p, w.price)
           s == [i \in DOMAIN p.legs |-> [p.legs[i] EXCEPT !.status = IF i \in T THEN "OPEN" ELSE "CLOSED"]]
           sold == BasketTotals([quantity |-> 0, cost |-> 0], s)
           y == sold.quantity * w.price
           closed == p.quantity = 0 /\ OpenLegs(p) \subseteq T
           legs == [i \in DOMAIN r.legs |-> IF i \in T THEN [r.legs[i] EXCEPT !.status = "CLOSED"] ELSE r.legs[i]]
           pnl == p.pnl + y - sold.cost
<1>1. w.pc \in Holding
  BY DEF CloseEligibleSubPositions, Holding
<1>2. /\ n \in DOMAIN paper /\ w.price \in Nat \ {0} /\ p \in PositionRows /\ r \in PositionRows
      /\ paperOrders[n] \in OrderSums /\ w \in WorkerRows /\ w.price \in Prices
  BY <1>1, WhatIsHeld
<1>3. p.quantity \in Nat /\ p.cost \in Nat /\ p.pnl \in Int
  BY <1>2 DEF PositionRows
<1>4. T \subseteq OpenLegs(p) /\ T \subseteq DOMAIN p.legs
  BY DEF EligibleLegs, OpenLegs
<1>5. /\ sold.quantity = SumOf(Quantities(p), T) /\ sold.cost = SumOf(Costs(p), T)
      /\ sold.quantity \in Nat /\ sold.cost \in Nat
  <2>1. sold.quantity = SumOf(Quantities(p), T) /\ sold.cost = SumOf(Costs(p), T)
    <3>1. PICK s0, T0 : s0 = s /\ T0 = T
      OBVIOUS
    <3>2. s0 = [i \in DOMAIN p.legs |-> [p.legs[i] EXCEPT !.status = IF i \in T0 THEN "OPEN" ELSE "CLOSED"]]
      BY <3>1
    <3>3. T0 \subseteq OpenLegs(p)
      BY <1>4, <3>1
    <3> HIDE DEF s, T, p
    <3>4. /\ BasketTotals([quantity |-> 0, cost |-> 0], s0).quantity = SumOf(Quantities(p), T0)
          /\ BasketTotals([quantity |-> 0, cost |-> 0], s0).cost = SumOf(Costs(p), T0)
      BY <1>2, <3>2, <3>3, SoldLegs
    <3> QED BY <3>1, <3>4
  <2>2. SumOf(Quantities(p), T) \in Nat /\ SumOf(Costs(p), T) \in Nat
    BY <1>2, <1>4, LegSumsAreNat
  <2> HIDE DEF sold, T
  <2> QED BY <2>1, <2>2
<1>6. y \in Nat
  <2> HIDE DEF sold
  <2> QED BY <1>2, <1>5, PaperProceeds
<1>7. pnl \in Int
  <2> HIDE DEF y, sold
  <2> QED BY <1>3, <1>5, <1>6
<1>8. PICK t, st : /\ t = (IF p.quantity > 0 THEN PriceUp(p.cost, p.quantity, PaperBot.takeProfit) ELSE NoPrice)
                   /\ st = (IF closed THEN "CLOSED" ELSE "OPEN")
  OBVIOUS
<1>9. PICK q : q = [r EXCEPT !.legs = legs, !.quantity = p.quantity, !.cost = p.cost, !.pnl = pnl,
                             !.tp = t, !.status = st]
  OBVIOUS
<1>10. /\ paper' = [paper EXCEPT ![n] = q] /\ Book(a, Sold(a, sold.quantity, y))
       /\ paperWorker' = [paperWorker EXCEPT ![a].pc = "act", ![a].view = paper'[n]]
       /\ UNCHANGED <<paperRunning, paperRequests>>
  BY <1>8, <1>9 DEF CloseEligibleSubPositions
<1>11. legs \in Seq(LegRows) /\ DOMAIN legs = DOMAIN r.legs
       /\ \A i \in DOMAIN r.legs : legs[i].level = r.legs[i].level
  <2>1. r.legs \in Seq(LegRows) /\ \A i \in DOMAIN r.legs : r.legs[i] \in LegRows
    BY <1>2, LegsAreFinite DEF PositionRows
  <2>2. \A i \in DOMAIN r.legs : [r.legs[i] EXCEPT !.status = "CLOSED"] \in LegRows
    BY <2>1 DEF LegRows
  <2>3. \A i \in DOMAIN r.legs : legs[i] \in LegRows /\ legs[i].level = r.legs[i].level
    BY <2>1, <2>2 DEF LegRows
  <2>4. DOMAIN r.legs = 1..Len(r.legs) /\ Len(r.legs) \in Nat
    BY <2>1
  <2>5. legs \in [1..Len(r.legs) -> LegRows]
    BY <2>3, <2>4
  <2> HIDE DEF legs, r
  <2> QED BY <2>3, <2>4, <2>5
<1>12. /\ q \in PositionRows /\ q.quantity = p.quantity /\ q.cost = p.cost /\ q.pnl = pnl /\ q.legs = legs
  <2>1. st \in {"OPEN", "CLOSED"} /\ t \in Int
    BY <1>8, TriggersArePrices DEF NoPrice
  <2> HIDE DEF pnl, r, legs, p
  <2> QED BY <1>2, <1>3, <1>7, <1>9, <1>11, <2>1 DEF PositionRows
<1>13. PICK b \in OrderSums : Sale(a, b, sold.quantity, y) /\ b.legBuys = paperOrders[n].legBuys
  <2>1. PICK x1 \in Int, y1 \in Int : x1 = sold.quantity /\ y1 = y
    <3> HIDE DEF sold, y
    <3> QED BY <1>5, <1>6
  <2>2. Book(a, Sold(a, x1, y1))
    BY <1>10, <2>1
  <2>3. \E b \in OrderSums : Sale(a, b, x1, y1) /\ b.legBuys = paperOrders[n].legBuys
    BY <1>1, <2>2, PaperSaleBooked
  <2> QED BY <2>1, <2>3
<1>14. Agree(q, b)
  <2> SUFFICES ASSUME ~b.lost
               PROVE  /\ Basket(q).quantity = b.bought - b.sold
                      /\ q.pnl = b.received - b.spent + Basket(q).cost
                      /\ Basket(q).cost <= PaperBot.riskBudget
    BY DEF Agree
  <2>1. PICK c, d, e, f, g : /\ c = Basket(r).cost /\ d = sold.cost /\ e = r.pnl
                             /\ f = b.received /\ g = b.spent
    OBVIOUS
  <2>2. PICK u, v : u = Basket(r).quantity /\ v = sold.quantity
    OBVIOUS
  <2>3. /\ p = r /\ u - v = b.bought - b.sold /\ e + y = f - g + c
        /\ c <= PaperBot.riskBudget
    BY <1>13, <2>1, <2>2 DEF Sale
  <2>4. /\ u \in Nat /\ c \in Nat /\ r.quantity \in Nat /\ r.cost \in Nat
        /\ e \in Int /\ f \in Int /\ g \in Int /\ v \in Nat /\ d \in Nat
    BY <1>2, <1>5, <2>1, <2>2, BasketIsNat DEF PositionRows, OrderSums
  <2>5. /\ Basket(q).quantity = u - r.quantity + q.quantity - v
        /\ Basket(q).cost = c - r.cost + q.cost - d
    <3>1. DOMAIN q.legs = DOMAIN r.legs /\ T \subseteq OpenLegs(r)
      BY <1>4, <1>11, <1>12, <2>3
    <3>2. \A i \in T : q.legs[i].status = "CLOSED"
      <4>1. \A i \in T : i \in DOMAIN r.legs /\ r.legs[i] \in LegRows
        BY <1>2, <1>4, <2>3 DEF PositionRows
      <4> QED BY <1>12, <4>1 DEF LegRows
    <3>3. \A i \in DOMAIN r.legs \ T : q.legs[i] = r.legs[i]
      BY <1>12
    <3> HIDE DEF T, r, legs, pnl, p
    <3>4. /\ Basket(q).quantity = Basket(r).quantity - r.quantity + q.quantity - SumOf(Quantities(r), T)
          /\ Basket(q).cost = Basket(r).cost - r.cost + q.cost - SumOf(Costs(r), T)
      <4>1. q \in PositionRows /\ r \in PositionRows
        BY <1>2, <1>12
      <4> QED BY <3>1, <3>2, <3>3, <4>1, LegsClosed
    <3>5. v = SumOf(Quantities(r), T) /\ d = SumOf(Costs(r), T)
      BY <1>5, <2>1, <2>2, <2>3
    <3> QED BY <2>1, <2>2, <3>4, <3>5
  <2>6. q.pnl = e + y - d /\ q.quantity = r.quantity /\ q.cost = r.cost
    BY <1>12, <2>1, <2>3
  <2> HIDE DEF r, y, pnl
  <2>7. Basket(q).quantity = b.bought - b.sold
    BY <2>3, <2>4, <2>5, <2>6
  <2>8. Basket(q).cost = c - d
    BY <2>4, <2>5, <2>6
  <2>9. q.pnl = f - g + (c - d)
    BY <1>6, <2>3, <2>4, <2>6
  <2>10. c - d <= PaperBot.riskBudget
    BY <2>3, <2>4, PaperTradingAssumption
  <2> QED BY <2>1, <2>7, <2>8, <2>9, <2>10
<1>15. LegsKept(q, b)
  <2> HIDE DEF legs, pnl, r, y, sold
  <2>1. DOMAIN q.legs = DOMAIN r.legs /\ \A i \in DOMAIN q.legs : q.legs[i].level = r.legs[i].level
    BY <1>11, <1>12
  <2> QED BY <1>2, <1>12, <1>13, <2>1, LevelsStay DEF r
<1>16. Rewrites(n, q)
  BY <1>10, <1>11, <1>12, <1>13, <1>14, <1>15 DEF Rewrites, Sale
<1>17. /\ RowsInv' /\ DOMAIN paper' = DOMAIN paper /\ paper'[n] = q
       /\ \A m \in DOMAIN paper : DOMAIN paper[m].legs \subseteq DOMAIN paper'[m].legs
  BY <1>2, <1>16, RewriteKeepsRows DEF PaperInv
<1>18. PICK v : v = [w EXCEPT !.pc = "act", !.view = q]
  OBVIOUS
<1>19. paperWorker' = [paperWorker EXCEPT ![a] = v]
  BY <1>10, <1>17, <1>18
<1>20. v \in WorkerRows /\ HasRead(v)'
  <2>1. q \in Views
    BY <1>12 DEF Views
  <2>2. v \in WorkerRows /\ v.pc = "act" /\ v.n = n /\ v.price = w.price /\ v.view = q
    <3> HIDE DEF w
    <3>1. "act" \in Holding \cup Targeting \cup {"idle", "listed", "create"}
      BY DEF Holding
    <3> QED BY <1>2, <1>18, <2>1, <3>1 DEF WorkerRows, n
  <2> QED BY <1>2, <1>12, <1>17, <2>2 DEF HasRead, Holding, Targeting
<1>21. paperRunning' \in BOOLEAN /\ paperRequests' \in Nat
  BY <1>10 DEF PaperInv, WorkersInv
<1>22. WorkersInv'
  BY <1>17, <1>19, <1>20, <1>21, WorkersKeep DEF PaperInv
<1> QED BY <1>17, <1>22 DEF PaperInv

\* A recovery leg costs a whole amount, and its trigger is a price or none.
LEMMA RecoveryLegTyped ==
    ASSUME NEW p \in PositionRows, NEW anchor
    PROVE  RecoveryLeg(p, anchor).quote \in Nat /\ RecoveryLeg(p, anchor).trigger \in Int
<1> DEFINE m == PaperBot.recoveryMultipliers
           k == p.recoveryCount
           rest == RemainingBudget(p)
           leg == RecoveryLeg(p, anchor)
<1>1. m \in Seq(Nat) /\ PaperBot.baseOrder \in Nat /\ PaperBot.riskBudget \in Nat
      /\ PaperBot.recoveryMaxOrders \in 0..20 /\ PaperBot.recoveryMaxOrders <= Len(m)
  BY PaperTradingAssumption DEF ValidRecovery
<1>2. k \in Nat /\ Basket(p).cost \in Nat
  BY BasketIsNat DEF PositionRows
<1>3. rest \in Nat
  BY <1>1, <1>2 DEF RemainingBudget, Positive
<1>4. CASE leg = NoLeg
  BY <1>4 DEF NoLeg, NoPrice
<1>5. CASE leg # NoLeg
  <2>1. k < PaperBot.recoveryMaxOrders
    <3>1. ~(k >= PaperBot.recoveryMaxOrders)
      BY <1>5 DEF RecoveryLeg, NextLeg
    <3>2. PICK x \in Nat, y \in Nat : x = k /\ y = PaperBot.recoveryMaxOrders
      BY <1>1, <1>2
    <3> HIDE DEF k, m, leg
    <3> QED BY <3>1, <3>2
  <2>2. m[k + 1] \in Nat
    <3>1. k + 1 \in 1..Len(m)
      <4>1. PICK x \in Nat, y \in Nat, z \in Nat : x = k /\ y = PaperBot.recoveryMaxOrders /\ z = Len(m)
        <5>1. Len(m) \in Nat /\ PaperBot.recoveryMaxOrders \in Nat
          BY <1>1
        <5> HIDE DEF k, m
        <5> QED BY <1>2, <5>1
      <4> HIDE DEF k, m, leg
      <4>2. x < y /\ y <= z
        BY <1>1, <2>1, <4>1
      <4> QED BY <4>1, <4>2
    <3> QED BY <1>1, <3>1
  <2>3. PaperBot.baseOrder * m[k + 1] \in Nat
    BY <1>1, <2>2, PaperProceeds
  <2>4. /\ leg.quote = Smaller(PaperBot.baseOrder * m[k + 1], rest)
        /\ leg.trigger = PriceBelow(AtPrice(anchor).cost, AtPrice(anchor).quantity, PaperBot.recoverySteps[k + 1])
    BY <1>5 DEF RecoveryLeg, NextLeg
  <2>5. Smaller(PaperBot.baseOrder * m[k + 1], rest) \in Nat
    <3> HIDE DEF rest
    <3> QED BY <1>3, <2>3 DEF Smaller
  <2> QED BY <2>4, <2>5, TriggersArePrices
<1> QED BY <1>4, <1>5

LEMMA AnchorTyped ==
    ASSUME NEW p \in PositionRows
    PROVE  RecoveryStart(p) \in Int
<1> DEFINE Anchors == {i \in DOMAIN p.legs : p.legs[i].level = PaperBot.independentFrom}
           i == CHOOSE j \in Anchors : TRUE
<1>1. Anchors # {} => p.legs[i].entry \in Int
  <2> SUFFICES ASSUME Anchors # {} PROVE p.legs[i].entry \in Int
    OBVIOUS
  <2>1. i \in DOMAIN p.legs
    OBVIOUS
  <2>2. p.legs[i] \in LegRows
    <3> HIDE DEF i
    <3> QED BY <2>1, LegsAreFinite
  <2> HIDE DEF i
  <2> QED BY <2>2 DEF LegRows
<1>2. RecoveryAnchor(p) \in Int
  <2>1. NoPrice \in Int
    BY DEF NoPrice
  <2>2. RecoveryAnchor(p) = NoPrice \/ (Anchors # {} /\ RecoveryAnchor(p) = p.legs[i].entry)
    <3>1. PICK A, e : A = Anchors /\ e = p.legs[i].entry
      OBVIOUS
    <3>2. e = p.legs[CHOOSE j \in A : TRUE].entry
      BY <3>1
    <3>3. RecoveryAnchor(p) = IF ShouldActivate(PaperBot, p.dcaCount + 1) /\ A # {}
                              THEN IF e > 0 THEN e ELSE NoPrice
                              ELSE NoPrice
      BY <3>1, <3>2 DEF RecoveryAnchor
    <3> HIDE DEF Anchors, i
    <3> QED BY <3>1, <3>3
  <2> HIDE DEF Anchors, i
  <2> QED BY <1>1, <2>1, <2>2
<1>3. p.anchor \in Int
  BY DEF PositionRows
<1> QED BY <1>2, <1>3 DEF RecoveryStart

LEMMA RecoveryDcaRewrites ==
    ASSUME PaperInv, NEW a \in PaperActors, paperWorker[a].pc \in Holding, Possible(a, "recoveryDca"),
           ExecuteRecoveryDca(a, RecoveryStart(paperWorker[a].view))
    PROVE  \E q : Rewrites(paperWorker[a].n, q)
<1> DEFINE w == paperWorker[a]
           n == w.n
           p == w.view
           r == paper[n]
           anchor == RecoveryStart(p)
           quote == RecoveryLeg(p, anchor).quote
           quantity == quote \div w.price
           after == [p EXCEPT !.quantity = @ + quantity, !.cost = @ + quote, !.recoveryCount = @ + 1]
           next == RecoveryLeg(after, anchor)
<1>1. /\ n \in DOMAIN paper /\ w.price \in Nat \ {0} /\ p \in PositionRows /\ r \in PositionRows
      /\ paperOrders[n] \in OrderSums
  BY WhatIsHeld
<1>2. quote \in Nat /\ quantity \in Nat
  <2>1. quote \in Nat
    BY <1>1, RecoveryLegTyped
  <2> HIDE DEF quote, w
  <2> QED BY <1>1, <2>1, WholeQuantity
<1>3. /\ after \in PositionRows /\ after.quantity = p.quantity + quantity /\ after.cost = p.cost + quote
      /\ after.recoveryCount \in Nat
  <2>1. PICK z, c, k : z = p.quantity + quantity /\ c = p.cost + quote /\ k = p.recoveryCount + 1
    OBVIOUS
  <2>2. after = [p EXCEPT !.quantity = z, !.cost = c, !.recoveryCount = k]
    <3> HIDE DEF quantity, quote, p
    <3> QED BY <2>1
  <2>3. z \in Nat /\ c \in Nat /\ k \in Nat
    <3>1. p.quantity \in Nat /\ p.cost \in Nat /\ p.recoveryCount \in Nat
      BY <1>1 DEF PositionRows
    <3> HIDE DEF quantity, quote, p
    <3> QED BY <1>2, <2>1, <3>1
  <2> HIDE DEF after, quantity, quote, p
  <2> QED BY <1>1, <2>1, <2>2, <2>3 DEF PositionRows
<1>4. PICK rtp, trig : /\ rtp = (IF p.recoveryManual THEN p.recoveryTp
                                 ELSE GlobalTakeProfit(PaperBot, Basket(after)))
                       /\ trig = next.trigger
  OBVIOUS
<1>5. rtp \in Int /\ trig \in Int
  <2>1. GlobalTakeProfit(PaperBot, Basket(after)) \in Int
    BY TriggersArePrices DEF GlobalTakeProfit, NoPrice
  <2>2. trig \in Int
    <3> HIDE DEF after, anchor
    <3> QED BY <1>3, <1>4, RecoveryLegTyped
  <2>3. p.recoveryTp \in Int
    BY <1>1 DEF PositionRows
  <2> QED BY <1>4, <2>1, <2>2, <2>3
<1>6. PICK q : q = [r EXCEPT !.quantity = after.quantity, !.cost = after.cost, !.recovery = TRUE,
                             !.recoveryCount = after.recoveryCount, !.anchor = anchor,
                             !.recoveryTp = rtp, !.nextDca = trig, !.tp = NoPrice]
  OBVIOUS
<1>7. paper' = [paper EXCEPT ![n] = q] /\ Book(a, Bought(a, quantity, quote))
  BY <1>4, <1>6 DEF ExecuteRecoveryDca
<1>8. /\ q \in PositionRows /\ q.quantity = p.quantity + quantity /\ q.cost = p.cost + quote
      /\ q.pnl = r.pnl /\ q.legs = r.legs
  <2>1. anchor \in Int /\ NoPrice \in Int
    BY <1>1, AnchorTyped DEF NoPrice
  <2>2. after.quantity \in Nat /\ after.cost \in Nat
    BY <1>3, BasketIsNat
  <2> HIDE DEF after, quantity, quote, p, anchor, r
  <2> QED BY <1>1, <1>3, <1>5, <1>6, <2>1, <2>2 DEF PositionRows
<1>9. PICK b \in OrderSums : Purchase(a, b, quantity, quote) /\ b.legBuys = paperOrders[n].legBuys
  <2>1. PICK x1 \in Int, y1 \in Int : x1 = quantity /\ y1 = quote
    <3> HIDE DEF quantity, quote
    <3> QED BY <1>2
  <2>2. PICK k : k = Bought(a, x1, y1)
    OBVIOUS
  <2>3. k \in OrderSums /\ k.legBuys = paperOrders[n].legBuys
    BY <1>1, <2>2, BoughtSums
  <2>4. Book(a, k)
    BY <1>7, <2>1, <2>2
  <2>5. \E b \in OrderSums : Purchase(a, b, x1, y1) /\ b.legBuys = k.legBuys
    BY <2>2, <2>3, <2>4, PurchaseBooked
  <2> QED BY <2>1, <2>3, <2>5
<1>10. Agree(q, b)
  <2> SUFFICES ASSUME ~b.lost
               PROVE  /\ Basket(q).quantity = b.bought - b.sold
                      /\ q.pnl = b.received - b.spent + Basket(q).cost
                      /\ Basket(q).cost <= PaperBot.riskBudget
    BY DEF Agree
  <2>1. PICK u, c, e, f, g : /\ u = Basket(r).quantity /\ c = Basket(r).cost /\ e = r.pnl
                             /\ f = b.received /\ g = b.spent
    OBVIOUS
  <2>2. p = r /\ u + quantity = b.bought - b.sold /\ e = f - g + c + quote
    BY <1>9, <2>1 DEF Purchase
  <2>3. /\ u \in Nat /\ c \in Nat /\ r.quantity \in Nat /\ r.cost \in Nat
        /\ e \in Int /\ f \in Int /\ g \in Int
    BY <1>1, <2>1, BasketIsNat DEF PositionRows, OrderSums
  <2>4. c + quote <= PaperBot.riskBudget
    BY <2>1, <2>2 DEF Possible, WithinBudget
  <2>5. /\ Basket(q).quantity = u - r.quantity + q.quantity
        /\ Basket(q).cost = c - r.cost + q.cost
    BY <1>1, <1>8, <2>1, SameLegs
  <2>6. q.quantity = r.quantity + quantity /\ q.cost = r.cost + quote /\ q.pnl = e
    BY <1>8, <2>1, <2>2
  <2> HIDE DEF r, quantity, quote
  <2>7. Basket(q).quantity = b.bought - b.sold
    BY <1>2, <2>2, <2>3, <2>5, <2>6
  <2>8. Basket(q).cost = c + quote
    BY <1>2, <2>3, <2>5, <2>6
  <2>9. q.pnl = f - g + (c + quote)
    BY <1>2, <2>2, <2>3, <2>6
  <2> QED BY <2>1, <2>4, <2>7, <2>8, <2>9
<1>11. LegsKept(q, b)
  BY <1>1, <1>8, <1>9, LevelsStay
<1> QED BY <1>7, <1>8, <1>9, <1>10, <1>11 DEF Rewrites, Purchase

LEMMA RecoveryCloseRewrites ==
    ASSUME PaperInv, NEW a \in PaperActors, paperWorker[a].pc \in Holding, ExecuteRecoveryClose(a)
    PROVE  \E q : Rewrites(paperWorker[a].n, q)
<1> DEFINE w == paperWorker[a]
           n == w.n
           p == w.view
           r == paper[n]
           T == OpenLegs(p)
           basket == Basket(p)
           y == basket.quantity * w.price
           pnl == p.pnl + y - basket.cost
           legs == [i \in DOMAIN r.legs |-> IF i \in T
                       THEN [r.legs[i] EXCEPT !.status = "CLOSED", !.quantity = 0, !.cost = 0, !.entry = 0]
                       ELSE r.legs[i]]
<1>1. /\ n \in DOMAIN paper /\ w.price \in Nat \ {0} /\ p \in PositionRows /\ r \in PositionRows
      /\ paperOrders[n] \in OrderSums
  BY WhatIsHeld
<1>2. basket.quantity \in Nat /\ basket.cost \in Nat /\ p.pnl \in Int
  BY <1>1, BasketIsNat DEF PositionRows
<1>3. y \in Nat
  <2> HIDE DEF basket, w
  <2> QED BY <1>1, <1>2, PaperProceeds
<1>4. pnl \in Int
  <2> HIDE DEF y, basket
  <2> QED BY <1>2, <1>3
<1>5. PICK q : q = [r EXCEPT !.legs = legs, !.status = "CLOSED", !.quantity = 0, !.cost = 0, !.pnl = pnl,
                             !.recovery = FALSE, !.recoveryTp = NoPrice, !.nextDca = NoPrice, !.tp = NoPrice]
  OBVIOUS
<1>6. paper' = [paper EXCEPT ![n] = q] /\ Book(a, Sold(a, basket.quantity, y))
  BY <1>5 DEF ExecuteRecoveryClose
<1>7. legs \in Seq(LegRows) /\ DOMAIN legs = DOMAIN r.legs
      /\ \A i \in DOMAIN r.legs : legs[i].level = r.legs[i].level /\ (i \in T => legs[i].status = "CLOSED")
  <2>1. r.legs \in Seq(LegRows) /\ \A i \in DOMAIN r.legs : r.legs[i] \in LegRows
    BY <1>1, LegsAreFinite DEF PositionRows
  <2>2. ASSUME NEW i \in DOMAIN r.legs
        PROVE  /\ legs[i] \in LegRows /\ legs[i].level = r.legs[i].level
               /\ i \in T => legs[i].status = "CLOSED"
    <3>1. PICK l \in LegRows : l = r.legs[i]
      BY <2>1
    <3>2. PICK z : z = [l EXCEPT !.status = "CLOSED", !.quantity = 0, !.cost = 0, !.entry = 0]
      OBVIOUS
    <3>3. z \in LegRows /\ z.level = l.level /\ z.status = "CLOSED"
      <4>1. PICK z1 : z1 = [l EXCEPT !.status = "CLOSED"]
        OBVIOUS
      <4>2. PICK z2 : z2 = [z1 EXCEPT !.quantity = 0]
        OBVIOUS
      <4>3. PICK z3 : z3 = [z2 EXCEPT !.cost = 0]
        OBVIOUS
      <4>4. z1 \in LegRows /\ z1.level = l.level /\ z1.status = "CLOSED"
        BY <4>1 DEF LegRows
      <4>5. z2 \in LegRows /\ z2.level = l.level /\ z2.status = "CLOSED"
        BY <4>2, <4>4 DEF LegRows
      <4>6. z3 \in LegRows /\ z3.level = l.level /\ z3.status = "CLOSED"
        BY <4>3, <4>5 DEF LegRows
      <4>7. z = [z3 EXCEPT !.entry = 0]
        BY <3>2, <4>1, <4>2, <4>3
      <4> QED BY <4>6, <4>7 DEF LegRows
    <3> HIDE DEF T
    <3>4. legs[i] = IF i \in T THEN z ELSE l
      BY <3>1, <3>2
    <3> QED BY <3>1, <3>3, <3>4
  <2>3. \A i \in DOMAIN r.legs : /\ legs[i] \in LegRows /\ legs[i].level = r.legs[i].level
                                 /\ i \in T => legs[i].status = "CLOSED"
    BY <2>2
  <2>4. DOMAIN r.legs = 1..Len(r.legs) /\ Len(r.legs) \in Nat
    BY <2>1
  <2>5. legs \in [1..Len(r.legs) -> LegRows]
    BY <2>3, <2>4
  <2> HIDE DEF legs, r
  <2> QED BY <2>3, <2>4, <2>5
<1>8. q \in PositionRows /\ q.quantity = 0 /\ q.cost = 0 /\ q.pnl = pnl /\ q.legs = legs
  <2>1. NoPrice \in Int
    BY DEF NoPrice
  <2> HIDE DEF pnl, r, legs
  <2> QED BY <1>1, <1>4, <1>5, <1>7, <2>1 DEF PositionRows
<1>9. PICK b \in OrderSums : Sale(a, b, basket.quantity, y) /\ b.legBuys = paperOrders[n].legBuys
  <2>1. PICK x1 \in Int, y1 \in Int : x1 = basket.quantity /\ y1 = y
    <3> HIDE DEF basket, y
    <3> QED BY <1>2, <1>3
  <2>2. Book(a, Sold(a, x1, y1))
    BY <1>6, <2>1
  <2>3. \E b \in OrderSums : Sale(a, b, x1, y1) /\ b.legBuys = paperOrders[n].legBuys
    BY <2>2, PaperSaleBooked
  <2> QED BY <2>1, <2>3
<1>10. Agree(q, b)
  <2> SUFFICES ASSUME ~b.lost
               PROVE  /\ Basket(q).quantity = b.bought - b.sold
                      /\ q.pnl = b.received - b.spent + Basket(q).cost
                      /\ Basket(q).cost <= PaperBot.riskBudget
    BY DEF Agree
  <2>1. PICK u, c, e, f, g : /\ u = Basket(r).quantity /\ c = Basket(r).cost /\ e = r.pnl
                             /\ f = b.received /\ g = b.spent
    OBVIOUS
  <2>2. p = r /\ u - basket.quantity = b.bought - b.sold /\ e + y = f - g + c
    BY <1>9, <2>1 DEF Sale
  <2>3. u \in Nat /\ c \in Nat /\ e \in Int /\ f \in Int /\ g \in Int
    BY <1>1, <2>1, BasketIsNat DEF PositionRows, OrderSums
  <2>4. OpenLegs(q) = {}
    <3>1. DOMAIN q.legs = DOMAIN r.legs /\ T = {i \in DOMAIN r.legs : r.legs[i].status = "OPEN"}
      BY <1>7, <1>8, <2>2 DEF OpenLegs
    <3>2. ASSUME NEW i \in DOMAIN q.legs PROVE q.legs[i].status # "OPEN"
      <4>1. CASE i \in T
        BY <1>7, <1>8, <3>1, <4>1
      <4>2. CASE i \notin T
        <5>1. q.legs[i] = r.legs[i]
          BY <1>8, <3>1, <4>2
        <5> QED BY <3>1, <4>2, <5>1
      <4> QED BY <4>1, <4>2
    <3> QED BY <3>2 DEF OpenLegs
  <2>5. Basket(q).quantity = 0 /\ Basket(q).cost = 0
    BY <1>8, <2>4, NoLegs
  <2>6. basket.quantity = u /\ q.pnl = e + y - c
    BY <1>8, <2>1, <2>2
  <2> HIDE DEF basket, y, pnl, r
  <2>7. b.bought - b.sold = 0
    BY <2>2, <2>3, <2>6
  <2>8. q.pnl = f - g + 0
    BY <1>3, <2>2, <2>3, <2>6
  <2> QED BY <2>1, <2>5, <2>7, <2>8, PaperTradingAssumption
<1>11. LegsKept(q, b)
  <2> HIDE DEF legs, pnl, r, y, basket, T
  <2>1. DOMAIN q.legs = DOMAIN r.legs /\ \A i \in DOMAIN q.legs : q.legs[i].level = r.legs[i].level
    BY <1>7, <1>8
  <2> QED BY <1>1, <1>8, <1>9, <2>1, LevelsStay DEF r
<1> QED BY <1>6, <1>7, <1>8, <1>9, <1>10, <1>11 DEF Rewrites, Sale

\* A position opens with the first level of the plan, which the budget covers.
LEMMA FirstLevel ==
    ASSUME NEW base, base = PaperPlan[1].quote
    PROVE  base \in Nat /\ base <= PaperBot.riskBudget
<1> DEFINE Raw(level) == PaperBot.baseOrder * MultiplierForLevel(PaperBot, level)
           Allocated(level) == SumFunctionOnSet([l \in 1..(level - 1) |-> Raw(l)], 1..(level - 1))
           levels == {l \in 1..(PaperBot.maxDcaOrders + 1) : Allocated(l) < PaperBot.riskBudget}
<1>1. PaperBot.riskBudget \in Nat /\ PaperBot.riskBudget > 0 /\ PaperBot.maxDcaOrders \in Nat
  BY PaperTradingAssumption DEF ValidPlanInput
<1>2. Allocated(1) = 0
  <2>1. PICK f : f = [l \in 1..(1 - 1) |-> Raw(l)]
    OBVIOUS
  <2>2. 1..(1 - 1) = {}
    OBVIOUS
  <2> HIDE DEF Raw
  <2>3. Allocated(1) = SumOf(f, {})
    BY <2>1, <2>2, SumFunctionIsSum
  <2> QED BY <2>3, SumEmpty
<1>3. PaperPlan = [l \in levels |-> [quote |-> Smaller(Raw(l), PaperBot.riskBudget - Allocated(l)),
                                     drop |-> PaperBot.dcaStep * (l - 1),
                                     independent |-> l >= PaperBot.independentFrom]]
  BY DEF PaperPlan, BuildPlan
<1>4. 1 \in levels
  <2> HIDE DEF Allocated
  <2> QED BY <1>1, <1>2
<1>5. 1 \in DOMAIN PaperPlan /\ base = Smaller(Raw(1), PaperBot.riskBudget - 0)
  <2> HIDE DEF levels, Allocated, Raw
  <2> QED BY <1>2, <1>3, <1>4
<1>6. base \in Nat
  BY <1>5, PaperTradingAssumption DEF PaperPlan
<1>7. base <= PaperBot.riskBudget
  <2> HIDE DEF Raw
  <2> QED BY <1>1, <1>5 DEF Smaller
<1> QED BY <1>6, <1>7

LEMMA PaperCreateKeeps ==
    ASSUME PaperInv, NEW a \in PaperActors, CreatePosition(a)
    PROVE  PaperInv'
<1> DEFINE price == paperWorker[a].price
           base == PaperPlan[1].quote
<1>1. price \in Prices /\ price \in Nat \ {0}
  BY PricesAssumption DEF CreatePosition, PaperInv, WorkersInv, HasRead
<1>2. base \in Nat /\ base <= PaperBot.riskBudget
  BY FirstLevel
<1>3. PICK z : z = base \div price
  OBVIOUS
<1>4. z \in Nat
  <2> HIDE DEF base, price
  <2> QED BY <1>1, <1>2, <1>3, WholeQuantity
<1>5. PICK q : q = [status |-> "OPEN", quantity |-> z, cost |-> base, pnl |-> 0,
                    dcaCount |-> 0, nextDca |-> NextDcaPrice(2, price),
                    tp |-> PriceUp(price, 1, PaperBot.takeProfit), tpManual |-> FALSE,
                    recovery |-> FALSE, recoveryCount |-> 0, anchor |-> NoPrice,
                    recoveryTp |-> NoPrice, recoveryManual |-> FALSE, legs |-> <<>>]
  OBVIOUS
<1>6. PICK o : o = [NoOrders EXCEPT !.bought = z, !.spent = base]
  OBVIOUS
<1>7. paper' = Append(paper, q) /\ paperOrders' = Append(paperOrders, o) /\ Finish(a)
  BY <1>3, <1>5, <1>6 DEF CreatePosition
<1>8. q \in PositionRows /\ q.quantity = z /\ q.cost = base /\ q.pnl = 0 /\ q.legs = <<>>
  <2>1. PICK x, t : x = NextDcaPrice(2, price) /\ t = PriceUp(price, 1, PaperBot.takeProfit)
    OBVIOUS
  <2>2. x \in Int /\ t \in Int /\ NoPrice \in Int /\ <<>> \in Seq(LegRows)
    BY <2>1, TriggersArePrices DEF NextDcaPrice, PriceDown, NoPrice
  <2> HIDE DEF base, price
  <2> QED BY <1>2, <1>4, <1>5, <2>1, <2>2 DEF PositionRows
<1>9. /\ o \in OrderSums /\ o.bought = z /\ o.spent = base /\ o.sold = 0 /\ o.received = 0
      /\ \A l \in Levels : o.legBuys[l] = 0
  <2>1. NoOrders.legBuys \in [Levels -> Nat] /\ \A l \in Levels : NoOrders.legBuys[l] = 0
    BY DEF NoOrders, Levels
  <2>2. NoOrders \in OrderSums /\ NoOrders.sold = 0 /\ NoOrders.received = 0
    BY <2>1 DEF NoOrders, OrderSums
  <2>3. PICK k \in OrderSums : k = NoOrders
    BY <2>2
  <2>4. PICK m : m = [k EXCEPT !.bought = z]
    OBVIOUS
  <2> HIDE DEF base
  <2>5. m \in OrderSums /\ m.bought = z /\ m.sold = 0 /\ m.received = 0 /\ m.legBuys = NoOrders.legBuys
    BY <1>4, <2>2, <2>3, <2>4 DEF OrderSums
  <2>6. o = [m EXCEPT !.spent = base]
    BY <1>6, <2>3, <2>4
  <2>7. /\ o \in OrderSums /\ o.bought = z /\ o.spent = base /\ o.sold = 0 /\ o.received = 0
        /\ o.legBuys = NoOrders.legBuys
    BY <1>2, <2>5, <2>6 DEF OrderSums
  <2> QED BY <2>1, <2>7
<1>10. Agree(q, o)
  <2>1. OpenLegs(q) = {}
    BY <1>8 DEF OpenLegs
  <2>2. Basket(q).quantity = z /\ Basket(q).cost = base
    BY <1>8, <2>1, NoLegs
  <2>3. z = o.bought - o.sold /\ q.pnl = o.received - o.spent + base
    <3> HIDE DEF base
    <3> QED BY <1>2, <1>4, <1>8, <1>9
  <2> QED BY <1>2, <2>2, <2>3 DEF Agree
<1>11. LegsKept(q, o)
  BY <1>9 DEF LegsKept
<1>12. paper \in Seq(PositionRows) /\ paperOrders \in Seq(OrderSums) /\ Len(paperOrders) = Len(paper)
       /\ DOMAIN paper = 1..Len(paper)
  BY DEF PaperInv, RowsInv
<1>13. /\ paper' \in Seq(PositionRows) /\ paperOrders' \in Seq(OrderSums)
       /\ Len(paperOrders') = Len(paper') /\ DOMAIN paper' = 1..(Len(paper) + 1)
       /\ \A n \in DOMAIN paper : paper'[n] = paper[n] /\ paperOrders'[n] = paperOrders[n]
       /\ paper'[Len(paper) + 1] = q /\ paperOrders'[Len(paper) + 1] = o
  BY <1>7, <1>8, <1>9, <1>12
<1>14. ASSUME NEW n \in DOMAIN paper'
       PROVE  Agree(paper'[n], paperOrders'[n]) /\ LegsKept(paper'[n], paperOrders'[n])
  <2>1. CASE n \in DOMAIN paper
    BY <1>13, <2>1 DEF PaperInv, RowsInv
  <2>2. CASE n = Len(paper) + 1
    BY <1>10, <1>11, <1>13, <2>2
  <2> QED BY <1>12, <1>13, <2>1, <2>2
<1>15. RowsInv'
  BY <1>13, <1>14 DEF RowsInv, Agree, LegsKept, Basket
<1>16. IdleWorker \in WorkerRows /\ HasRead(IdleWorker)'
  BY IdleReadsNothing DEF HasRead, IdleWorker, Holding, Targeting
<1>17. /\ paperWorker' = [paperWorker EXCEPT ![a] = IdleWorker]
       /\ paperRunning' \in BOOLEAN /\ paperRequests' \in Nat
  BY <1>7 DEF Finish, Done, PaperInv, WorkersInv
<1>18. WorkersInv'
  <2>1. DOMAIN paper \subseteq DOMAIN paper'
        /\ \A m \in DOMAIN paper : DOMAIN paper[m].legs \subseteq DOMAIN paper'[m].legs
    BY <1>12, <1>13
  <2> QED BY <1>16, <1>17, <2>1, WorkersKeep DEF PaperInv
<1> QED BY <1>15, <1>18 DEF PaperInv

\* The owner's own target changes no amounts.
LEMMA TargetKeeps ==
    ASSUME PaperInv, NEW a \in PaperActors, WriteTakeProfit(a)
    PROVE  PaperInv'
<1> DEFINE w == paperWorker[a]
           n == w.n
           r == paper[n]
           o == paperOrders[n]
           Retargeted(q) ==
               /\ q \in PositionRows /\ q.quantity = r.quantity /\ q.cost = r.cost /\ q.pnl = r.pnl
               /\ DOMAIN q.legs = DOMAIN r.legs
               /\ \A i \in DOMAIN r.legs : /\ q.legs[i].status = r.legs[i].status
                                           /\ q.legs[i].quantity = r.legs[i].quantity
                                           /\ q.legs[i].cost = r.legs[i].cost
                                           /\ q.legs[i].level = r.legs[i].level
<1>1. w.pc \in Targeting /\ Finish(a) /\ UNCHANGED paperOrders
  BY DEF WriteTakeProfit, Targeting
<1>2. n \in DOMAIN paper /\ w.price \in Int /\ (w.pc = "INDEPENDENT" => w.view.leg \in DOMAIN r.legs)
  <2>1. HasRead(w)
    BY DEF PaperInv, WorkersInv
  <2>2. w.price \in Prices /\ n \in DOMAIN paper /\ (w.pc = "INDEPENDENT" => w.view.leg \in DOMAIN r.legs)
    BY <1>1, <2>1 DEF HasRead
  <2>3. Prices \subseteq Int
    BY PricesAssumption
  <2> QED BY <2>2, <2>3
<1>3. r \in PositionRows /\ o \in OrderSums
  BY <1>2, RowsAreTyped DEF PaperInv
<1>4. ASSUME NEW q, Retargeted(q), paper' = [paper EXCEPT ![n] = q] PROVE PaperInv'
  <2>1. Agree(r, o) /\ LegsKept(r, o)
    BY <1>2 DEF PaperInv, RowsInv
  <2>2. Basket(q).quantity = Basket(r).quantity /\ Basket(q).cost = Basket(r).cost
    <3>1. /\ Basket(q).quantity = Basket(r).quantity - r.quantity + q.quantity
          /\ Basket(q).cost = Basket(r).cost - r.cost + q.cost
      <4> HIDE DEF r
      <4> QED BY <1>3, <1>4, SameLegs
    <3>2. /\ Basket(r).quantity \in Nat /\ Basket(r).cost \in Nat
          /\ r.quantity \in Nat /\ r.cost \in Nat
      BY <1>3, BasketIsNat
    <3> HIDE DEF r
    <3> QED BY <1>4, <3>1, <3>2
  <2>3. Agree(q, o)
    <3> HIDE DEF r, o
    <3> QED BY <1>4, <2>1, <2>2 DEF Agree
  <2>4. LegsKept(q, o)
    BY <1>4, <2>1 DEF LegsKept
  <2>5. paperOrders' = [paperOrders EXCEPT ![n] = o]
    <3>1. paperOrders \in Seq(OrderSums)
      BY DEF PaperInv, RowsInv
    <3> QED BY <1>1, <3>1
  <2>6. Rewrites(n, q)
    BY <1>3, <1>4, <2>3, <2>4, <2>5 DEF Rewrites
  <2> QED BY <1>1, <1>2, <2>6, FinishedWrite
<1>5. CASE w.pc = "PARENT"
  <2>1. PICK q : q = [r EXCEPT !.tp = w.price, !.tpManual = TRUE]
    OBVIOUS
  <2>2. paper' = [paper EXCEPT ![n] = q]
    BY <1>5, <2>1 DEF WriteTakeProfit
  <2>3. /\ q \in PositionRows /\ q.quantity = r.quantity /\ q.cost = r.cost /\ q.pnl = r.pnl
        /\ q.legs = r.legs
    <3> HIDE DEF r
    <3> QED BY <1>2, <1>3, <2>1 DEF PositionRows
  <2> QED BY <1>4, <2>2, <2>3
<1>6. CASE w.pc = "RECOVERY"
  <2>1. PICK q : q = [r EXCEPT !.recoveryTp = w.price, !.recoveryManual = TRUE]
    OBVIOUS
  <2>2. paper' = [paper EXCEPT ![n] = q]
    BY <1>6, <2>1 DEF WriteTakeProfit
  <2>3. /\ q \in PositionRows /\ q.quantity = r.quantity /\ q.cost = r.cost /\ q.pnl = r.pnl
        /\ q.legs = r.legs
    <3> HIDE DEF r
    <3> QED BY <1>2, <1>3, <2>1 DEF PositionRows
  <2> QED BY <1>4, <2>2, <2>3
<1>7. CASE w.pc = "INDEPENDENT"
  <2> DEFINE i == w.view.leg
  <2>1. PICK z : z = [r.legs[i] EXCEPT !.tp = w.price]
    OBVIOUS
  <2>2. PICK legs : legs = [r.legs EXCEPT ![i] = z]
    OBVIOUS
  <2>3. PICK q : q = [r EXCEPT !.legs = legs]
    OBVIOUS
  <2>4. paper' = [paper EXCEPT ![n] = q]
    BY <1>7, <2>1, <2>2, <2>3 DEF WriteTakeProfit
  <2>5. i \in DOMAIN r.legs /\ r.legs[i] \in LegRows /\ r.legs \in Seq(LegRows)
    BY <1>2, <1>3, <1>7, LegsAreFinite DEF PositionRows
  <2>6. /\ z \in LegRows /\ z.status = r.legs[i].status /\ z.quantity = r.legs[i].quantity
        /\ z.cost = r.legs[i].cost /\ z.level = r.legs[i].level
    BY <1>2, <2>1, <2>5 DEF LegRows
  <2>7. legs \in Seq(LegRows) /\ DOMAIN legs = DOMAIN r.legs /\ legs[i] = z
        /\ \A j \in DOMAIN r.legs : j # i => legs[j] = r.legs[j]
    <3> HIDE DEF i, r
    <3> QED BY <2>2, <2>5, <2>6, ExceptSeq
  <2>8. /\ q \in PositionRows /\ q.quantity = r.quantity /\ q.cost = r.cost /\ q.pnl = r.pnl
        /\ q.legs = legs
    <3> HIDE DEF r
    <3> QED BY <1>3, <2>3, <2>7 DEF PositionRows
  <2>9. Retargeted(q)
    BY <2>6, <2>7, <2>8
  <2> HIDE DEF Retargeted
  <2> QED BY <1>4, <2>4, <2>9
<1> QED BY <1>1, <1>5, <1>6, <1>7 DEF Targeting

-----------------------------------------------------------------------------
(* The steps *)

\* An operation that ends without a write.
LEMMA FinishedIdle ==
    ASSUME PaperInv, NEW a \in PaperActors, Finish(a), UNCHANGED <<paper, paperOrders>>
    PROVE  PaperInv'
<1>1. IdleWorker \in WorkerRows /\ HasRead(IdleWorker)
  BY IdleReadsNothing
<1>2. /\ paperWorker' = [paperWorker EXCEPT ![a] = IdleWorker]
      /\ paperRunning' \in BOOLEAN /\ paperRequests' \in Nat
  BY DEF Finish, Done, PaperInv, WorkersInv
<1> QED BY <1>1, <1>2, NothingWritten

LEMMA ActKeeps ==
    ASSUME PaperInv, NEW a \in PaperActors, paperWorker[a].pc \in Holding, NEW action, Act(a, action)
    PROVE  PaperInv'
<1>1. Finish(a)
  BY DEF Act
<1>2. CASE ~Possible(a, action)
  BY <1>1, <1>2, FinishedIdle DEF Act
<1>3. CASE Possible(a, action)
  <2>1. Perform(a, action)
    BY <1>3 DEF Act
  <2>2. \E q : Rewrites(paperWorker[a].n, q)
    <3>1. CASE action = "recoveryClose" /\ ExecuteRecoveryClose(a)
      BY <3>1, RecoveryCloseRewrites
    <3>2. CASE action = "recoveryDca" /\ ExecuteRecoveryDca(a, RecoveryStart(paperWorker[a].view))
      BY <1>3, <3>2, RecoveryDcaRewrites
    <3>3. CASE action = "close" /\ ExecuteClose(a)
      BY <3>3, CloseRewrites
    <3>4. CASE action = "dca" /\ ExecuteDca(a)
      BY <1>3, <3>4, DcaRewrites
    <3> QED BY <2>1, <3>1, <3>2, <3>3, <3>4 DEF Perform
  <2> QED BY <1>1, <2>2, WhatIsHeld, FinishedWrite
<1> QED BY <1>2, <1>3

\* What a tick or a request reads is the row as it is.
LEMMA ReadKeeps ==
    ASSUME PaperInv, NEW a \in PaperActors, NEW n \in DOMAIN paper, NEW price \in Prices,
           UNCHANGED <<paper, paperOrders, paperRunning>>, paperRequests' \in Nat,
           NEW pc \in Holding,
           paperWorker' = [paperWorker EXCEPT ![a] = [pc |-> pc, n |-> n, price |-> price, view |-> paper[n]]]
    PROVE  PaperInv'
<1> DEFINE w == [pc |-> pc, n |-> n, price |-> price, view |-> paper[n]]
<1>1. n \in Nat /\ price \in Nat /\ paper[n] \in PositionRows
  BY RowsAreTyped, PricesAssumption DEF PaperInv
<1>2. w \in WorkerRows
  BY <1>1 DEF WorkerRows, Views
<1>3. HasRead(w)
  BY <1>1 DEF HasRead, Holding, Targeting
<1>4. paperRunning' \in BOOLEAN /\ paperWorker' = [paperWorker EXCEPT ![a] = w]
  BY DEF PaperInv, WorkersInv
<1> HIDE DEF w
<1> QED BY <1>2, <1>3, <1>4, NothingWritten

LEMMA TickReads ==
    ASSUME PaperInv, NEW a \in PaperActors, NEW n \in DOMAIN paper, NEW price \in Prices,
           ReadForTick(a, n, price), paperRequests' \in Nat
    PROVE  PaperInv'
<1>1. PICK pc : pc = IF ~paper[n].recovery /\ EligibleLegs(paper[n], price) # {} THEN "sellLegs" ELSE "act"
  OBVIOUS
<1>2. pc \in Holding
  BY <1>1 DEF Holding
<1>3. paperWorker' = [paperWorker EXCEPT ![a] = [pc |-> pc, n |-> n, price |-> price, view |-> paper[n]]]
      /\ UNCHANGED <<paper, paperOrders, paperRunning>>
  BY <1>1 DEF ReadForTick
<1> QED BY <1>2, <1>3, ReadKeeps

\* A worker that goes on to open a position, if there is none.
LEMMA OpenKeeps ==
    ASSUME PaperInv, NEW a \in PaperActors, UNCHANGED <<paper, paperOrders, paperRunning>>,
           NEW price \in Prices, paperRequests' \in Nat,
           paperWorker' = [paperWorker EXCEPT ![a].pc = "create", ![a].price = price]
    PROVE  PaperInv'
<1>1. PICK v : v = [paperWorker[a] EXCEPT !.pc = "create", !.price = price]
  OBVIOUS
<1>2. paperWorker \in [PaperActors -> WorkerRows] /\ paperRunning' \in BOOLEAN /\ price \in Nat
  BY PricesAssumption DEF PaperInv, WorkersInv
<1>3. paperWorker' = [paperWorker EXCEPT ![a] = v]
  BY <1>1, <1>2
<1>4. v \in WorkerRows /\ v.pc = "create" /\ v.price = price
  BY <1>1, <1>2 DEF WorkerRows
<1>5. HasRead(v)
  BY <1>4 DEF HasRead, Holding, Targeting
<1> QED BY <1>2, <1>3, <1>4, <1>5, NothingWritten

\* The newest open position.
LEMMA ListedIsNumber ==
    ASSUME PaperInv, NEW n,
           n = IF OpenPositions = {} THEN 0
               ELSE CHOOSE k \in OpenPositions : \A m \in OpenPositions : m <= k
    PROVE  n \in Nat
<1>1. DOMAIN paper = 1..Len(paper) /\ Len(paper) \in Nat
  BY DEF PaperInv, RowsInv
<1>2. PICK S : S = OpenPositions
  OBVIOUS
<1>3. S \in SUBSET Nat /\ \A x \in S : x <= Len(paper)
  BY <1>1, <1>2 DEF OpenPositions
<1>4. S # {} => \E k \in S : \A m \in S : m <= k
  BY <1>1, <1>3, GreatestExists
<1>5. CASE S = {}
  BY <1>2, <1>5
<1>6. CASE S # {}
  <2>1. (CHOOSE k \in S : \A m \in S : m <= k) \in S
    BY <1>4, <1>6
  <2> QED BY <1>2, <1>3, <1>6, <2>1
<1> QED BY <1>5, <1>6

LEMMA RunnerKeeps ==
    ASSUME PaperInv, NEW a \in PaperActors, RunnerStep(a)
    PROVE  PaperInv'
<1>1. CASE RunStrategy(a)
  <2>1. PICK n : n = IF OpenPositions = {} THEN 0
                     ELSE CHOOSE k \in OpenPositions : \A m \in OpenPositions : m <= k
    OBVIOUS
  <2>2. n \in Nat
    BY <2>1, ListedIsNumber
  <2>3. PICK v : v = [paperWorker[a] EXCEPT !.pc = "listed", !.n = n]
    OBVIOUS
  <2>4. paperWorker \in [PaperActors -> WorkerRows] /\ paperRequests \in Nat
    BY DEF PaperInv, WorkersInv
  <2>5. /\ paperWorker' = [paperWorker EXCEPT ![a].pc = "listed", ![a].n = n]
        /\ paperRunning' = TRUE /\ UNCHANGED <<paper, paperOrders, paperRequests>>
    BY <1>1, <2>1 DEF RunStrategy
  <2>6. paperWorker' = [paperWorker EXCEPT ![a] = v]
    BY <2>3, <2>4, <2>5
  <2>7. v \in WorkerRows /\ v.pc = "listed"
    BY <2>2, <2>3, <2>4 DEF WorkerRows
  <2>8. HasRead(v)
    BY <2>7 DEF HasRead, Holding, Targeting
  <2>9. paperRunning' \in BOOLEAN /\ paperRequests' \in Nat
    BY <2>4, <2>5
  <2> QED BY <2>5, <2>6, <2>7, <2>8, <2>9, NothingWritten
<1>2. ASSUME NEW price \in Prices, Quote(a, price) PROVE PaperInv'
  <2> DEFINE n == paperWorker[a].n
  <2>1. UNCHANGED <<paper, paperOrders, paperRequests>> /\ paperRequests' \in Nat
    BY <1>2 DEF Quote, PaperInv, WorkersInv
  <2>2. CASE /\ paperWorker' = [paperWorker EXCEPT ![a].pc = "create", ![a].price = price]
             /\ UNCHANGED paperRunning
    BY <2>1, <2>2, OpenKeeps
  <2>3. CASE n \in OpenPositions /\ ReadForTick(a, n, price)
    <3>1. n \in DOMAIN paper
      BY <2>3 DEF OpenPositions
    <3> QED BY <2>1, <2>3, <3>1, TickReads
  <2>4. CASE Finish(a)
    BY <2>1, <2>4, FinishedIdle
  <2> QED BY <1>2, <2>2, <2>3, <2>4 DEF Quote
<1>3. CASE CreatePosition(a)
  BY <1>3, PaperCreateKeeps
<1>4. CASE CloseEligibleSubPositions(a)
  BY <1>4, PaperSaleKeeps
<1>5. CASE ProcessPrice(a)
  BY <1>5, ActKeeps DEF ProcessPrice, Holding
<1> QED BY <1>1, <1>2, <1>3, <1>4, <1>5 DEF RunnerStep

LEMMA OwnerKeeps ==
    ASSUME PaperInv, NEW a \in PaperActors, OwnerStep(a)
    PROVE  PaperInv'
<1>1. RequestPrices \subseteq Prices /\ paperRequests \in Nat
  BY PaperTradingAssumption DEF PaperInv, WorkersInv
<1>2. StartRequest(a) => paperRequests' \in Nat
  BY <1>1 DEF StartRequest
<1>3. ASSUME NEW price \in RequestPrices, RequestOpen(a, price) PROVE PaperInv'
  <2>1. price \in Prices
    BY <1>1
  <2> QED BY <1>2, <1>3, <2>1, OpenKeeps DEF RequestOpen
<1>4. ASSUME NEW price \in RequestPrices, NEW n \in DOMAIN paper, RequestTick(a, n, price) PROVE PaperInv'
  <2>1. price \in Prices
    BY <1>1
  <2> QED BY <1>2, <1>4, <2>1, TickReads DEF RequestTick
<1>5. ASSUME NEW price \in RequestPrices, NEW n \in DOMAIN paper, NEW pc \in {"dca", "close"},
             RequestWrite(a, n, price, pc)
      PROVE  PaperInv'
  <2>1. price \in Prices /\ pc \in Holding
    BY <1>1 DEF Holding
  <2>2. /\ paperWorker' = [paperWorker EXCEPT ![a] = [pc |-> pc, n |-> n, price |-> price, view |-> paper[n]]]
        /\ UNCHANGED <<paper, paperOrders, paperRunning>> /\ paperRequests' \in Nat
    BY <1>2, <1>5 DEF RequestWrite
  <2> QED BY <2>1, <2>2, ReadKeeps
<1>6. ASSUME NEW price \in RequestPrices, NEW n \in DOMAIN paper, NEW target \in Targeting, NEW i \in Nat,
             target = "INDEPENDENT" => i \in DOMAIN paper[n].legs, RequestTakeProfit(a, n, target, i, price)
      PROVE  PaperInv'
  <2> DEFINE w == [pc |-> target, n |-> n, price |-> price, view |-> [leg |-> i]]
  <2>1. price \in Prices /\ price \in Nat /\ n \in Nat
    BY <1>1, RowsAreTyped, PricesAssumption DEF PaperInv
  <2>2. w \in WorkerRows
    BY <2>1 DEF WorkerRows, Views
  <2>3. HasRead(w)
    BY <1>6, <2>1 DEF HasRead, Holding, Targeting
  <2>4. /\ paperWorker' = [paperWorker EXCEPT ![a] = w]
        /\ UNCHANGED <<paper, paperOrders, paperRunning>> /\ paperRequests' \in Nat
    BY <1>2, <1>6 DEF RequestTakeProfit
  <2>5. paperRunning' \in BOOLEAN
    BY <2>4 DEF PaperInv, WorkersInv
  <2> HIDE DEF w
  <2> QED BY <2>2, <2>3, <2>4, <2>5, NothingWritten
<1>7. CASE CreatePosition(a)
  BY <1>7, PaperCreateKeeps
<1>8. CASE CloseEligibleSubPositions(a)
  BY <1>8, PaperSaleKeeps
<1>9. CASE ProcessPrice(a)
  BY <1>9, ActKeeps DEF ProcessPrice, Holding
<1>10. CASE PerformRequest(a)
  BY <1>10, ActKeeps DEF PerformRequest, Holding
<1>11. CASE WriteTakeProfit(a)
  BY <1>11, TargetKeeps
<1>12. ASSUME NEW price \in RequestPrices, NEW n \in DOMAIN paper,
              \/ RequestTakeProfit(a, n, "PARENT", 0, price)
              \/ RequestTakeProfit(a, n, "RECOVERY", 0, price)
              \/ \E i \in DOMAIN paper[n].legs : RequestTakeProfit(a, n, "INDEPENDENT", i, price)
       PROVE  PaperInv'
  <2>1. "PARENT" \in Targeting /\ "RECOVERY" \in Targeting /\ "INDEPENDENT" \in Targeting /\ 0 \in Nat
    BY DEF Targeting
  <2>2. DOMAIN paper[n].legs \subseteq Nat
    <3>1. paper[n].legs \in Seq(LegRows)
      BY RowsAreTyped DEF PaperInv, PositionRows
    <3> QED BY <3>1
  <2>3. CASE RequestTakeProfit(a, n, "PARENT", 0, price)
    BY <1>6, <2>1, <2>3
  <2>4. CASE RequestTakeProfit(a, n, "RECOVERY", 0, price)
    BY <1>6, <2>1, <2>4
  <2>5. ASSUME NEW i \in DOMAIN paper[n].legs, RequestTakeProfit(a, n, "INDEPENDENT", i, price)
        PROVE  PaperInv'
    BY <1>6, <2>1, <2>2, <2>5
  <2> QED BY <1>12, <2>3, <2>4, <2>5
<1>13. "dca" \in {"dca", "close"} /\ "close" \in {"dca", "close"}
  OBVIOUS
<1> QED BY <1>3, <1>4, <1>5, <1>7, <1>8, <1>9, <1>10, <1>11, <1>12, <1>13 DEF OwnerStep

\* What every step of paper trading keeps, and with it the books.
LEMMA PaperInvNext == PaperInv /\ [PaperNext]_paperVars => PaperInv'
<1> SUFFICES ASSUME PaperInv, [PaperNext]_paperVars PROVE PaperInv'
  OBVIOUS
<1>1. ASSUME NEW a \in PaperRunners, RunnerStep(a) PROVE PaperInv'
  BY <1>1, RunnerKeeps DEF PaperActors
<1>2. ASSUME NEW a \in PaperOwners, OwnerStep(a) PROVE PaperInv'
  BY <1>2, OwnerKeeps DEF PaperActors
<1>3. CASE PaperRestart
  <2>1. RowsInv'
    BY <1>3 DEF PaperRestart, PaperInv, RowsInv, Agree, LegsKept, Basket
  <2>2. IdleWorker \in WorkerRows /\ HasRead(IdleWorker)'
    BY IdleReadsNothing DEF HasRead, IdleWorker, Holding, Targeting
  <2>3. paperWorker' \in [PaperActors -> WorkerRows] /\ \A a \in PaperActors : paperWorker'[a] = IdleWorker
    BY <1>3, <2>2 DEF PaperRestart
  <2>4. WorkersInv'
    BY <1>3, <2>2, <2>3 DEF PaperRestart, PaperInv, WorkersInv, HasRead
  <2> QED BY <2>1, <2>4 DEF PaperInv
<1>4. CASE UNCHANGED paperVars
  BY <1>4 DEF paperVars, PaperInv, RowsInv, WorkersInv, HasRead, Agree, LegsKept, Basket
<1> QED BY <1>1, <1>2, <1>3, <1>4 DEF PaperNext

\* What the positions of every behaviour say agrees with their orders, unless
\* one operation wrote over the row of another, and no level is bought twice.
THEOREM BooksBalance == PaperSpec => []PaperBooksBalance
<1>1. PaperInv => PaperBooksBalance
  <2> SUFFICES ASSUME PaperInv, NEW n \in DOMAIN paper
               PROVE  LET p == paper[n]
                          o == paperOrders[n]
                      IN /\ ~o.lost => /\ Basket(p).quantity = o.bought - o.sold
                                       /\ p.pnl = o.received - o.spent + Basket(p).cost
                                       /\ Basket(p).cost <= PaperBot.riskBudget
                         /\ \A l \in DOMAIN o.legBuys : o.legBuys[l] <= 1
    BY DEF PaperBooksBalance
  <2>1. Agree(paper[n], paperOrders[n]) /\ LegsKept(paper[n], paperOrders[n])
    BY DEF PaperInv, RowsInv
  <2>2. DOMAIN paperOrders[n].legBuys = Levels
    BY RowsAreTyped DEF PaperInv, OrderSums
  <2> QED BY <2>1, <2>2 DEF Agree, LegsKept
<1> QED BY <1>1, PaperInvInit, PaperInvNext, PTL DEF PaperSpec

(***************************************************************************)
(* Entry signals.                                                            *)
(***************************************************************************)
\* The price fell from high to low by dip percent.
Fell(high, low, dip) == (high - low) * 100 >= dip * high

\* A fall from the highest to the lowest point is one from some point to some point:
\* the higher the start, the deeper the fall in percent.
LEMMA FallBetween ==
    ASSUME NEW H, \A x \in H : x \in Nat \ {0}, H # {}, IsFiniteSet(H),
           NEW L, \A x \in L : x \in Nat, L # {}, NEW dip \in 0..50
    PROVE  Fell(Max(H), Min(L), dip) <=> \E h \in H, l \in L : Fell(h, l, dip)
<1>1. Max(H) \in H /\ (\A x \in H : Max(H) >= x) /\ Min(L) \in L /\ \A x \in L : Min(L) <= x
  BY Extremes
<1>2. ASSUME NEW h \in H, NEW l \in L, Fell(h, l, dip)
      PROVE  Fell(Max(H), Min(L), dip)
  <2> DEFINE top == Max(H)
             low == Min(L)
  <2>1. top \in Nat /\ low \in Nat /\ h \in Nat /\ l \in Nat /\ h <= top /\ low <= l
    BY <1>1
  <2>2. 100 - dip \in Nat /\ dip \in Nat
    OBVIOUS
  <2> HIDE DEF top, low
  <2>3. (100 - dip) * h <= (100 - dip) * top
    BY <2>1, <2>2, KeepsOrder
  <2>4. (100 - dip) * h = 100 * h - dip * h /\ (100 - dip) * top = 100 * top - dip * top
    BY <2>1, <2>2
  <2>5. dip * h \in Int /\ dip * top \in Int
    BY <2>1, <2>2
  <2>6. (h - l) * 100 = 100 * h - 100 * l /\ (top - low) * 100 = 100 * top - 100 * low
    BY <2>1
  <2>7. (top - low) * 100 >= dip * top
    BY <1>2, <2>1, <2>3, <2>4, <2>5, <2>6 DEF Fell
  <2> QED BY <2>7 DEF top, low, Fell
<1> QED BY <1>1, <1>2

-----------------------------------------------------------------------------
\* closed is the end of the first n candles, long enough to decide.
EndOf(closed, n) ==
    /\ closed \in Seq(CandleShapes) /\ n \in 0..Len(past) /\ Len(closed) <= n
    /\ \A i \in 1..Len(closed) : closed[i] = past[n - Len(closed) + i]
    /\ Len(closed) = n \/ Len(closed) >= Needed

Typed == config \in SignalConfigs /\ past \in Seq(CandleShapes)

LEMMA Counts ==
    ASSUME Typed
    PROVE  /\ ConfirmationCount(config) \in Nat \ {0} /\ config.lookback \in Nat \ {0}
           /\ config.dip \in 0..50
           /\ RequiredCandles(config) = config.lookback + ConfirmationCount(config) + 1
           /\ Needed = RequiredCandles(config) + 2 /\ RequiredCandles(config) \in Nat /\ Needed \in Nat
BY SignalsAssumption DEF Typed, ConfirmationCount, RequiredCandles, Needed

\* The same candles confirm, wherever the list of them begins.
LEMMA SameConfirmation ==
    ASSUME Typed, NEW s, NEW n, EndOf(s, n), Len(s) >= ConfirmationCount(config) + 1
    PROVE  ConfirmationMet(s, config) <=>
               /\ \A i \in (n - ConfirmationCount(config) + 1)..n : Green(past[i])
               /\ config.rule = "CLOSE_ABOVE_PREV_HIGH" => past[n].close > past[n - 1].high
<1> DEFINE m == Len(s)
           k == n - m
           c == ConfirmationCount(config)
<1>1. m \in Nat /\ n \in Nat /\ k \in Nat /\ c \in Nat \ {0} /\ m >= c + 1 /\ n = m + k
  BY Counts DEF EndOf
<1>2. \A i \in 1..m : s[i] = past[k + i]
  BY DEF EndOf
<1> HIDE DEF m, k, c
<1>3. (\A i \in (m - c + 1)..m : Green(s[i])) <=> \A i \in (n - c + 1)..n : Green(past[i])
  <2>1. ASSUME \A i \in (m - c + 1)..m : Green(s[i]), NEW i \in (n - c + 1)..n PROVE Green(past[i])
    <3>1. i - k \in (m - c + 1)..m /\ i - k \in 1..m /\ k + (i - k) = i
      BY <1>1
    <3> QED BY <1>2, <2>1, <3>1
  <2>2. ASSUME \A i \in (n - c + 1)..n : Green(past[i]), NEW i \in (m - c + 1)..m PROVE Green(s[i])
    <3>1. k + i \in (n - c + 1)..n /\ i \in 1..m
      BY <1>1
    <3> QED BY <1>2, <2>2, <3>1
  <2> QED BY <2>1, <2>2
<1>4. s[m] = past[n] /\ s[m - 1] = past[n - 1]
  <2>1. m \in 1..m /\ m - 1 \in 1..m /\ k + m = n /\ k + (m - 1) = n - 1
    BY <1>1
  <2> QED BY <1>2, <2>1
<1> QED BY <1>1, <1>3, <1>4 DEF ConfirmationMet, m, c

LEMMA SameDip ==
    ASSUME Typed, NEW s, NEW n, EndOf(s, n), Len(s) >= RequiredCandles(config)
    PROVE  DipMet(s, config) <=>
               LET start == n - ConfirmationCount(config)
               IN \E i \in (start - config.lookback + 1)..start, j \in start..n :
                      Fell(past[i].high, past[j].low, config.dip)
<1> DEFINE m == Len(s)
           k == n - m
           c == ConfirmationCount(config)
           b == config.lookback
           from == m - c
           H == {s[i].high : i \in (from - b + 1)..from}
           L == {s[i].low : i \in from..m}
<1>1. /\ m \in Nat /\ n \in Nat /\ k \in Nat /\ c \in Nat \ {0} /\ b \in Nat \ {0}
      /\ m >= b + c + 1 /\ n = m + k /\ config.dip \in 0..50
  BY Counts DEF EndOf
<1>2. \A i \in 1..m : s[i] = past[k + i] /\ s[i].high \in Nat \ {0} /\ s[i].low \in Nat
  <2>1. ASSUME NEW i \in 1..m PROVE s[i] \in CandleShapes
    BY DEF EndOf
  <2>2. \A x \in CandleShapes : x.high \in Nat \ {0} /\ x.low \in Nat
    BY SignalsAssumption
  <2> QED BY <2>1, <2>2 DEF EndOf
<1>3. DipMet(s, config) <=> Fell(Max(H), Min(L), config.dip)
  BY DEF DipMet, Fell
<1> HIDE DEF m, k, c, b
<1>4. (\A x \in H : x \in Nat \ {0}) /\ H # {} /\ IsFiniteSet(H)
  <2> DEFINE I == (from - b + 1)..from
             f == [i \in I |-> s[i].high]
  <2>1. from - b + 1 \in Int /\ from \in Int /\ from - b + 1 <= from /\ I \subseteq 1..m
    BY <1>1
  <2>2. IsFiniteSet(I) /\ I # {}
    BY <2>1, FS_Interval
  <2>3. \A i \in I : s[i].high \in Nat \ {0}
    BY <1>2, <2>1
  <2> HIDE DEF I
  <2>4. H = {s[i].high : i \in I}
    BY DEF I
  <2>5. IsFiniteSet({f[i] : i \in I})
    BY <2>2, FiniteValues
  <2>6. {f[i] : i \in I} = {s[i].high : i \in I}
    OBVIOUS
  <2> HIDE DEF H, f
  <2> QED BY <2>2, <2>3, <2>4, <2>5, <2>6
<1>5. (\A x \in L : x \in Nat) /\ L # {}
  <2>1. from..m \subseteq 1..m /\ m \in from..m
    BY <1>1
  <2> HIDE DEF from
  <2> QED BY <1>2, <2>1
<1>6. (\E h \in H, l \in L : Fell(h, l, config.dip)) <=>
          \E i \in (from - b + 1)..from, j \in from..m :
              Fell(s[i].high, s[j].low, config.dip)
  OBVIOUS
<1>7. (\E i \in (from - b + 1)..from, j \in from..m :
              Fell(s[i].high, s[j].low, config.dip))
      <=> \E i \in (n - c - b + 1)..(n - c), j \in (n - c)..n :
              Fell(past[i].high, past[j].low, config.dip)
  <2>1. ASSUME NEW i \in (from - b + 1)..from, NEW j \in from..m
        PROVE  /\ k + i \in (n - c - b + 1)..(n - c) /\ k + j \in (n - c)..n
               /\ s[i] = past[k + i] /\ s[j] = past[k + j]
    <3>1. i \in 1..m /\ j \in 1..m
      BY <1>1
    <3>2. k + i \in (n - c - b + 1)..(n - c) /\ k + j \in (n - c)..n
      BY <1>1
    <3> QED BY <1>2, <3>1, <3>2
  <2>2. ASSUME NEW i \in (n - c - b + 1)..(n - c), NEW j \in (n - c)..n
        PROVE  /\ i - k \in (from - b + 1)..from /\ j - k \in from..m
               /\ s[i - k] = past[i] /\ s[j - k] = past[j]
    <3>1. i - k \in 1..m /\ j - k \in 1..m /\ k + (i - k) = i /\ k + (j - k) = j
      BY <1>1
    <3>2. i - k \in (from - b + 1)..from /\ j - k \in from..m
      BY <1>1
    <3>3. s[i - k] = past[k + (i - k)] /\ s[j - k] = past[k + (j - k)]
      BY <1>2, <3>1
    <3> QED BY <3>1, <3>2, <3>3
  <2> QED BY <2>1, <2>2
<1> HIDE DEF H, L
<1>8. DipMet(s, config) <=> \E h \in H, l \in L : Fell(h, l, config.dip)
  BY <1>1, <1>3, <1>4, <1>5, FallBetween
<1> QED BY <1>6, <1>7, <1>8 DEF c, b

\* What is decided on the end of the first n candles is what the rule says at n.
LEMMA SameRule ==
    ASSUME Typed, NEW s, NEW n, EndOf(s, n), NEW dip \in BOOLEAN
    PROVE  EvaluateEntrySignal(s, config, dip) <=> DipAndBounce(n, dip)
<1> DEFINE c == ConfirmationCount(config)
           r == RequiredCandles(config)
<1>1. /\ c \in Nat \ {0} /\ r \in Nat /\ r >= c + 2 /\ Len(s) \in Nat /\ n \in Nat /\ Len(s) <= n
      /\ Len(s) = n \/ Len(s) >= r + 2
  BY Counts DEF EndOf
<1>2. (Len(s) >= r <=> n >= r) /\ (Len(s) >= c + 1 <=> n >= c + 1)
  <2> HIDE DEF c, r
  <2> QED BY <1>1
<1>3. n - c >= 1 <=> n >= c + 1
  <2> HIDE DEF c, r
  <2> QED BY <1>1
<1>4. CASE ~(Len(s) >= c + 1)
  <2>1. ~EvaluateEntrySignal(s, config, dip)
    BY <1>4 DEF EvaluateEntrySignal, ConfirmationMet
  <2>2. ~DipAndBounce(n, dip)
    BY <1>2, <1>3, <1>4 DEF DipAndBounce
  <2> QED BY <2>1, <2>2
<1>5. CASE Len(s) >= c + 1
  <2>1. ConfirmationMet(s, config) <=>
            /\ \A i \in (n - c + 1)..n : Green(past[i])
            /\ config.rule = "CLOSE_ABOVE_PREV_HIGH" => past[n].close > past[n - 1].high
    BY <1>5, SameConfirmation
  <2>2. CASE ~dip
    BY <1>2, <1>3, <1>5, <2>1, <2>2 DEF EvaluateEntrySignal, DipAndBounce
  <2>3. CASE dip /\ ~(Len(s) >= r)
    BY <1>2, <2>3 DEF EvaluateEntrySignal, DipAndBounce
  <2>4. CASE dip /\ Len(s) >= r
    <3>1. DipMet(s, config) <=>
              \E i \in ((n - c) - config.lookback + 1)..(n - c), j \in (n - c)..n :
                  Fell(past[i].high, past[j].low, config.dip)
      BY <2>4, SameDip
    <3>2. EvaluateEntrySignal(s, config, dip) <=> DipMet(s, config) /\ ConfirmationMet(s, config)
      BY <2>4 DEF EvaluateEntrySignal
    <3>3. DipAndBounce(n, dip) <=>
              /\ \A i \in (n - c + 1)..n : Green(past[i])
              /\ config.rule = "CLOSE_ABOVE_PREV_HIGH" => past[n].close > past[n - 1].high
              /\ \E i \in ((n - c) - config.lookback + 1)..(n - c), j \in (n - c)..n :
                  Fell(past[i].high, past[j].low, config.dip)
      BY <1>2, <1>3, <1>5, <2>4 DEF DipAndBounce, Fell
    <3> QED BY <2>1, <3>1, <3>2, <3>3
  <2> QED BY <2>2, <2>3, <2>4
<1> QED BY <1>4, <1>5

-----------------------------------------------------------------------------
\* The last candles of a list.
LEMMA LatestIs ==
    ASSUME NEW s \in Seq(CandleShapes), NEW w \in Nat
    PROVE  /\ LatestOf(s, w) \in Seq(CandleShapes)
           /\ Len(LatestOf(s, w)) = IF Len(s) > w THEN w ELSE Len(s)
           /\ \A i \in 1..Len(LatestOf(s, w)) :
                 LatestOf(s, w)[i] = s[Len(s) - Len(LatestOf(s, w)) + i]
<1> DEFINE from == IF Len(s) > w THEN Len(s) - w + 1 ELSE 1
<1>1. from \in 1..(Len(s) + 1) /\ Len(s) \in Nat /\ LatestOf(s, w) = SubSeq(s, from, Len(s))
  BY DEF LatestOf
<1>2. /\ SubSeq(s, from, Len(s)) \in Seq(CandleShapes)
      /\ Len(SubSeq(s, from, Len(s))) = Len(s) - from + 1
      /\ \A i \in 1..(Len(s) - from + 1) : SubSeq(s, from, Len(s))[i] = s[from + i - 1]
  <2>1. from \in Nat \ {0} /\ \A i \in from..Len(s) : s[i] \in CandleShapes
    BY <1>1
  <2> HIDE DEF from
  <2> QED BY <1>1, <2>1
<1>3. from = IF Len(s) > w THEN Len(s) - w + 1 ELSE 1
  OBVIOUS
<1> HIDE DEF from
<1>4. Len(LatestOf(s, w)) = Len(s) - from + 1
  BY <1>1, <1>2
<1>5. Len(LatestOf(s, w)) = IF Len(s) > w THEN w ELSE Len(s)
  <2>1. CASE Len(s) > w
    <3>1. from = Len(s) - w + 1
      BY <1>3, <2>1
    <3> QED BY <1>1, <1>4, <2>1, <3>1
  <2>2. CASE ~(Len(s) > w)
    <3>1. from = 1
      BY <1>3, <2>2
    <3> QED BY <1>1, <1>4, <2>2, <3>1
  <2> QED BY <2>1, <2>2
<1>6. \A i \in 1..Len(LatestOf(s, w)) : from + i - 1 = Len(s) - Len(LatestOf(s, w)) + i
  BY <1>1, <1>4
<1> QED BY <1>1, <1>2, <1>4, <1>5, <1>6

\* A backtest evaluates the end of the candles before it.
LEMMA WindowOfBacktest ==
    ASSUME Typed, NEW n \in 0..Len(past)
    PROVE  EndOf(LatestOf(SubSeq(past, 1, n), RequiredCandles(config) + 2), n)
<1>1. /\ SubSeq(past, 1, n) \in Seq(CandleShapes) /\ Len(SubSeq(past, 1, n)) = n
      /\ \A i \in 1..n : SubSeq(past, 1, n)[i] = past[i]
  BY DEF Typed
<1> DEFINE p == SubSeq(past, 1, n)
           t == LatestOf(p, Needed)
<1>2. Needed \in Nat /\ Needed = RequiredCandles(config) + 2
  BY Counts
<1> HIDE DEF p
<1>3. t \in Seq(CandleShapes) /\ Len(t) = (IF n > Needed THEN Needed ELSE n)
      /\ \A i \in 1..Len(t) : t[i] = p[n - Len(t) + i]
  <2>1. p \in Seq(CandleShapes) /\ Len(p) = n
    BY <1>1 DEF p
  <2> QED BY <1>2, <2>1, LatestIs
<1>4. \A i \in 1..Len(t) : n - Len(t) + i \in 1..n
  BY <1>2, <1>3
<1> HIDE DEF t
<1>5. EndOf(t, n)
  BY <1>1, <1>2, <1>3, <1>4 DEF EndOf, p
<1> QED BY <1>2, <1>5 DEF t, p

-----------------------------------------------------------------------------
(* The service *)

\* What is kept is the end of what was known, and that is all but the newest candle.
UpToDate(kept) == /\ kept \in CacheRows /\ kept.known <= Len(past)
                  /\ kept.missed <= 1 => Len(past) = kept.known + kept.missed
                  /\ ~kept.torn => EndOf(kept.closed, kept.known)

\* An answer holds, before the open candle, the end of what was closed.
AnswerOK == inFlight.pc = "read" =>
                /\ inFlight.known \in Nat /\ Len(past) \in {inFlight.known, inFlight.known + 1}
                /\ inFlight.raw \in Seq(CandleShapes) /\ inFlight.raw # <<>>
                /\ EndOf(SubSeq(inFlight.raw, 1, Len(inFlight.raw) - 1), inFlight.known)

SignalsInv ==
    /\ Typed /\ UpToDate(candleCache) /\ AnswerOK
    /\ waiting \subseteq SignalBots \X BOOLEAN
    /\ LiveMatchesBacktest

Sound(d) == ~d.torn => /\ d.ok <=> SignalAt(d.known, d.dip)
                       /\ d.ok <=> DipAndBounce(d.known, d.dip)
                       /\ Len(past) - d.known <= 1

LEMMA DecisionsAreSound ==
    ASSUME Typed, NEW kept, UpToDate(kept), kept.missed <= 1, NEW dip \in BOOLEAN
    PROVE  Sound(Decision(dip, kept))
<1> DEFINE d == Decision(dip, kept)
<1>1. /\ d.ok = EvaluateEntrySignal(kept.closed, config, dip) /\ d.dip = dip
      /\ d.known = kept.known /\ d.torn = kept.torn
  BY DEF Decision
<1>2. kept.known \in 0..Len(past) /\ Len(past) - kept.known <= 1
  BY DEF UpToDate, CacheRows, Typed
<1>3. ASSUME ~kept.torn
      PROVE  /\ EvaluateEntrySignal(kept.closed, config, dip) <=> DipAndBounce(kept.known, dip)
             /\ SignalAt(kept.known, dip) <=> DipAndBounce(kept.known, dip)
  <2>1. EndOf(kept.closed, kept.known)
    BY <1>3 DEF UpToDate
  <2>2. EndOf(LatestOf(SubSeq(past, 1, kept.known), RequiredCandles(config) + 2), kept.known)
    BY <1>2, WindowOfBacktest
  <2> QED BY <2>1, <2>2, SameRule DEF SignalAt
<1> HIDE DEF d
<1>4. Sound(d)
  BY <1>1, <1>2, <1>3 DEF Sound
<1> QED BY <1>4 DEF d

\* Steps that leave the rule and the history alone, and decide soundly.
LEMMA Undisturbed ==
    ASSUME Typed, config' = config, past' = past, NEW D, decisions' = D, \A d \in D : Sound(d)
    PROVE  Typed' /\ LiveMatchesBacktest'
<1>1. Typed'
  BY DEF Typed
<1>2. \A d : Sound(d)' <=> Sound(d)
  BY DEF Sound, SignalAt, DipAndBounce, EvaluateEntrySignal, RequiredCandles
<1>3. (\A d \in decisions : Sound(d))'
  BY <1>2
<1>4. (\A d \in decisions : Sound(d)) => LiveMatchesBacktest
  BY DEF Sound, LiveMatchesBacktest
<1>5. LiveMatchesBacktest'
  BY <1>3 DEF Sound, LiveMatchesBacktest
<1> QED BY <1>1, <1>5

LEMMA SignalsInvInit == SignalsInit => SignalsInv
<1> SUFFICES ASSUME SignalsInit PROVE SignalsInv
  OBVIOUS
<1>1. Typed /\ past = <<>> /\ Len(past) = 0
  BY DEF SignalsInit, Typed
<1>2. EndOf(<<>>, 0)
  BY <1>1 DEF EndOf
<1>3. UpToDate(candleCache)
  BY <1>1, <1>2 DEF UpToDate, SignalsInit, NoCandles, CacheRows
<1>4. AnswerOK
  BY DEF AnswerOK, SignalsInit, NoFetch
<1> QED BY <1>1, <1>3, <1>4 DEF SignalsInv, SignalsInit, LiveMatchesBacktest

\* The end of what has closed stays so when another candle closes.
LEMMA EndStays ==
    ASSUME Typed, NEW candle \in CandleShapes, past' = Append(past, candle), config' = config,
           NEW s, NEW n, EndOf(s, n)
    PROVE  EndOf(s, n)'
<1>1. Len(past') = Len(past) + 1 /\ Len(past) \in Nat /\ \A i \in 1..Len(past) : past'[i] = past[i]
  BY DEF Typed
<1>2. \A i \in 1..Len(s) : n - Len(s) + i \in 1..Len(past)
  BY DEF EndOf
<1>3. Needed' = Needed
  BY DEF Needed, RequiredCandles
<1> QED BY <1>1, <1>2, <1>3 DEF EndOf

LEMMA SameEnd ==
    ASSUME past' = past, config' = config, NEW s, NEW n
    PROVE  EndOf(s, n)' <=> EndOf(s, n)
BY DEF EndOf, Needed, RequiredCandles

LEMMA ClosesKeeps == ASSUME SignalsInv, CandleCloses PROVE SignalsInv'
<1>1. PICK candle \in CandleShapes : past' = Append(past, candle)
  BY DEF CandleCloses
<1>2. config' = config /\ Len(past') = Len(past) + 1 /\ Len(past) \in Nat /\ past' \in Seq(CandleShapes)
  BY <1>1 DEF CandleCloses, SignalsInv, Typed
<1>3. Typed'
  BY <1>2 DEF SignalsInv, Typed
<1>4. \A s, n : EndOf(s, n) => EndOf(s, n)'
  BY <1>1, <1>2, EndStays DEF SignalsInv
<1>5. UpToDate(candleCache)'
  <2>1. CASE candleCache.missed = 0
    <3>1. candleCache' = [candleCache EXCEPT !.missed = 1]
      BY <2>1 DEF CandleCloses
    <3>2. /\ candleCache' \in CacheRows /\ candleCache'.closed = candleCache.closed
          /\ candleCache'.known = candleCache.known /\ candleCache'.torn = candleCache.torn
          /\ candleCache'.missed = 1
      BY <3>1 DEF SignalsInv, UpToDate, CacheRows
    <3>3. candleCache.known = Len(past)
      BY <2>1 DEF SignalsInv, UpToDate, CacheRows
    <3> QED BY <1>2, <1>4, <3>2, <3>3 DEF SignalsInv, UpToDate
  <2>2. CASE candleCache.missed # 0
    <3>1. candleCache' = NoCandles
      BY <2>2 DEF CandleCloses
    <3>2. EndOf(<<>>, 0)
      BY <1>2 DEF EndOf
    <3> QED BY <1>2, <1>4, <3>1, <3>2 DEF UpToDate, NoCandles, CacheRows
  <2> QED BY <2>1, <2>2
<1>6. AnswerOK'
  <2>1. inFlight' = inFlight /\ (inFlight.pc = "read" => Len(past) = inFlight.known)
    BY DEF CandleCloses
  <2> QED BY <1>2, <1>4, <2>1 DEF SignalsInv, AnswerOK
<1> QED BY <1>3, <1>5, <1>6 DEF SignalsInv, LiveMatchesBacktest, CandleCloses

LEMMA ReadKeepsSignals == ASSUME SignalsInv, CandlesRead PROVE AnswerOK'
<1>1. PICK open \in CandleShapes :
          inFlight' = [pc |-> "read", known |-> Len(past), raw |-> LatestOf(Append(past, open), Needed + 1)]
  BY DEF CandlesRead
<1> DEFINE all == Append(past, open)
           raw == LatestOf(all, Needed + 1)
           n == Len(past)
           kept == SubSeq(raw, 1, Len(raw) - 1)
<1>2. past \in Seq(CandleShapes) /\ n \in Nat /\ Needed \in Nat /\ past' = past /\ config' = config
  BY Counts DEF SignalsInv, Typed, CandlesRead
<1>3. all \in Seq(CandleShapes) /\ Len(all) = n + 1 /\ \A i \in 1..n : all[i] = past[i]
  BY <1>2
<1> HIDE DEF all
<1>4. raw \in Seq(CandleShapes) /\ Len(raw) = (IF n > Needed THEN Needed + 1 ELSE n + 1)
      /\ \A i \in 1..Len(raw) : raw[i] = all[n + 1 - Len(raw) + i]
  <2>1. Needed + 1 \in Nat
    BY <1>2
  <2>2. Len(raw) = IF n + 1 > Needed + 1 THEN Needed + 1 ELSE n + 1
    BY <1>3, <2>1, LatestIs
  <2>3. raw \in Seq(CandleShapes) /\ \A i \in 1..Len(raw) : raw[i] = all[Len(all) - Len(raw) + i]
    BY <1>3, <2>1, LatestIs
  <2> HIDE DEF raw, n
  <2>4. n + 1 > Needed + 1 <=> n > Needed
    BY <1>2
  <2>5. Len(raw) = IF n > Needed THEN Needed + 1 ELSE n + 1
    BY <2>2, <2>4
  <2>6. Len(all) = n + 1
    BY <1>3
  <2>7. \A i \in 1..Len(raw) : raw[i] = all[n + 1 - Len(raw) + i]
    <3> SUFFICES ASSUME NEW i \in 1..Len(raw) PROVE raw[i] = all[n + 1 - Len(raw) + i]
      OBVIOUS
    <3>1. raw[i] = all[Len(all) - Len(raw) + i]
      BY <2>3
    <3> QED BY <1>2, <2>3, <2>6, <3>1
  <2> QED BY <2>3, <2>5, <2>7
<1>9. n = Len(past)
  OBVIOUS
<1> HIDE DEF raw, n
<1>5. kept \in Seq(CandleShapes) /\ Len(kept) = Len(raw) - 1 /\ \A i \in 1..(Len(raw) - 1) : kept[i] = raw[i]
  BY <1>2, <1>4
<1> HIDE DEF kept
<1>6. \A i \in 1..Len(kept) : kept[i] = past[n - Len(kept) + i]
  <2> SUFFICES ASSUME NEW i \in 1..Len(kept) PROVE kept[i] = past[n - Len(kept) + i]
    OBVIOUS
  <2>1. i \in 1..(Len(raw) - 1) /\ i \in 1..Len(raw) /\ n - Len(kept) + i = n + 1 - Len(raw) + i
        /\ n - Len(kept) + i \in 1..n
    BY <1>2, <1>4, <1>5
  <2> QED BY <1>3, <1>4, <1>5, <2>1
<1>7. EndOf(kept, n)
  <2>1. Len(kept) = IF n > Needed THEN Needed ELSE n
    BY <1>2, <1>4, <1>5
  <2>2. Len(kept) <= n /\ (Len(kept) = n \/ Len(kept) >= Needed)
    BY <1>2, <2>1
  <2>3. n \in 0..Len(past)
    BY <1>2, <1>9
  <2> QED BY <1>5, <1>6, <2>2, <2>3 DEF EndOf
<1>8. \A x, m : EndOf(x, m) => EndOf(x, m)'
  BY <1>2, SameEnd
<1>10. inFlight' = [pc |-> "read", known |-> n, raw |-> raw] /\ raw # <<>> /\ Len(past') = n
  BY <1>1, <1>2, <1>4, <1>9 DEF raw, all, n
<1>11. EndOf(SubSeq(raw, 1, Len(raw) - 1), n)
  BY <1>7 DEF kept
<1>12. SubSeq(inFlight'.raw, 1, Len(inFlight'.raw) - 1) = SubSeq(raw, 1, Len(raw) - 1)
  BY <1>10
<1>13. inFlight'.known = n /\ inFlight'.raw = raw
  BY <1>10
<1> QED BY <1>2, <1>4, <1>8, <1>10, <1>11, <1>12, <1>13 DEF AnswerOK

LEMMA SignalsInvNext == SignalsInv /\ [SignalsNext]_signalVars => SignalsInv'
<1> SUFFICES ASSUME SignalsInv, [SignalsNext]_signalVars PROVE SignalsInv'
  OBVIOUS
<1>1. CASE CandleCloses
  BY <1>1, ClosesKeeps
<1>2. ASSUME past' = past, config' = config, NEW D, decisions' = D, \A d \in D : Sound(d),
             UpToDate(candleCache'), AnswerOK', waiting' \subseteq SignalBots \X BOOLEAN
      PROVE  SignalsInv'
  <2>1. \A s, n : EndOf(s, n)' <=> EndOf(s, n)
    BY <1>2, SameEnd
  <2>2. UpToDate(candleCache)'
    BY <1>2, <2>1 DEF UpToDate
  <2>3. Typed' /\ LiveMatchesBacktest'
    BY <1>2, Undisturbed DEF SignalsInv
  <2> QED BY <1>2, <2>2, <2>3 DEF SignalsInv
<1>3. past' = past /\ config' = config /\ (inFlight' = inFlight \/ inFlight'.pc # "read") => AnswerOK'
  <2> SUFFICES ASSUME past' = past, config' = config, inFlight' = inFlight \/ inFlight'.pc # "read"
               PROVE  AnswerOK'
    OBVIOUS
  <2>1. \A s, n : EndOf(s, n)' <=> EndOf(s, n)
    BY SameEnd
  <2> QED BY <2>1 DEF SignalsInv, AnswerOK
<1>4. ASSUME NEW b \in SignalBots, NEW dip \in BOOLEAN, CheckCached(b, dip) PROVE SignalsInv'
  <2>1. Sound(Decision(dip, candleCache))
    BY <1>4, DecisionsAreSound DEF SignalsInv, CheckCached
  <2> QED BY <1>2, <1>3, <1>4, <2>1 DEF SignalsInv, CheckCached
<1>5. ASSUME NEW b \in SignalBots, NEW dip \in BOOLEAN, CheckFetches(b, dip) PROVE SignalsInv'
  <2>1. inFlight' = inFlight \/ inFlight'.pc # "read"
    BY <1>5 DEF CheckFetches
  <2>2. waiting' \subseteq SignalBots \X BOOLEAN
    BY <1>5 DEF CheckFetches, SignalsInv
  <2> QED BY <1>2, <1>3, <1>5, <2>1, <2>2 DEF SignalsInv, CheckFetches
<1>6. CASE CandlesRead
  <2>1. AnswerOK'
    BY <1>6, ReadKeepsSignals
  <2>2. /\ past' = past /\ config' = config /\ decisions' = {}
        /\ candleCache' = candleCache /\ waiting' = waiting
    BY <1>6 DEF CandlesRead
  <2>3. UpToDate(candleCache') /\ waiting' \subseteq SignalBots \X BOOLEAN
    BY <2>2 DEF SignalsInv
  <2>4. PICK D : D = {}
    OBVIOUS
  <2> QED BY <1>2, <2>1, <2>2, <2>3, <2>4
<1>7. CASE CandlesArrive
  <2> DEFINE torn == Len(past) > inFlight.known
             raw == inFlight.raw
             known == inFlight.known
             closed == IF torn THEN raw ELSE SubSeq(raw, 1, Len(raw) - 1)
  <2>1. /\ known \in Nat /\ Len(past) \in {known, known + 1} /\ raw \in Seq(CandleShapes) /\ raw # <<>>
        /\ EndOf(SubSeq(raw, 1, Len(raw) - 1), known)
    BY <1>7 DEF CandlesArrive, SignalsInv, AnswerOK
  <2>2. candleCache' = [closed |-> closed, known |-> known + (IF torn THEN 1 ELSE 0), missed |-> 0, torn |-> torn]
    BY <1>7 DEF CandlesArrive
  <2>3. closed \in Seq(CandleShapes) /\ Len(past) = known + (IF torn THEN 1 ELSE 0)
        /\ (~torn => EndOf(closed, known + (IF torn THEN 1 ELSE 0)))
    BY <2>1 DEF EndOf
  <2> HIDE DEF closed
  <2>4. UpToDate(candleCache') /\ candleCache'.missed = 0
    <3> DEFINE k == known + (IF torn THEN 1 ELSE 0)
    <3>1. k \in Nat /\ torn \in BOOLEAN /\ Len(past) = k
      BY <2>1, <2>3
    <3> HIDE DEF k, torn
    <3> QED BY <2>2, <2>3, <3>1 DEF UpToDate, CacheRows, k
  <2> HIDE DEF torn, raw, known
  <2>5. \A w \in waiting : Sound(Decision(w[2], candleCache'))
    <3>1. \A w \in waiting : w[2] \in BOOLEAN
      BY DEF SignalsInv
    <3> QED BY <2>4, <3>1, DecisionsAreSound DEF SignalsInv
  <2> DEFINE D == {Decision(w[2], candleCache') : w \in waiting}
  <2>6. past' = past /\ config' = config /\ decisions' = D /\ waiting' = {} /\ inFlight'.pc # "read"
    BY <1>7 DEF CandlesArrive, NoFetch
  <2>7. \A d \in D : Sound(d)
    BY <2>5
  <2> HIDE DEF D
  <2> QED BY <1>2, <1>3, <2>4, <2>6, <2>7
<1>8. CASE CandlesFail
  <2>1. inFlight'.pc # "read"
    BY <1>8 DEF CandlesFail, NoFetch
  <2> QED BY <1>2, <1>3, <1>8, <2>1 DEF SignalsInv, CandlesFail
<1>9. CASE CacheExpires
  <2>1. past \in Seq(CandleShapes) /\ Len(past) \in Nat
    BY DEF SignalsInv, Typed
  <2>2. EndOf(<<>>, 0)
    BY <2>1 DEF EndOf
  <2>3. UpToDate(candleCache')
    BY <1>9, <2>1, <2>2 DEF CacheExpires, NoCandles, UpToDate, CacheRows
  <2> QED BY <1>2, <1>3, <1>9, <2>3 DEF SignalsInv, CacheExpires
<1>10. CASE UNCHANGED signalVars
  <2>1. \A d \in decisions : Sound(d)
    BY DEF SignalsInv, LiveMatchesBacktest, Sound
  <2> QED BY <1>2, <1>3, <1>10, <2>1 DEF SignalsInv, signalVars
<1> QED BY <1>1, <1>4, <1>5, <1>6, <1>7, <1>8, <1>9, <1>10 DEF SignalsNext

\* A live bot decides what a backtest decides at the last candle the bot knew of, and both
\* decide by the rule as it is meant, for any candles, rules and number of bots, unless
\* the answer was torn (EntrySignalService.candles, evaluateEntrySignal).
THEOREM LiveIsBacktest == SignalsSpec => []LiveMatchesBacktest
<1>1. SignalsInv => LiveMatchesBacktest
  BY DEF SignalsInv
<1> QED
  BY <1>1, SignalsInvInit, SignalsInvNext, PTL DEF SignalsSpec
=============================================================================
