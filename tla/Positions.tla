------------------------------ MODULE Positions ------------------------------
(***************************************************************************)
(* The books of a bot: its positions with their independent legs            *)
(* (TradingPosition, TradingSubPosition), the order rows (TradingOrder), and *)
(* the fill accounting of TestnetStrategyExecutionService.  The operators    *)
(* take the record a service read (often before an await) and the record in  *)
(* the database, because the code writes totals computed from the former.    *)
(*                                                                          *)
(* Costs, prices and realised profit are left out; whether a DCA price is    *)
(* set is kept, because it decides if the next level is bought.  A take      *)
(* profit price is set exactly while the quantity is positive.               *)
(***************************************************************************)
EXTENDS TradingKeys

VARIABLES
    position,   \* position[c]: the c-th position of the bot
    leg,        \* leg[c][l]: its independent sub-position of level l
    order       \* order[k]: the order row with client order id k

NoPosition == [status |-> "NONE", quantity |-> 0, dcaCount |-> 0, nextDca |-> FALSE]
NoLeg == [status |-> "NONE", quantity |-> 0]
NoLegs == [l \in IndependentLevels |-> NoLeg]
NoOrder == [status |-> "NONE", filled |-> 0, accounted |-> 0, position |-> 0, leg |-> FALSE]

MaxLots == Lot * Cardinality(EntryKeys)

PositionRecord == [status : {"NONE", "OPEN", "CLOSED"}, quantity : 0..MaxLots,
                   dcaCount : 0..MaxLevel, nextDca : BOOLEAN]
LegRecord == [status : {"NONE", "OPEN", "CLOSED"}, quantity : 0..MaxLots]
OrderRecord == [status : {"NONE", "PENDING", "PARTIALLY_FILLED", "FILLED", "CANCELLED", "REJECTED",
                          "FAILED"},
                filled : 0..MaxLots, accounted : 0..MaxLots, position : {0} \cup Slots,
                leg : BOOLEAN]

InitPositions == /\ position = [c \in Slots |-> NoPosition]
                 /\ leg = [c \in Slots |-> NoLegs]
                 /\ order = [k \in Keys |-> NoOrder]

\* Rows of the database, as queries see them.
PositionCount == Cardinality({c \in Slots : position[c].status # "NONE"})
OpenPositions == {c \in Slots : position[c].status = "OPEN"}
LatestOpen == IF OpenPositions = {} THEN 0 ELSE Max(OpenPositions)
OpenLegs(c) == {l \in IndependentLevels : leg[c][l].status = "OPEN"}
OpenOrders(c) == {k \in Keys : order[k].position = c /\ order[k].status \in OpenStatuses}

----------------------------------------------------------------------------
\* mapOrderStatus
MapOrderStatus(s) == CASE s = "NEW" -> "PENDING"
                       [] s = "PARTIALLY_FILLED" -> "PARTIALLY_FILLED"
                       [] s = "FILLED" -> "FILLED"
                       [] s = "CANCELED" -> "CANCELLED"
                       [] s = "EXPIRED" -> "REJECTED"
                       [] OTHER -> "FAILED"

IsTerminal(status) == status \in TerminalStatuses

Less(a, b) == IF a > b THEN a - b ELSE 0
AtMost(a, b) == IF a < b THEN a ELSE b

\* calculateParentTriggers: is there a next DCA price after dca levels?
NextDca(quantity, dca) == quantity > 0 /\ dca < MaxLevel - 1

\* The position an entry opens.
Opened(k, filled) ==
    [status |-> "OPEN", dcaCount |-> 0,
     quantity |-> IF IndependentEntry(k) THEN 0 ELSE filled,
     nextDca |-> ~IndependentEntry(k) /\ NextDca(filled, 0)]

\* A fill of a parent entry: totals from the position `base` that was read.
ParentBought(p, base, filled, dca) ==
    [p EXCEPT !.quantity = base.quantity + filled,
              !.dcaCount = dca,
              !.nextDca = NextDca(base.quantity + filled, dca)]

\* A first fill of the next independent level moves the ladder on.
LadderMoved(p, base) == [p EXCEPT !.dcaCount = base.dcaCount + 1, !.nextDca = TRUE]

LegBought(base, filled) == [status |-> "OPEN", quantity |-> base.quantity + filled]

\* What a sale takes from a holding: all of it when the exit is filled.
Remaining(base, filled, fullExit) ==
    IF fullExit THEN 0 ELSE base.quantity - AtMost(filled, base.quantity)

\* applyParentSellFill
ParentSold(p, base, filled, fullExit, legsOpen) ==
    LET left == Remaining(base, filled, fullExit)
        closed == left = 0 /\ ~legsOpen
    IN [p EXCEPT !.status = IF closed THEN "CLOSED" ELSE "OPEN",
                 !.quantity = left,
                 !.nextDca = ~closed /\ NextDca(left, base.dcaCount)]

\* applyIndependentSellFill, the sub-position ...
LegSold(base, filled, fullExit) ==
    LET left == Remaining(base, filled, fullExit)
    IN [status |-> IF left = 0 THEN "CLOSED" ELSE "OPEN", quantity |-> left]

\* ... and the position, closed with its last leg when the parent is empty.
LastLegSold(p, base, sold, othersOpen) ==
    IF sold.status = "CLOSED" /\ base.quantity = 0 /\ ~othersOpen
    THEN [p EXCEPT !.status = "CLOSED"] ELSE p

\* closeIfEmpty
ClosedIfEmpty(p, legsOpen, ordersOpen) ==
    IF p.status = "OPEN" /\ p.quantity = 0 /\ ~legsOpen /\ ~ordersOpen
    THEN [p EXCEPT !.status = "CLOSED"] ELSE p

----------------------------------------------------------------------------
\* Lots in the books of a position, and what its order rows say they should be.
Holding(c) == position[c].quantity +
              SumFunctionOnSet([l \in IndependentLevels |-> leg[c][l].quantity], IndependentLevels)

AccountedTo(c, side) ==
    LET rows == {k \in Keys : k.side = side /\ order[k].position = c}
    IN SumFunctionOnSet([k \in rows |-> order[k].accounted], rows)
=============================================================================
