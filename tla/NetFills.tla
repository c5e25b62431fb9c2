------------------------------ MODULE NetFills ------------------------------
(***************************************************************************)
(* Fees in the books of TestnetStrategyExecutionService: an order is         *)
(* recorded with what the account got and paid, net of the commissions of    *)
(* its fills.  The status of an order and the list of its trades are two     *)
(* calls, and fills go on between them; the scheduler and a request of the   *)
(* user may bring the same row up to date at once.  A fill is known by the   *)
(* asset its commission was taken in; all fills are of the same size.        *)
(***************************************************************************)
EXTENDS Integers, Sequences, FiniteSets

CONSTANTS
    FillQuantity,    \* coins of one fill
    FillPrice,       \* its price
    FillFee,         \* its commission, in units of the asset it is taken in
    OrderSyncs,      \* passes of the scheduler and requests that sync the order
    MaxFills         \* fills after which the order is filled

ASSUME NetFillsAssumption ==
    /\ FillQuantity \in Nat \ {0} /\ FillPrice \in Nat \ {0} /\ MaxFills \in Nat \ {0}
    /\ FillFee \in 1..FillQuantity /\ "execution" \notin OrderSyncs

VARIABLES
    onExchange,   \* the order: side, status, the fee asset of each fill
    record,       \* the TradingOrder row
    reader        \* reader[r]: a call of executeMarketOrder or of syncOrder

netVars == <<onExchange, record, reader>>

Readers == {"execution"} \cup OrderSyncs
FeeAssets == {"base", "quote", "other"}
Ended == {"FILLED", "CANCELLED"}

NotRecorded == [status |-> "NONE", filled |-> 0, quantity |-> 0, quote |-> 0, fee |-> 0]
NotReading == [at |-> "idle", row |-> NotRecorded, executed |-> 0, status |-> "NONE", fills |-> <<>>]

-----------------------------------------------------------------------------
TotalFee(fills, asset) == FillFee * Cardinality({i \in 1..Len(fills) : fills[i] = asset})
Clamp(x) == IF x > 0 THEN x ELSE 0

\* netFill: a BUY whose fee is in the coin leaves less coin, one in the quote
\* currency costs more; a SELL the other way round.  Other assets change nothing.
NetFill(executed, fills) ==
    LET quantity == executed * FillQuantity
        quote == quantity * FillPrice
        base == TotalFee(fills, "base")
        paid == TotalFee(fills, "quote")
    IN IF onExchange.side = "BUY"
       THEN [quantity |-> Clamp(quantity - base), quote |-> quote + paid]
       ELSE [quantity |-> quantity + base, quote |-> Clamp(quote - paid)]

\* calculateQuoteFee: null when no commission is in the base or quote asset.
QuoteFee(fills, otherwise) ==
    IF \E i \in 1..Len(fills) : fills[i] # "other"
    THEN TotalFee(fills, "quote") + TotalFee(fills, "base") * FillPrice
    ELSE otherwise

-----------------------------------------------------------------------------
(* The exchange *)

StatusAfter(n) == CASE n = 0 -> "PENDING" [] n = MaxFills -> "FILLED" [] OTHER -> "PARTIALLY_FILLED"

\* Somebody trades against the resting order, once more or up to the end.
OrderFills(asset) ==
    /\ onExchange.status \in {"PENDING", "PARTIALLY_FILLED"}
    /\ onExchange' = [onExchange EXCEPT !.fills = Append(@, asset),
                                        !.status = StatusAfter(Len(onExchange.fills) + 1)]
    /\ UNCHANGED <<record, reader>>

\* It expires, or the entry has become too old and is cancelled.
OrderEnds ==
    /\ onExchange.status \in {"PENDING", "PARTIALLY_FILLED"}
    /\ onExchange' = [onExchange EXCEPT !.status = "CANCELLED"]
    /\ UNCHANGED <<record, reader>>

-----------------------------------------------------------------------------
(* executeMarketOrder *)

\* The order is accepted and partly filled at once; the answer lists the fills ...
PlaceOrder(fills) ==
    /\ onExchange.status = "NONE" /\ reader["execution"].at = "idle"
    /\ onExchange' = [onExchange EXCEPT !.fills = fills, !.status = StatusAfter(Len(fills))]
    /\ \/ reader' = [reader EXCEPT !["execution"] =
                        [@ EXCEPT !.at = "record", !.executed = Len(fills),
                                  !.status = StatusAfter(Len(fills)), !.fills = fills]]
       \* ... or it is lost, and a retry looks the order up.
       \/ reader' = [reader EXCEPT !["execution"].at = "find"]
    /\ UNCHANGED record

\* findOrderByClientOrderId: an order that was looked up comes without fills.
FindOrder ==
    /\ reader["execution"].at = "find"
    /\ reader' = [reader EXCEPT !["execution"] =
                     [@ EXCEPT !.at = IF onExchange.fills # <<>> THEN "trades" ELSE "record",
                               !.executed = Len(onExchange.fills), !.status = onExchange.status]]
    /\ UNCHANGED <<onExchange, record>>

\* getOrderTrades: all trades of the order up to now.
ReadTrades(r) ==
    /\ reader[r].at = "trades"
    /\ reader' = [reader EXCEPT ![r].fills = onExchange.fills, ![r].at = "record"]
    /\ UNCHANGED <<onExchange, record>>

\* The row of a new order.
RecordOrder ==
    LET r == reader["execution"]
        net == NetFill(r.executed, r.fills)
    IN /\ r.at = "record"
       /\ record' = [status |-> r.status, filled |-> r.executed, quantity |-> net.quantity,
                     quote |-> net.quote, fee |-> QuoteFee(r.fills, 0)]
       /\ reader' = [reader EXCEPT !["execution"] = [NotReading EXCEPT !.at = "done"]]
       /\ UNCHANGED onExchange

-----------------------------------------------------------------------------
(* syncOrder *)

ReadRecord(r) ==
    /\ r \in OrderSyncs /\ reader[r].at = "idle"
    /\ record.status # "NONE"
    /\ reader' = [reader EXCEPT ![r] = [NotReading EXCEPT !.at = "report", !.row = record]]
    /\ UNCHANGED <<onExchange, record>>

\* A mutant: only an order that is filled has its trades read.
NewsOfFilled(row, executed) == executed > row.filled /\ executed = MaxFills
News(row, executed) == executed > row.filled

\* getOrder: the trades are read only when there are new fills.
ReadReport(r) ==
    LET n == Len(onExchange.fills)
    IN /\ reader[r].at = "report"
       /\ reader' = [reader EXCEPT ![r].executed = n, ![r].status = onExchange.status,
                                   ![r].at = IF News(reader[r].row, n) THEN "trades" ELSE "record"]
       /\ UNCHANGED <<onExchange, record>>

SyncGivesUp(r) ==
    /\ r \in OrderSyncs /\ reader[r].at \in {"report", "trades"}
    /\ reader' = [reader EXCEPT ![r] = NotReading]
    /\ UNCHANGED <<onExchange, record>>

\* What is accounted never becomes less than the row that was read said.
RecordSync(r) ==
    LET call == reader[r]
        net == IF News(call.row, call.executed) THEN NetFill(call.executed, call.fills)
               ELSE [quantity |-> call.row.quantity, quote |-> call.row.quote]
    IN /\ r \in OrderSyncs /\ call.at = "record"
       /\ record' = [status |-> call.status, filled |-> call.executed,
                     quantity |-> call.row.quantity + Clamp(net.quantity - call.row.quantity),
                     quote |-> call.row.quote + Clamp(net.quote - call.row.quote),
                     fee |-> QuoteFee(call.fills, call.row.fee)]
       /\ reader' = [reader EXCEPT ![r] = NotReading]
       /\ UNCHANGED onExchange

-----------------------------------------------------------------------------
NetInit ==
    /\ onExchange \in [side : {"BUY", "SELL"}, status : {"NONE"}, fills : {<<>>}]
    /\ record = NotRecorded
    /\ reader = [r \in Readers |-> NotReading]

NetNext ==
    \/ \E asset \in FeeAssets : OrderFills(asset)
    \/ OrderEnds
    \/ \E fills \in {<<>>} \cup {<<a>> : a \in FeeAssets} : PlaceOrder(fills)
    \/ FindOrder \/ RecordOrder
    \/ \E r \in Readers : ReadTrades(r) \/ ReadReport(r)
    \/ \E r \in OrderSyncs : ReadRecord(r) \/ SyncGivesUp(r) \/ RecordSync(r)

NetSpec == NetInit /\ [][NetNext]_netVars

-----------------------------------------------------------------------------
(* Properties *)

\* The books never claim coins or money the account did not get or pay, and once
\* the row of an order has ended they say exactly what the order came to, fees
\* included: whatever was filled between the two calls of a sync, however many
\* syncs overlapped, and whichever of them wrote last.
NetFillsExact ==
    LET net == NetFill(Len(onExchange.fills), onExchange.fills)
    IN /\ record.quantity <= net.quantity /\ record.quote <= net.quote
       /\ record.status \in Ended =>
              /\ record.filled = Len(onExchange.fills)
              /\ record.quantity = net.quantity /\ record.quote = net.quote
              /\ record.fee = QuoteFee(onExchange.fills, 0)
-----------------------------------------------------------------------------
(* Types *)

FillLists == Seq(FeeAssets)
OrderStates == {"NONE", "PENDING", "PARTIALLY_FILLED", "FILLED", "CANCELLED"}
OrderRow == [side : {"BUY", "SELL"}, fills : FillLists,
             status : OrderStates]
RecordRow == [status : OrderStates, filled : Nat, quantity : Nat, quote : Nat, fee : Nat]
CallRow == [at : {"idle", "find", "report", "trades", "record", "done"}, row : RecordRow,
            executed : Nat, status : OrderStates,
            fills : FillLists]

NetTypeOK == onExchange \in OrderRow /\ record \in RecordRow /\ reader \in [Readers -> CallRow]
=============================================================================
