------------------------------ MODULE Exchange ------------------------------
(***************************************************************************)
(* The Binance account of one bot as BinanceTestnetOrderService and         *)
(* BinanceService use it: the orders placed under each client order id, the *)
(* answers the calls give, and the coins the account holds.  The exchange   *)
(* is external code; what is here is what the calls in src/ rely on.        *)
(***************************************************************************)
EXTENDS TradingKeys

VARIABLE exchange   \* exchange[k]: the order placed under client order id k

Absent == [status |-> "NONE", executed |-> 0, wanted |-> 0, placed |-> 0]

ExchangeStatuses == {"NONE", "NEW", "PARTIALLY_FILLED", "FILLED", "CANCELED", "EXPIRED"}

\* What executedQty and status of one answer say of an order.
Answer(o) == [status |-> o.status, executed |-> o.executed]
Report(k) == Answer(exchange[k])
NoReport == [status |-> "NONE", executed |-> 0]

Live(k) == exchange[k].status \in {"NEW", "PARTIALLY_FILLED"}
Done(k) == exchange[k].status \in {"FILLED", "CANCELED", "EXPIRED"}

\* Free balance of the coin: what was bought and not sold, as GET /account reports it.
Executed == [k \in Keys |-> exchange[k].executed]
Bought == SumFunctionOnSet(Executed, EntryKeys)
Sold == SumFunctionOnSet(Executed, ExitKeys)
FreeBalance == IF Bought > Sold THEN Bought - Sold ELSE 0

InitExchange == exchange = [k \in Keys |-> Absent]

\* The status of a live order that has executed e of w lots.
RestingStatus(e, w) == CASE e = 0 -> "NEW" [] e = w -> "FILLED" [] OTHER -> "PARTIALLY_FILLED"

\* POST /order of a limit buy: it rests, filled in part or whole at once.
AcceptLimit(k, q) ==
    \E e \in 0..q :
        exchange' = [exchange EXCEPT ![k] = [status |-> RestingStatus(e, q), executed |-> e,
                                             wanted |-> q, placed |-> @.placed + 1]]

\* POST /order of a market sell: filled, or expired when the book ran out.
AcceptMarket(k, q) ==
    \E e \in 0..q :
        exchange' = [exchange EXCEPT ![k] = [status |-> IF e = q THEN "FILLED" ELSE "EXPIRED",
                                             executed |-> e, wanted |-> q,
                                             placed |-> @.placed + 1]]

\* Binance refuses a client order id that an open order has.
Accept(k, q) == /\ ~Live(k)
                /\ IF k.side = "BUY" THEN AcceptLimit(k, q) ELSE AcceptMarket(k, q)

\* Another party trades against a resting order.
Fill(k) == /\ Live(k)
           /\ \E e \in exchange[k].executed + 1 .. exchange[k].wanted :
                exchange' = [exchange EXCEPT ![k].executed = e,
                                             ![k].status = RestingStatus(e, exchange[k].wanted)]

\* Binance ends a resting order by itself.
Expire(k) == /\ Live(k)
             /\ exchange' = [exchange EXCEPT ![k].status = "EXPIRED"]

\* DELETE /order: a done order answers "Unknown order" and stays as it is.
CancelOnExchange(k) ==
    exchange' = IF Live(k) THEN [exchange EXCEPT ![k].status = "CANCELED"] ELSE exchange
=============================================================================
