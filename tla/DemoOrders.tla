----------------------------- MODULE DemoOrders -----------------------------
(***************************************************************************)
(* DemoExchangeExecutionService: an order on Bybit Testnet or OKX Demo with  *)
(* up to four attempts, each of which looks for the order before it places   *)
(* it, because the answer to the one before may have been lost.  The id is   *)
(* the user's: he may send it again, at once or after a call failed, cancel  *)
(* the order, and change his key at any time.  An id is what                 *)
(* normalizeClientOrderId leaves of it.  Bybit has open orders and finished  *)
(* ones in two lists, OKX in one.  The exchange is external: it refuses an   *)
(* id only while an order with it is open.                                   *)
(***************************************************************************)
EXTENDS ExchangeKeys

CONSTANTS
    Account,        \* Account[k]: the account a key belongs to
    ClientIds,      \* client order ids, normalised
    MaxAttempts,    \* maxAttempts
    MaxDemoCalls,   \* bound: calls of placeOrder
    NoClientId

ASSUME DemoOrdersAssumption ==
    MaxAttempts \in Nat \ {0} /\ MaxDemoCalls \in Nat /\ NoClientId \notin ClientIds

\* Calls are numbered as they begin.
PlaceCalls == 1..MaxDemoCalls
DemoAccounts == DemoExchanges \X {Account[k] : k \in ApiKeys}

VARIABLES
    demoBook,    \* demoBook[a][id]: the orders with an id on account a
    demoCall,    \* the calls
    atOnce       \* history: atOnce[a][id], the most calls about an id and an account
                 \* that were under way at the same time

demoVars == <<credential, keyRequest, keyChanges, demoBook, demoCall, atOnce>>

NoDemoOrder == [open |-> FALSE, done |-> 0]
NoDemoCall ==
    [at |-> "none", id |-> NoClientId, exchange |-> "OKX", key |-> NoApiKey, attempt |-> 0,
     answer |-> "none"]

OnBybit(c) == demoCall[c].exchange = "BYBIT"
AccountOf(c) == <<demoCall[c].exchange, Account[demoCall[c].key]>>
OnBook(c) == demoBook[AccountOf(c)][demoCall[c].id]

\* How often an order was accepted.
OrdersTaken(order) == order.done + (IF order.open THEN 1 ELSE 0)

\* The calls that are under way about an id and an account.
UnderWay(a, id) ==
    {c \in PlaceCalls :
        demoCall[c].at \notin {"none", "ended"} /\ demoCall[c].id = id /\ AccountOf(c) = a}

DemoGo(c, at) == demoCall' = [demoCall EXCEPT ![c].at = at]
DemoAnswer(c, answer) ==
    demoCall' = [demoCall EXCEPT ![c] = [@ EXCEPT !.at = "ended", !.answer = answer]]

-----------------------------------------------------------------------------
\* The key is read once and used to the end of the call; without one it fails.
\* Nothing asks whether another call with the id is under way.
StartDemoOrder(c, id, exchange) ==
    /\ \A b \in PlaceCalls : demoCall[b].at = "none" <=> b >= c
    /\ credential[exchange].key # NoApiKey
    /\ demoCall' = [demoCall EXCEPT ![c] =
           [NoDemoCall EXCEPT !.at = "test", !.id = id, !.exchange = exchange, !.attempt = 1,
                              !.key = credential[exchange].key]]
    /\ LET a == <<exchange, Account[credential[exchange].key]>>
           n == Cardinality(UnderWay(a, id)) + 1
       IN  atOnce' = [atOnce EXCEPT ![a][id] = IF n > @ THEN n ELSE @]
    /\ UNCHANGED <<keyVars, demoBook>>

\* testConnection comes before the attempts and is not repeated.
TestConnection(c) ==
    /\ demoCall[c].at = "test"
    /\ \/ MayTrade(demoCall[c].key) /\ DemoGo(c, "open")
       \/ DemoAnswer(c, "failed")
    /\ UNCHANGED <<keyVars, demoBook, atOnce>>

\* A mutant: the finished orders are asked for first.
HistoryFirst(c) ==
    \/ OnBook(c).open /\ (OnBybit(c) => demoCall[c].at = "history")
    \/ OnBook(c).done > 0 /\ (OnBybit(c) => demoCall[c].at = "open")

\* Whether the list that is asked shows an order: /v5/order/realtime, then
\* /v5/order/history; OKX shows both at once.
Listed(c) ==
    \/ OnBook(c).open /\ (OnBybit(c) => demoCall[c].at = "open")
    \/ OnBook(c).done > 0 /\ (OnBybit(c) => demoCall[c].at = "history")

\* findOrderByClientOrderId: an order that exists is the answer of the call.
LookForOrder(c) ==
    /\ demoCall[c].at \in {"open", "history"}
    /\ IF Listed(c) THEN DemoAnswer(c, "recovered")
       ELSE DemoGo(c, IF demoCall[c].at = "open" /\ OnBybit(c) THEN "history" ELSE "place")
    /\ UNCHANGED <<keyVars, demoBook, atOnce>>

\* The order is accepted, a market order is filled at once, and it is read back;
\* when that answer or the first one is lost, the next attempt finds the order, or
\* there is none and the call fails: isRetryable decides.
PlaceDemoOrder(c) ==
    /\ demoCall[c].at = "place" /\ ~OnBook(c).open
    /\ \E order \in {[OnBook(c) EXCEPT !.open = TRUE], [OnBook(c) EXCEPT !.done = @ + 1]} :
           demoBook' = [demoBook EXCEPT ![AccountOf(c)][demoCall[c].id] = order]
    /\ DemoGo(c, "readback") \/ DemoGo(c, "retry") \/ DemoAnswer(c, "failed")
    /\ UNCHANGED <<keyVars, atOnce>>

ReadBack(c) ==
    /\ demoCall[c].at = "readback"
    /\ DemoAnswer(c, "placed") \/ DemoGo(c, "retry") \/ DemoAnswer(c, "failed")
    /\ UNCHANGED <<keyVars, demoBook, atOnce>>

\* A request to the exchange fails before it does anything: isRetryable decides.
AttemptFails(c) ==
    /\ demoCall[c].at \in {"open", "history", "place"}
    /\ DemoGo(c, "retry") \/ DemoAnswer(c, "failed")
    /\ UNCHANGED <<keyVars, demoBook, atOnce>>

RetryDemoOrder(c) ==
    /\ demoCall[c].at = "retry"
    /\ IF demoCall[c].attempt = MaxAttempts THEN DemoAnswer(c, "failed")
       ELSE demoCall' = [demoCall EXCEPT ![c].at = "open", ![c].attempt = @ + 1]
    /\ UNCHANGED <<keyVars, demoBook, atOnce>>

\* The market fills an order, or the user cancels it.
DemoOrderEnds(a, id) ==
    /\ demoBook[a][id].open
    /\ demoBook' = [demoBook EXCEPT ![a][id] = [open |-> FALSE, done |-> @.done + 1]]
    /\ UNCHANGED <<keyVars, demoCall, atOnce>>

-----------------------------------------------------------------------------
DemoInit ==
    /\ KeysInit
    /\ demoBook = [a \in DemoAccounts |-> [id \in ClientIds |-> NoDemoOrder]]
    /\ demoCall = [c \in PlaceCalls |-> NoDemoCall]
    /\ atOnce = [a \in DemoAccounts |-> [id \in ClientIds |-> 0]]

DemoNext ==
    \/ \E q \in KeyRequests : KeyStep(q) /\ UNCHANGED <<demoBook, demoCall, atOnce>>
    \/ \E c \in PlaceCalls :
           \/ \E id \in ClientIds, exchange \in DemoExchanges : StartDemoOrder(c, id, exchange)
           \/ TestConnection(c) \/ LookForOrder(c)
           \/ PlaceDemoOrder(c) \/ ReadBack(c) \/ AttemptFails(c) \/ RetryDemoOrder(c)
    \/ \E a \in DemoAccounts, id \in ClientIds : DemoOrderEnds(a, id)

DemoSpec == DemoInit /\ [][DemoNext]_demoVars

-----------------------------------------------------------------------------
(* Properties *)

CallPlaces == {"none", "test", "open", "history", "place", "readback", "retry", "ended"}
CallAnswers == {"none", "placed", "recovered", "failed"}
DemoRows == [open : BOOLEAN, done : Nat]
DemoCalls ==
    [at : CallPlaces, id : ClientIds \cup {NoClientId}, exchange : DemoExchanges,
     key : ApiKeys \cup {NoApiKey}, attempt : Nat, answer : CallAnswers]

\* The type invariant of the keys and the calls.
DemoTypeOK ==
    /\ KeysTypeOK
    /\ demoBook \in [DemoAccounts -> [ClientIds -> DemoRows]]
    /\ demoCall \in [PlaceCalls -> DemoCalls]
    /\ atOnce \in [DemoAccounts -> [ClientIds -> Nat]]

\* However many answers are lost, whenever an order is filled or cancelled between two
\* requests, and with whichever key: an account has at most as many orders with an id
\* as calls about it were under way at once, so one at most if they come one after the
\* other, however often; and a call that says an order is there saw it there.
DemoOrderPlacedOnce ==
    /\ \A a \in DemoAccounts, id \in ClientIds : OrdersTaken(demoBook[a][id]) <= atOnce[a][id]
    /\ \A c \in PlaceCalls :
           demoCall[c].answer \in {"placed", "recovered"} => OrdersTaken(OnBook(c)) >= 1

\* What a user has on the demo exchanges, and the keys he gave.
ExchangeAccessSound == DemoOrderPlacedOnce /\ LiveKeyCannotWithdraw
=============================================================================
