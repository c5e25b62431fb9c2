--------------------------- MODULE OrderExecution ---------------------------
(***************************************************************************)
(* executeMarketOrder of TestnetStrategyExecutionService behind the risk     *)
(* check of RiskAwareTestnetStrategyExecutionService, for every caller that  *)
(* may be inside it: the ticks of the runners and the passes of the retry    *)
(* schedulers.  Each await that reads or writes shared state is a step of    *)
(* its own; what a step read is kept in the executor and may be stale when   *)
(* a later step uses it.                                                     *)
(***************************************************************************)
EXTENDS StrategyActions, Exchange, Positions

CONSTANTS
    Runners,    \* strategy scheduler passes, one for each application instance
    Retriers    \* retry scheduler passes

ASSUME OrderExecutionAssumption == Runners \cap Retriers = {}

VARIABLES
    strategy,   \* TradingStrategy.status
    executor    \* executor[e]: where e is, and what it has read

Executors == Runners \cup Retriers

NoView == [cycle |-> 0, position |-> NoPosition, legs |-> NoLegs]

Resting == [pc |-> "idle", key |-> NoKey, quantity |-> 0, view |-> NoView,
            answer |-> NoReport, retryable |-> FALSE]

ExecutorPcs == {"idle", "loaded", "locked", "deciding", "begin", "claim", "insert", "claimed",
                "listed", "lookup", "place", "commit", "failing", "remark", "unlock"}

InitExecution == /\ strategy = "RUNNING"
                 /\ executor = [e \in Executors |-> Resting]

books == <<position, leg, order>>

At(e, pc) == executor[e].pc = pc
Go(e, pc) == executor' = [executor EXCEPT ![e].pc = pc]
Rest(e) == executor' = [executor EXCEPT ![e] = Resting]

\* An exception ends the call: a tick goes to its finally block, the retry
\* scheduler marks the action failed once more before it takes the next one.
Throw(e, retryable) ==
    IF e \in Runners THEN Go(e, "unlock")
    ELSE executor' = [executor EXCEPT ![e].pc = "remark", ![e].retryable = retryable]

\* An exception inside the try block around the exchange call.
Fail(e, retryable) == executor' = [executor EXCEPT ![e].pc = "failing", ![e].retryable = retryable]

----------------------------------------------------------------------------
\* The position as the service reads it at the start, and the leg of an exit.
ViewOf(c, k) ==
    [cycle |-> c,
     position |-> IF c = 0 THEN NoPosition ELSE position[c],
     legs |-> IF c # 0 /\ IndependentExit(k)
              THEN [NoLegs EXCEPT ![k.level] = leg[c][k.level]] ELSE NoLegs]

\* The checks of a sale against what was just read.
SaleAllowed(v, k, q) ==
    /\ v.cycle # 0
    /\ IF IndependentExit(k)
       THEN v.legs[k.level].status = "OPEN" /\ q <= v.legs[k.level].quantity
       ELSE q <= v.position.quantity

\* Strategy and open position are read; the risk service let the order pass.
Begin(e) ==
    LET k == executor[e].key
        v == ViewOf(LatestOpen, k)
    IN /\ At(e, "begin")
       /\ strategy # "STOPPED"
       /\ k.side = "SELL" => SaleAllowed(v, k, executor[e].quantity)
       /\ executor' = [executor EXCEPT ![e].view = v,
                                       ![e].pc = IF e \in Runners THEN "claim" ELSE "claimed"]
       /\ UNCHANGED <<strategy, action, exchange, books>>

\* A stopped strategy, a sale of more than is held, or an entry the risk
\* service refuses (budget, exposure, cooldown, daily loss).
BeginRefused(e) ==
    LET k == executor[e].key
    IN /\ At(e, "begin")
       /\ \/ strategy = "STOPPED"
          \/ k.side = "SELL" /\ ~SaleAllowed(ViewOf(LatestOpen, k), k, executor[e].quantity)
          \/ k.side = "BUY"
       /\ Throw(e, FALSE)
       /\ UNCHANGED <<strategy, action, exchange, books>>

\* claim, up to the last of its queries.
ClaimCheck(e) ==
    LET k == executor[e].key
        c == executor[e].view.cycle
        blocked == BlockingAction(k, c) \/ (c # 0 /\ OpenOrders(c) # {})
    IN /\ At(e, "claim")
       /\ Go(e, IF Existing(k) \/ blocked THEN "unlock" ELSE "insert")
       /\ UNCHANGED <<strategy, action, exchange, books>>

\* claim, the insert: whoever comes second gets the row of the first.
ClaimInsert(e) ==
    LET k == executor[e].key
    IN /\ At(e, "insert")
       /\ IF Existing(k)
          THEN Go(e, "unlock") /\ UNCHANGED action
          ELSE Create(k, executor[e].view.cycle, executor[e].quantity) /\ Go(e, "place")
       /\ UNCHANGED <<strategy, exchange, books>>

\* Mutant: a claimed retry places the order at once.
PlaceClaimedRetry(e) ==
    /\ At(e, "claimed")
    /\ IF action[executor[e].key].status = "PENDING" THEN Go(e, "place") ELSE Throw(e, FALSE)
    /\ UNCHANGED <<strategy, action, exchange, books>>

\* getClaimedRetry: the action must still be the PENDING one that was claimed.
GetClaimedRetry(e) ==
    /\ At(e, "claimed")
    /\ IF action[executor[e].key].status = "PENDING" THEN Go(e, "lookup") ELSE Throw(e, FALSE)
    /\ UNCHANGED <<strategy, action, exchange, books>>

----------------------------------------------------------------------------
\* findOrderByClientOrderId, only when the action is a retry.
Lookup(e) ==
    LET k == executor[e].key
    IN /\ At(e, "lookup")
       /\ executor' = IF exchange[k].status = "NONE"
                      THEN [executor EXCEPT ![e].pc = "place"]
                      ELSE [executor EXCEPT ![e].pc = "commit", ![e].answer = Report(k)]
       /\ UNCHANGED <<strategy, action, exchange, books>>

LookupFails(e) ==
    /\ At(e, "lookup")
    /\ \E retryable \in BOOLEAN : Fail(e, retryable)
    /\ UNCHANGED <<strategy, action, exchange, books>>

\* sellableQuantity: never more than the free balance.
OrderQuantity(e) ==
    IF executor[e].key.side = "SELL" THEN AtMost(executor[e].quantity, FreeBalance)
    ELSE executor[e].quantity

\* The order is accepted and the answer arrives.
Place(e) ==
    LET k == executor[e].key
    IN /\ At(e, "place")
       /\ OrderQuantity(e) > 0
       /\ Accept(k, OrderQuantity(e))
       /\ executor' = [executor EXCEPT ![e].pc = "commit", ![e].answer = Answer(exchange'[k])]
       /\ UNCHANGED <<strategy, action, books>>

\* The order is accepted and the answer is lost: timeout, 5xx, broken connection.
PlaceUnanswered(e) ==
    /\ At(e, "place")
    /\ OrderQuantity(e) > 0
    /\ Accept(executor[e].key, OrderQuantity(e))
    /\ Fail(e, TRUE)
    /\ UNCHANGED <<strategy, action, books>>

\* No order: refused (4xx), no coin to sell, or a request that never arrived.
PlaceRefused(e) ==
    /\ At(e, "place")
    /\ \E retryable \in BOOLEAN : Fail(e, retryable)
    /\ UNCHANGED <<strategy, action, exchange, books>>

----------------------------------------------------------------------------
\* The position an order is recorded with: the one read, or a new one.
TargetCycle(e) == IF executor[e].view.cycle # 0 THEN executor[e].view.cycle ELSE PositionCount + 1

\* The update divides by a remaining quantity of zero (parent sold out while
\* legs are open): the row then gets NaN, which the database may reject.
StoresNaN(e) ==
    LET k == executor[e].key
        r == executor[e].answer
        v == executor[e].view
    IN /\ ParentExit(k) /\ r.executed > 0
       /\ Remaining(v.position, r.executed, r.status = "FILLED") = 0
       /\ OpenLegs(v.cycle) # {}

\* The position after the transaction, from the position p in the database
\* and the position that was read at the start of the call.
PositionAfter(e, p) ==
    LET k == executor[e].key
        v == executor[e].view
        r == executor[e].answer
        c == v.cycle
        full == r.status = "FILLED"
        legsOpen == OpenLegs(c) # {}
    IN CASE k.side = "BUY" /\ ~IndependentEntry(k) /\ r.executed > 0 ->
              ParentBought(p, v.position, r.executed, v.position.dcaCount + 1)
         [] IndependentEntry(k) /\ r.executed > 0 ->
              IF leg[c][k.level].status = "NONE" /\ k.level = v.position.dcaCount + 2
              THEN LadderMoved(p, v.position) ELSE p
         [] ParentExit(k) /\ r.executed > 0 ->
              ParentSold(p, v.position, r.executed, full, legsOpen)
         [] IndependentExit(k) /\ r.executed > 0 ->
              LastLegSold(p, v.position, LegSold(v.legs[k.level], r.executed, full),
                          OpenLegs(c) \ {k.level} # {})
         [] k.side = "BUY" /\ r.executed = 0 /\ IsTerminal(MapOrderStatus(r.status)) ->
              ClosedIfEmpty(p, legsOpen, OpenOrders(c) # {})
         [] OTHER -> p

\* The position a BUY opens when none was open, in the same transaction.
FirstPosition(k, r) ==
    LET p == Opened(k, r.executed)
    IN CASE IndependentEntry(k) /\ r.executed > 0 /\ k.level = 2 -> LadderMoved(p, p)
         [] r.executed = 0 /\ IsTerminal(MapOrderStatus(r.status)) -> ClosedIfEmpty(p, FALSE, FALSE)
         [] OTHER -> p

\* The leg after the transaction.
LegAfter(e, s) ==
    LET k == executor[e].key
        r == executor[e].answer
    IN CASE IndependentEntry(k) /\ r.executed > 0 -> LegBought(s, r.executed)
         [] IndependentExit(k) /\ r.executed > 0 ->
              LegSold(executor[e].view.legs[k.level], r.executed, r.status = "FILLED")
         [] OTHER -> s

\* One transaction: position, leg, order row and action.
Commit(e) ==
    LET k == executor[e].key
        r == executor[e].answer
        c == TargetCycle(e)
        status == MapOrderStatus(r.status)
    IN /\ At(e, "commit")
       /\ order[k].status = "NONE"
       /\ position' = [position EXCEPT ![c] = IF executor[e].view.cycle = 0 THEN FirstPosition(k, r)
                                              ELSE PositionAfter(e, @)]
       /\ leg' = IF k.level \in IndependentLevels
                 THEN [leg EXCEPT ![c][k.level] = LegAfter(e, @)] ELSE leg
       /\ order' = [order EXCEPT ![k] =
                      [status |-> status, filled |-> r.executed, accounted |-> r.executed,
                       position |-> c,
                       leg |-> IndependentExit(k) \/ (IndependentEntry(k) /\ r.executed > 0)]]
       /\ Resolve(k, c, status, r.executed)
       /\ IF e \in Runners THEN Go(e, "unlock") ELSE Rest(e)
       /\ UNCHANGED <<strategy, exchange>>

\* The transaction throws: the client order id is recorded already, or NaN.
CommitThrows(e) ==
    /\ At(e, "commit")
    /\ order[executor[e].key].status # "NONE" \/ StoresNaN(e)
    /\ Fail(e, FALSE)
    /\ UNCHANGED <<strategy, action, exchange, books>>

\* The catch block of executeMarketOrder, then the exception goes on.
MarkFailedInside(e) ==
    /\ At(e, "failing")
    /\ MarkFailed(executor[e].key, executor[e].retryable)
    /\ Throw(e, executor[e].retryable)
    /\ UNCHANGED <<strategy, exchange, books>>

----------------------------------------------------------------------------
\* runDueRetries lists the actions that are due, with their orders ...
RetryList(e, k) ==
    /\ e \in Retriers
    /\ At(e, "idle")
    /\ strategy = "RUNNING"
    /\ DueForRetry(k)
    /\ order[k].status \notin OpenStatuses
    /\ executor' = [executor EXCEPT ![e].pc = "listed", ![e].key = k,
                                    ![e].quantity = action[k].quantity]
    /\ UNCHANGED <<strategy, action, exchange, books>>

\* ... and takes one of them; claimRetry decides who gets it.
RetryClaim(e) ==
    LET k == executor[e].key
    IN /\ At(e, "listed")
       /\ IF Claimable(k)
          THEN ClaimRetry(k) /\ Go(e, "begin")
          ELSE Rest(e) /\ UNCHANGED action
       /\ UNCHANGED <<strategy, exchange, books>>

\* The catch block of runDueRetries marks the same action failed again.
MarkFailedOutside(e) ==
    /\ At(e, "remark")
    /\ MarkFailed(executor[e].key, executor[e].retryable)
    /\ Rest(e)
    /\ UNCHANGED <<strategy, exchange, books>>

ExecutionStep(e) == \/ Begin(e) \/ BeginRefused(e)
                    \/ ClaimCheck(e) \/ ClaimInsert(e) \/ GetClaimedRetry(e)
                    \/ Lookup(e) \/ LookupFails(e)
                    \/ Place(e) \/ PlaceUnanswered(e) \/ PlaceRefused(e)
                    \/ Commit(e) \/ CommitThrows(e)
                    \/ MarkFailedInside(e) \/ MarkFailedOutside(e)
                    \/ RetryClaim(e)
=============================================================================
