---------------------------- MODULE PaperTrading ----------------------------
(***************************************************************************)
(* Paper trading of one bot: the ticks of the scheduler and the requests of *)
(* the owner open, extend and close simulated positions.  Every operation   *)
(* reads the position, decides, and writes what it computed from the row it *)
(* read in one transaction; nothing keeps two operations apart except the   *)
(* runner's set of running strategies and, between the instances, the lock  *)
(* of the scheduler's pass.                                                 *)
(***************************************************************************)
EXTENDS StrategyMath

CONSTANTS
    PaperBot,            \* the row of the strategy, as StrategyMath reads it
    PaperRunners,        \* ticks of the runner, by cron or by request
    PaperOwners,         \* requests of the owner
    RequestPrices,       \* bound: the prices a request may name
    MaxPositions,        \* bound: positions of one behaviour
    MaxPaperOperations   \* bound: requests of one behaviour

ASSUME PaperTradingAssumption ==
    /\ ValidPlanInput(PaperBot) /\ ValidRecovery(PaperBot)
    \* Amounts are whole numbers of quote units.
    /\ PaperBot.riskBudget \in Nat /\ PaperBot.baseOrder \in Nat
    /\ PaperBot.recoveryMultipliers \in Seq(Nat)
    /\ \A l \in DOMAIN BuildPlan(PaperBot) : BuildPlan(PaperBot)[l].quote \in Nat
    /\ RequestPrices \subseteq Prices
    /\ MaxPositions \in Nat /\ MaxPaperOperations \in Nat

VARIABLES
    paper,          \* the positions, oldest first, with their legs
    paperOrders,    \* per position, the sums over its filled orders
    paperRunning,   \* PaperStrategyRunnerService.runningStrategies holds the bot
    paperRequests,  \* requests started so far
    paperWorker     \* what each runner and each request has read

paperVars == <<paper, paperOrders, paperRunning, paperRequests, paperWorker>>

PaperActors == PaperRunners \cup PaperOwners

NoView == [status |-> "NONE"]
IdleWorker == [pc |-> "idle", n |-> 0, price |-> 0, view |-> NoView]
NoOrders == [bought |-> 0, sold |-> 0, spent |-> 0, received |-> 0,
             legBuys |-> [l \in 2..(PaperBot.maxDcaOrders + 1) |-> 0], lost |-> FALSE]

Done(a) == paperWorker' = [paperWorker EXCEPT ![a] = IdleWorker]

\* The last act of an operation: the runner forgets the bot in its finally.
Finish(a) ==
    /\ Done(a)
    /\ paperRunning' = (paperRunning /\ a \notin PaperRunners)
    /\ UNCHANGED paperRequests

OpenPositions == {n \in DOMAIN paper : paper[n].status = "OPEN"}

PaperPlan == BuildPlan(PaperBot)
StepBefore(level) == IF PaperPlan[level].independent THEN PaperBot.subTrigger ELSE PaperBot.dcaStep
NextDcaPrice(level, price) ==
    IF level \in DOMAIN PaperPlan THEN PriceDown(price, StepBefore(level)) ELSE NoPrice
Average(cost, quantity, percent) == IF quantity > 0 THEN PriceUp(cost, quantity, percent) ELSE 0

OpenLegs(p) == {i \in DOMAIN p.legs : p.legs[i].status = "OPEN"}
Basket(p) == BasketTotals(p, p.legs)
RemainingBudget(p) == Positive(PaperBot.riskBudget - Basket(p).cost)

-----------------------------------------------------------------------------
(* Orders *)

StaleView(a) == paperWorker[a].view # paper[paperWorker[a].n]

\* An operation on the position a has read: o gives the new sums of its orders.
Book(a, o) ==
    paperOrders' = [paperOrders EXCEPT ![paperWorker[a].n] = [o EXCEPT !.lost = @ \/ StaleView(a)]]
Bought(a, quantity, quote) ==
    [paperOrders[paperWorker[a].n] EXCEPT !.bought = @ + quantity, !.spent = @ + quote]
Sold(a, quantity, quote) ==
    [paperOrders[paperWorker[a].n] EXCEPT !.sold = @ + quantity, !.received = @ + quote]

-----------------------------------------------------------------------------
(* openPosition *)

CreatePosition(a) ==
    LET price == paperWorker[a].price
        base == PaperPlan[1].quote
    IN /\ paperWorker[a].pc = "create"
       /\ Len(paper) < MaxPositions
       /\ paper' = Append(paper,
              [status |-> "OPEN", quantity |-> base \div price, cost |-> base, pnl |-> 0,
               dcaCount |-> 0, nextDca |-> NextDcaPrice(2, price),
               tp |-> PriceUp(price, 1, PaperBot.takeProfit), tpManual |-> FALSE,
               recovery |-> FALSE, recoveryCount |-> 0, anchor |-> NoPrice,
               recoveryTp |-> NoPrice, recoveryManual |-> FALSE, legs |-> <<>>])
       /\ paperOrders' = Append(paperOrders,
              [NoOrders EXCEPT !.bought = base \div price, !.spent = base])
       /\ Finish(a)

-----------------------------------------------------------------------------
(* The writes, each one transaction over what a has read. *)

\* executeDca: the next level of the plan, in the parent or as a leg of its own.
ExecuteDca(a) ==
    LET w == paperWorker[a]
        p == w.view
        row == paper[w.n]
        level == p.dcaCount + 2
        quote == PaperPlan[level].quote
        quantity == quote \div w.price
        leg == PaperPlan[level].independent
        newQuantity == IF leg THEN p.quantity ELSE p.quantity + quantity
        newCost == IF leg THEN p.cost ELSE p.cost + quote
        parentTp == Average(newCost, newQuantity, PaperBot.takeProfit)
        newLeg == [level |-> level, status |-> "OPEN", quantity |-> quantity, cost |-> quote,
                   entry |-> w.price, tp |-> PriceUp(w.price, 1, PaperBot.subTakeProfit)]
    IN /\ paper' = [paper EXCEPT ![w.n] = [row EXCEPT
                 !.legs = IF leg THEN Append(row.legs, newLeg) ELSE row.legs,
                 !.quantity = newQuantity, !.cost = newCost,
                 !.dcaCount = p.dcaCount + 1,
                 !.nextDca = NextDcaPrice(level + 1, w.price),
                 !.tp = IF (leg \/ p.tpManual) /\ p.tp # NoPrice THEN p.tp ELSE parentTp]]
       /\ Book(a, [Bought(a, quantity, quote) EXCEPT !.legBuys[level] = @ + (IF leg THEN 1 ELSE 0)])

\* executeClose: everything the parent holds; open legs keep the position open.
ExecuteClose(a) ==
    LET w == paperWorker[a]
        p == w.view
        row == paper[w.n]
    IN /\ paper' = [paper EXCEPT ![w.n] = [row EXCEPT
                 !.status = IF OpenLegs(p) # {} THEN "OPEN" ELSE "CLOSED",
                 !.quantity = 0, !.cost = 0,
                 !.pnl = p.pnl + p.quantity * w.price - p.cost,
                 !.nextDca = NoPrice, !.tp = NoPrice]]
       /\ Book(a, Sold(a, p.quantity, p.quantity * w.price))

\* A mutant: a leg sold before is sold again.
SoldLegsToo(p, price) == {i \in DOMAIN p.legs : price >= p.legs[i].tp}

\* closeEligibleSubPositions: the legs whose target the price has reached.
EligibleLegs(p, price) == {i \in OpenLegs(p) : price >= p.legs[i].tp}

CloseEligibleSubPositions(a) ==
    LET w == paperWorker[a]
        p == w.view
        row == paper[w.n]
        sold == BasketTotals([quantity |-> 0, cost |-> 0],
                             [i \in DOMAIN p.legs |->
                                 [p.legs[i] EXCEPT !.status = IF i \in EligibleLegs(p, w.price)
                                                                 THEN "OPEN" ELSE "CLOSED"]])
        closed == p.quantity = 0 /\ OpenLegs(p) \subseteq EligibleLegs(p, w.price)
    IN /\ paperWorker[a].pc = "sellLegs"
       /\ paper' = [paper EXCEPT ![w.n] = [row EXCEPT
                 !.legs = [i \in DOMAIN row.legs |-> IF i \in EligibleLegs(p, w.price)
                              THEN [row.legs[i] EXCEPT !.status = "CLOSED"] ELSE row.legs[i]],
                 !.quantity = p.quantity, !.cost = p.cost,
                 !.pnl = p.pnl + sold.quantity * w.price - sold.cost,
                 !.tp = IF p.quantity > 0 THEN PriceUp(p.cost, p.quantity, PaperBot.takeProfit) ELSE NoPrice,
                 !.status = IF closed THEN "CLOSED" ELSE "OPEN"]]
       /\ Book(a, Sold(a, sold.quantity, sold.quantity * w.price))
       \* The tick goes on with the row as it is after its own sale.
       /\ paperWorker' = [paperWorker EXCEPT ![a].pc = "act", ![a].view = paper'[w.n]]
       /\ UNCHANGED <<paperRunning, paperRequests>>

\* getRecoveryAnchor: the entry of the first independent level, sold or not.
RecoveryAnchor(p) ==
    LET Anchors == {i \in DOMAIN p.legs : p.legs[i].level = PaperBot.independentFrom}
    IN IF ShouldActivate(PaperBot, p.dcaCount + 1) /\ Anchors # {}
       THEN LET entry == p.legs[CHOOSE i \in Anchors : TRUE].entry
            IN IF entry > 0 THEN entry ELSE NoPrice
       ELSE NoPrice

AtPrice(price) == [cost |-> price, quantity |-> 1]
RecoveryLeg(p, anchor) == NextLeg(PaperBot, p.recoveryCount, AtPrice(anchor), RemainingBudget(p))

\* executeRecoveryDca: the first one puts the position into recovery mode.
ExecuteRecoveryDca(a, anchor) ==
    LET w == paperWorker[a]
        p == w.view
        row == paper[w.n]
        quote == RecoveryLeg(p, anchor).quote
        quantity == quote \div w.price
        after == [p EXCEPT !.quantity = @ + quantity, !.cost = @ + quote, !.recoveryCount = @ + 1]
        next == RecoveryLeg(after, anchor)
    IN /\ paper' = [paper EXCEPT ![w.n] = [row EXCEPT
                 !.quantity = after.quantity, !.cost = after.cost,
                 !.recovery = TRUE,
                 !.recoveryCount = after.recoveryCount,
                 !.anchor = anchor,
                 !.recoveryTp = IF p.recoveryManual THEN p.recoveryTp
                                ELSE GlobalTakeProfit(PaperBot, Basket(after)),
                 !.nextDca = next.trigger,
                 !.tp = NoPrice]]
       /\ Book(a, Bought(a, quantity, quote))

\* executeRecoveryClose: the whole basket at once.
ExecuteRecoveryClose(a) ==
    LET w == paperWorker[a]
        p == w.view
        row == paper[w.n]
        basket == Basket(p)
    IN /\ paper' = [paper EXCEPT ![w.n] = [row EXCEPT
                 !.legs = [i \in DOMAIN row.legs |-> IF i \in OpenLegs(p)
                              THEN [row.legs[i] EXCEPT !.status = "CLOSED", !.quantity = 0,
                                                       !.cost = 0, !.entry = 0]
                              ELSE row.legs[i]],
                 !.status = "CLOSED", !.quantity = 0, !.cost = 0,
                 !.pnl = p.pnl + basket.quantity * w.price - basket.cost,
                 !.recovery = FALSE, !.recoveryTp = NoPrice,
                 !.nextDca = NoPrice, !.tp = NoPrice]]
       /\ Book(a, Sold(a, basket.quantity, basket.quantity * w.price))

-----------------------------------------------------------------------------
(* processPrice *)

\* getOpenPosition, and what the tick does first.
ReadForTick(a, n, price) ==
    LET p == paper[n] IN
    /\ p.status = "OPEN"
    /\ paperWorker' = [paperWorker EXCEPT ![a] =
           [pc |-> IF ~p.recovery /\ EligibleLegs(p, price) # {} THEN "sellLegs" ELSE "act",
            n |-> n, price |-> price, view |-> p]]
    /\ UNCHANGED <<paper, paperOrders, paperRunning>>

RecoveryTarget(p) == IF p.recoveryTp # NoPrice THEN p.recoveryTp
                     ELSE GlobalTakeProfit(PaperBot, Basket(p))
RecoveryStart(p) == IF p.anchor # NoPrice THEN p.anchor ELSE RecoveryAnchor(p)

\* The checks an operation makes before it writes.
Possible(a, action) ==
    LET w == paperWorker[a]
        p == w.view
        level == p.dcaCount + 2
    IN CASE action = "dca" ->
                /\ level \in DOMAIN PaperPlan
                /\ WithinBudget(PaperPlan[level].quote, Basket(p).cost, PaperBot.riskBudget)
                \* @@unique([positionId, level])
                /\ PaperPlan[level].independent =>
                       \A i \in DOMAIN paper[w.n].legs : paper[w.n].legs[i].level # level
         [] action = "close" -> p.quantity > 0
         [] action = "recoveryDca" ->
                LET leg == RecoveryLeg(p, RecoveryStart(p))
                IN WithinBudget(leg.quote, Basket(p).cost, PaperBot.riskBudget)
         [] action = "recoveryClose" -> Basket(p).quantity > 0
         [] OTHER -> FALSE

Reaches(price, leg) == leg # NoLeg /\ price <= leg.trigger

\* What a price makes of a position: the order of the checks is the code's.
TickAction(p, price) ==
    IF p.recovery
    THEN CASE RecoveryTarget(p) > 0 /\ price >= RecoveryTarget(p) -> "recoveryClose"
           [] Reaches(price, RecoveryLeg(p, RecoveryStart(p))) -> "recoveryDca"
           [] OTHER -> "hold"
    ELSE CASE p.tp # NoPrice /\ price >= p.tp -> "close"
           [] /\ RecoveryAnchor(p) # NoPrice
              /\ Reaches(price, NextLeg(PaperBot, 0, AtPrice(RecoveryAnchor(p)), RemainingBudget(p))) -> "recoveryDca"
           [] p.nextDca # NoPrice /\ price <= p.nextDca -> "dca"
           [] OTHER -> "hold"

Perform(a, action) ==
    \/ action = "recoveryClose" /\ ExecuteRecoveryClose(a)
    \/ action = "recoveryDca" /\ ExecuteRecoveryDca(a, RecoveryStart(paperWorker[a].view))
    \/ action = "close" /\ ExecuteClose(a)
    \/ action = "dca" /\ ExecuteDca(a)

\* The end of an operation; "hold" writes nothing, and neither does a failed check.
Act(a, action) ==
    /\ Finish(a)
    /\ IF Possible(a, action) THEN Perform(a, action) ELSE UNCHANGED <<paper, paperOrders>>

ProcessPrice(a) ==
    /\ paperWorker[a].pc = "act"
    /\ Act(a, TickAction(paperWorker[a].view, paperWorker[a].price))

-----------------------------------------------------------------------------
(* PaperStrategyRunnerService: list the bot with its position, then quote. *)

RunStrategy(a) ==
    /\ paperWorker[a].pc = "idle" /\ ~paperRunning
    /\ paperRunning' = TRUE
    /\ paperWorker' = [paperWorker EXCEPT ![a].pc = "listed",
                           ![a].n = IF OpenPositions = {} THEN 0
                                    ELSE CHOOSE n \in OpenPositions : \A m \in OpenPositions : m <= n]
    /\ UNCHANGED <<paper, paperOrders, paperRequests>>

Quote(a, price) ==
    LET n == paperWorker[a].n IN
    /\ paperWorker[a].pc = "listed"
    /\ UNCHANGED <<paper, paperOrders, paperRequests>>
    /\ \/ /\ n = 0 /\ OpenPositions = {} /\ Len(paper) < MaxPositions
          /\ paperWorker' = [paperWorker EXCEPT ![a].pc = "create", ![a].price = price]
          /\ UNCHANGED paperRunning
       \/ n \in OpenPositions /\ ReadForTick(a, n, price)
       \/ (IF n = 0 THEN OpenPositions # {} ELSE n \notin OpenPositions) /\ Finish(a)

RunnerStep(a) ==
    \/ RunStrategy(a)
    \/ \E price \in Prices : Quote(a, price)
    \/ CreatePosition(a)
    \/ CloseEligibleSubPositions(a)
    \/ ProcessPrice(a)

-----------------------------------------------------------------------------
(* PaperTradingController: the requests of the owner name their own price. *)

StartRequest(a) ==
    /\ paperWorker[a].pc = "idle"
    /\ paperRequests < MaxPaperOperations
    /\ paperRequests' = paperRequests + 1

RequestOpen(a, price) ==
    /\ StartRequest(a)
    /\ OpenPositions = {}
    /\ Len(paper) < MaxPositions
    /\ paperWorker' = [paperWorker EXCEPT ![a].pc = "create", ![a].price = price]
    /\ UNCHANGED <<paper, paperOrders, paperRunning>>

RequestTick(a, n, price) == StartRequest(a) /\ ReadForTick(a, n, price)

\* addDca and closePosition
RequestWrite(a, n, price, pc) ==
    /\ StartRequest(a)
    /\ n \in OpenPositions
    /\ pc = "dca" => ~(paper[n].nextDca > 0 /\ price > paper[n].nextDca)
    /\ paperWorker' = [paperWorker EXCEPT ![a] = [pc |-> pc, n |-> n, price |-> price, view |-> paper[n]]]
    /\ UNCHANGED <<paper, paperOrders, paperRunning>>

PerformRequest(a) == paperWorker[a].pc \in {"dca", "close"} /\ Act(a, paperWorker[a].pc)

\* updateTakeProfit: the target decides what recovery mode allows.
RequestTakeProfit(a, n, target, i, price) ==
    /\ StartRequest(a)
    /\ n \in OpenPositions
    /\ (target = "RECOVERY") = paper[n].recovery
    /\ target = "INDEPENDENT" => i \in OpenLegs(paper[n])
    /\ paperWorker' = [paperWorker EXCEPT ![a] =
           [pc |-> target, n |-> n, price |-> price, view |-> [leg |-> i]]]
    /\ UNCHANGED <<paper, paperOrders, paperRunning>>

WriteTakeProfit(a) ==
    LET w == paperWorker[a]
        set(p) == CASE w.pc = "PARENT"      -> [p EXCEPT !.tp = w.price, !.tpManual = TRUE]
                    [] w.pc = "RECOVERY"    -> [p EXCEPT !.recoveryTp = w.price, !.recoveryManual = TRUE]
                    [] w.pc = "INDEPENDENT" -> [p EXCEPT !.legs[w.view.leg].tp = w.price]
    IN /\ w.pc \in {"PARENT", "RECOVERY", "INDEPENDENT"}
       /\ paper' = [paper EXCEPT ![w.n] = set(@)]
       /\ UNCHANGED paperOrders
       /\ Finish(a)

OwnerStep(a) ==
    \/ \E price \in RequestPrices :
           \/ RequestOpen(a, price)
           \/ \E n \in DOMAIN paper :
                  \/ RequestTick(a, n, price)
                  \/ RequestWrite(a, n, price, "dca")
                  \/ RequestWrite(a, n, price, "close")
                  \/ RequestTakeProfit(a, n, "PARENT", 0, price)
                  \/ RequestTakeProfit(a, n, "RECOVERY", 0, price)
                  \/ \E i \in DOMAIN paper[n].legs : RequestTakeProfit(a, n, "INDEPENDENT", i, price)
    \/ CreatePosition(a)
    \/ CloseEligibleSubPositions(a)
    \/ ProcessPrice(a)
    \/ PerformRequest(a)
    \/ WriteTakeProfit(a)

\* The process restarts: what was read is gone, the rows stay.
PaperRestart ==
    /\ \E a \in PaperActors : paperWorker[a] # IdleWorker
    /\ paperWorker' = [a \in PaperActors |-> IdleWorker]
    /\ paperRunning' = FALSE
    /\ UNCHANGED <<paper, paperOrders, paperRequests>>

-----------------------------------------------------------------------------
PaperInit ==
    /\ paper = <<>> /\ paperOrders = <<>>
    /\ paperRunning = FALSE /\ paperRequests = 0
    /\ paperWorker = [a \in PaperActors |-> IdleWorker]

PaperNext ==
    \/ \E a \in PaperRunners : RunnerStep(a)
    \/ \E a \in PaperOwners : OwnerStep(a)
    \/ PaperRestart

PaperSpec == PaperInit /\ [][PaperNext]_paperVars

-----------------------------------------------------------------------------
(* Properties *)

\* What the positions say agrees with their orders, after every sequence of
\* ticks, requests and restarts in which no operation wrote from a row another
\* one had changed: the quantity held is bought minus sold, the profit is what
\* the sales brought above the cost of what was sold, and the basket, recovery
\* legs and reinvested proceeds included, never costs more than the budget.  An
\* independent level is bought once whatever operations overlap: the unique key
\* of the leg undoes the whole second purchase, its order row included.
PaperBooksBalance ==
    \A n \in DOMAIN paper :
        LET p == paper[n]
            o == paperOrders[n]
        IN /\ ~o.lost => /\ Basket(p).quantity = o.bought - o.sold
                         /\ p.pnl = o.received - o.spent + Basket(p).cost
                         /\ Basket(p).cost <= PaperBot.riskBudget
           /\ \A l \in DOMAIN o.legBuys : o.legBuys[l] <= 1
-----------------------------------------------------------------------------
(* Types *)

LegRows == [level : Nat, status : {"OPEN", "CLOSED"}, quantity : Nat, cost : Nat, entry : Int, tp : Int]
PositionRows ==
    [status : {"OPEN", "CLOSED"}, quantity : Nat, cost : Nat, pnl : Int, dcaCount : Nat, nextDca : Int,
     tp : Int, tpManual : BOOLEAN, recovery : BOOLEAN, recoveryCount : Nat, anchor : Int,
     recoveryTp : Int, recoveryManual : BOOLEAN, legs : Seq(LegRows)]
Levels == 2..(PaperBot.maxDcaOrders + 1)
OrderSums == [bought : Int, sold : Int, spent : Int, received : Int,
              legBuys : [Levels -> Nat], lost : BOOLEAN]

Holding == {"sellLegs", "act", "dca", "close"}
Targeting == {"PARENT", "RECOVERY", "INDEPENDENT"}
Views == PositionRows \cup {NoView} \cup [leg : Nat]
WorkerRows == [pc : Holding \cup Targeting \cup {"idle", "listed", "create"}, n : Nat, price : Nat, view : Views]

PaperTypeOK ==
    /\ paper \in Seq(PositionRows) /\ paperOrders \in Seq(OrderSums)
    /\ Len(paperOrders) = Len(paper)
    /\ paperWorker \in [PaperActors -> WorkerRows]
    /\ paperRunning \in BOOLEAN /\ paperRequests \in Nat
=============================================================================
