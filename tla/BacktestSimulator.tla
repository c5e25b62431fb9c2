------------------------- MODULE BacktestSimulator -------------------------
(***************************************************************************)
(* BacktestDcaSimulatorService: a strategy runs over a list of candles with *)
(* a purse of its own.  One candle is entries, recovery legs, the stop      *)
(* loss, the exits and the end of a cycle, in this order; each purchase is  *)
(* a step, so that the loops of the code are visible.                       *)
(***************************************************************************)
EXTENDS StrategyMath, BacktestReport

CONSTANTS
    SimulatedBots,    \* rows of strategies, with the settings of the simulator
    FeePercent,       \* of every purchase and of every sale
    Candles           \* bound: candles of one simulation

ASSUME SimulatorAssumption ==
    /\ \A s \in SimulatedBots : ValidPlanInput(s) /\ ValidRecovery(s)
    \* Amounts are whole numbers of quote units.
    /\ \A s \in SimulatedBots : s.riskBudget \in Nat /\ s.baseOrder \in Nat
                               /\ s.recoveryMultipliers \in Seq(Nat)
    /\ \A s \in SimulatedBots : \A l \in 1..(s.maxDcaOrders + 1) :
           s.baseOrder * MultiplierForLevel(s, l) \in Nat
    /\ FeePercent \in 0..99 /\ Candles \in Nat

VARIABLES
    sim,     \* the local variables of simulate()
    trades   \* sums over the trades pushed so far, and what the report makes of them

simVars == <<sim, trades>>

NoAnchor == [cost |-> 0, quantity |-> 0]
Nothing == [quantity |-> 0, cost |-> 0]
\* independentPositions, which has one lot of each level at most.
NoLots == [l \in {} |-> Nothing]

Bot == sim.bot
Signal(kind) == sim.signals[kind]

\* currentExposure, and the quantity that goes with it.
SimBasket ==
    LET levels == DOMAIN sim.legs
    IN [quantity |-> sim.parent.quantity
                     + SumFunctionOnSet([l \in levels |-> sim.legs[l].quantity], levels),
        cost |-> sim.parent.cost + SumFunctionOnSet([l \in levels |-> sim.legs[l].cost], levels)]
\* A mutant: the independent legs do not count.
RiskOfParent == Positive(Bot.riskBudget - sim.parent.cost)
RiskRemaining == Positive(Bot.riskBudget - SimBasket.cost)

Fee(quote) == (quote * FeePercent) \div 100
Quantity(spend) == (spend - Fee(spend)) \div sim.price

\* A purchase is made only if it spends something and buys something.
Buys(spend) == spend > 0 /\ Quantity(spend) > 0
Spent(type, level, spend) ==
    trades' = [trades EXCEPT !.entries = @ + 1, !.spent = @ + spend,
                             !.deployed = DeployedAfter(@, [type |-> type, level |-> level,
                                                            quote |-> spend])]

\* What a lot [quantity, cost] brings, after fees.
Net(lot) == LET gross == lot.quantity * sim.price IN gross - Fee(gross)

\* A sale of the parent, or not, and of the legs at some levels.
Proceeds(parentSold, levels) ==
    (IF parentSold THEN Net(sim.parent) ELSE 0)
    + SumFunctionOnSet([l \in levels |-> Net(sim.legs[l])], levels)
CostSold(parentSold, levels) ==
    (IF parentSold THEN sim.parent.cost ELSE 0)
    + SumFunctionOnSet([l \in levels |-> sim.legs[l].cost], levels)
SoldLots(parentSold, levels) ==
    trades' = [trades EXCEPT
                  !.exits = @ + Cardinality(levels) + (IF parentSold THEN 1 ELSE 0),
                  !.received = @ + Proceeds(parentSold, levels),
                  !.realized = @ + Proceeds(parentSold, levels) - CostSold(parentSold, levels),
                  !.deployed = DeployedAfterExits(@, parentSold, levels)]

-----------------------------------------------------------------------------
(* The steps of one candle *)

\* The next closed candle; after a finished cycle the counters start again.
NextCandle(price, signals) ==
    LET fresh == [sim EXCEPT !.entries = 0, !.recovery = FALSE, !.recoveryCount = 0,
                             !.anchor = NoAnchor, !.cycleEntry = price, !.lastEntry = price,
                             !.awaiting = FALSE]
        first == [sim EXCEPT !.cycleEntry = price, !.lastEntry = price]
        start == CASE sim.candle = 0 -> first [] sim.awaiting -> fresh [] OTHER -> sim
    IN /\ sim.phase = "candle" /\ sim.candle < Candles
       /\ sim' = [start EXCEPT !.phase = "entries", !.candle = @ + 1, !.price = price,
                               !.signals = signals]
       /\ UNCHANGED trades

EntryTrigger ==
    LET percent == IF sim.entries + 1 >= Bot.independentFrom THEN Bot.subTrigger ELSE Bot.dcaStep
    IN IF sim.entries = 0 THEN sim.cycleEntry ELSE PriceDown(sim.lastEntry, percent)

\* With dip entries the cycle starts at the price at which the rule fired.
EntryAllowed ==
    IF sim.entries = 0 THEN Bot.dipEntry => Signal("dip")
    ELSE Bot.dcaConfirmation => Signal("bounce")
EntryReached == IF sim.entries = 0 /\ Bot.dipEntry THEN TRUE ELSE sim.price <= EntryTrigger

EntrySpend ==
    LET allocation == Bot.baseOrder * MultiplierForLevel(Bot, sim.entries + 1)
    IN Smaller(allocation, Smaller(sim.balance, RiskRemaining))

CanEnter ==
    /\ ~sim.recovery
    /\ sim.entries < Bot.maxDcaOrders + 1
    /\ EntryReached /\ EntryAllowed
    /\ Buys(EntrySpend)

BuyEntry ==
    LET level == sim.entries + 1
        lot == [quantity |-> Quantity(EntrySpend), cost |-> EntrySpend]
        independent == level >= Bot.independentFrom
        base == [sim EXCEPT !.balance = @ - EntrySpend, !.entries = @ + 1, !.lastEntry = sim.price,
                            !.cycleEntry = IF sim.entries = 0 /\ Bot.dipEntry THEN sim.price ELSE @]
    IN /\ sim.phase = "entries" /\ CanEnter
       /\ sim' = IF independent
                 THEN [base EXCEPT !.legs = Put(@, level, lot)]
                 ELSE [base EXCEPT !.parent = [quantity |-> @.quantity + lot.quantity,
                                               cost |-> @.cost + lot.cost]]
       /\ Spent(IF independent THEN "INDEPENDENT_ENTRY" ELSE "PARENT_ENTRY", level, EntrySpend)

\* The price of the first independent entry anchors the recovery.
EndEntries ==
    /\ sim.phase = "entries" /\ ~CanEnter
    /\ sim' = [sim EXCEPT !.phase = "recovery",
                  !.anchor = IF /\ ~sim.recovery /\ Bot.recoveryEnabled
                                /\ Bot.independentFrom \in DOMAIN sim.legs
                             THEN sim.legs[Bot.independentFrom] ELSE @]
    /\ UNCHANGED trades

SimulatedLeg ==
    IF sim.anchor = NoAnchor THEN NoLeg
    ELSE NextLeg(Bot, sim.recoveryCount, sim.anchor, Smaller(RiskRemaining, sim.balance))

CanRecover ==
    /\ SimulatedLeg # NoLeg /\ sim.price <= SimulatedLeg.trigger
    /\ Bot.dcaConfirmation => Signal("bounce")
    /\ Buys(SimulatedLeg.quote)

BuyRecovery ==
    LET spend == SimulatedLeg.quote
    IN /\ sim.phase = "recovery" /\ CanRecover
       /\ sim' = [sim EXCEPT !.balance = @ - spend, !.recovery = TRUE, !.recoveryCount = @ + 1,
                             !.parent = [quantity |-> @.quantity + Quantity(spend), cost |-> @.cost + spend]]
       /\ Spent("RECOVERY_ENTRY", Bot.maxDcaOrders + 2 + sim.recoveryCount, spend)

EndRecovery ==
    /\ sim.phase = "recovery" /\ ~CanRecover
    /\ sim' = [sim EXCEPT !.phase = "stop"]
    /\ UNCHANGED trades

\* Everything is sold, and the recovery starts from nothing again.
SellBasket(phase) ==
    LET parentSold == sim.parent.quantity > 0
        levels == DOMAIN sim.legs
    IN /\ SoldLots(parentSold, levels)
       /\ sim' = [sim EXCEPT !.balance = @ + Proceeds(parentSold, levels), !.legs = NoLots,
                             !.parent = IF parentSold THEN Nothing ELSE @,
                             !.recovery = FALSE, !.recoveryCount = 0, !.anchor = NoAnchor,
                             !.phase = phase, !.stops = IF phase = "end" THEN @ + 1 ELSE @]

Stopped == /\ Bot.stopLoss > 0 /\ SimBasket.quantity > 0
           /\ 100 * sim.price * SimBasket.quantity <= SimBasket.cost * (100 - Bot.stopLoss)

StopLoss ==
    /\ sim.phase = "stop"
    /\ \/ Stopped /\ SellBasket("end")
       \/ ~Stopped /\ sim' = [sim EXCEPT !.phase = "exits"] /\ UNCHANGED trades

Hit(lot, percent) == 100 * sim.price * lot.quantity >= lot.cost * (100 + percent)

GlobalTargetHit == SimBasket.quantity > 0 /\ Hit(SimBasket, Bot.recoveryTakeProfit)

\* The parent as a whole and every leg that reached its own target.
SellReached ==
    LET parentHit == sim.parent.quantity > 0 /\ Hit(sim.parent, Bot.takeProfit)
        levels == {l \in DOMAIN sim.legs : Hit(sim.legs[l], Bot.subTakeProfit)}
    IN /\ SoldLots(parentHit, levels)
       /\ sim' = [sim EXCEPT !.balance = @ + Proceeds(parentHit, levels),
                             !.parent = IF parentHit THEN Nothing ELSE @,
                             !.legs = Restrict(@, DOMAIN @ \ levels), !.phase = "end"]

Exits ==
    /\ sim.phase = "exits"
    /\ \/ sim.recovery /\ GlobalTargetHit /\ SellBasket("exited")
       \/ sim.recovery /\ ~GlobalTargetHit /\ sim' = [sim EXCEPT !.phase = "end"] /\ UNCHANGED trades
       \/ ~sim.recovery /\ SellReached

\* A cycle that bought and holds nothing any more is over (continuousCycles).
EndCandle ==
    LET over == sim.entries > 0 /\ sim.parent.quantity = 0 /\ DOMAIN sim.legs = {}
    IN /\ sim.phase \in {"end", "exited"}
       /\ sim' = [sim EXCEPT !.phase = "candle",
                             !.cycles = IF over /\ ~sim.awaiting THEN @ + 1 ELSE @,
                             !.awaiting = @ \/ over]
       /\ UNCHANGED trades

-----------------------------------------------------------------------------
SimulatorInit ==
    /\ sim \in [bot : SimulatedBots, phase : {"candle"}, candle : {0}, price : {0},
                signals : {[dip |-> FALSE, bounce |-> FALSE]},
                balance : {Capital}, parent : {Nothing}, legs : {NoLots}, entries : {0},
                cycleEntry : {0}, lastEntry : {0}, recovery : {FALSE}, recoveryCount : {0},
                anchor : {NoAnchor}, awaiting : {FALSE}, cycles : {0}, stops : {0}]
    /\ trades = [entries |-> 0, exits |-> 0, spent |-> 0, received |-> 0, realized |-> 0,
               deployed |-> NothingDeployed]

\* A dip entry needs the bounce too; without rules no candle is examined.
Signals == {s \in [dip : BOOLEAN, bounce : BOOLEAN] : s.dip => s.bounce}

SimulatorNext ==
    \/ \E price \in Prices, signals \in Signals :
           /\ ~(Bot.dipEntry \/ Bot.dcaConfirmation) => signals = [dip |-> FALSE, bounce |-> FALSE]
           /\ NextCandle(price, signals)
    \/ BuyEntry \/ EndEntries \/ BuyRecovery \/ EndRecovery \/ StopLoss \/ Exits \/ EndCandle

SimulatorSpec == SimulatorInit /\ [][SimulatorNext]_simVars

-----------------------------------------------------------------------------
(* Properties *)

\* The result the simulation reports is explained by its trades, whatever mix of
\* entries, recovery legs, stops and partial exits a cycle had: money in the purse
\* and money in the basket are the capital plus the profit of the sales, nothing
\* is spent that is not there, and the basket stays within the risk budget.  The
\* report, which sees the trades only, finds as much capital deployed as there is
\* in the basket, over any number of cycles that use the same levels again, and
\* never more than the risk budget.  A recovery is always that of a basket: it
\* ends with the cycle that started it, by whichever exit, and the next cycle
\* starts without its anchor.
SimulationBooksBalance ==
    /\ sim.balance + SimBasket.cost = Capital + trades.realized
    /\ sim.balance = Capital - trades.spent + trades.received
    /\ DeployedQuote(trades.deployed) = SimBasket.cost
    /\ trades.deployed.most <= Bot.riskBudget
    /\ sim.balance >= 0
    /\ SimBasket.cost <= Bot.riskBudget
    /\ sim.recovery => SimBasket.quantity > 0
    /\ sim.entries = 0 => ~sim.recovery /\ sim.anchor = NoAnchor
-----------------------------------------------------------------------------
(* Types *)

Lots == [quantity : Nat, cost : Nat]
Phases == {"candle", "entries", "recovery", "stop", "exits", "end", "exited"}

\* Lots by level, and the running totals.
SimTypeOK ==
    /\ sim.bot \in SimulatedBots /\ sim.phase \in Phases
    /\ {sim.candle, sim.price, sim.balance, sim.entries, sim.recoveryCount, sim.cycles, sim.stops} \subseteq Nat
    /\ {sim.parent, sim.anchor} \subseteq Lots
    /\ \A l \in DOMAIN sim.legs : l \in 1..sim.entries /\ sim.legs[l] \in Lots
    /\ sim.recovery \in BOOLEAN /\ sim.awaiting \in BOOLEAN
    /\ trades.entries \in Nat /\ trades.exits \in Nat
=============================================================================
