----------------------------- MODULE MCPlatform -----------------------------
(***************************************************************************)
(* The parts of Platform on one instance each.                              *)
(***************************************************************************)
EXTENDS Platform

CONSTANTS p1, p2, s1, s2, k1, k2

\* Packages of two and of three entries.
MCPackageAmount == (p1 :> 2) @@ (p2 :> 3)

\* The row of a strategy: two levels of the parent, one leg, two recovery legs.
MCPaperBot ==
    [riskBudget |-> 40, baseOrder |-> 8, maxDcaOrders |-> 2, dcaStep |-> 50,
     dcaMultiplier |-> 1, dcaMultipliers |-> <<1, 1>>, takeProfit |-> 50,
     independentFrom |-> 3, subTrigger |-> 50, subTakeProfit |-> 50,
     recoveryEnabled |-> TRUE, recoveryMaxOrders |-> 2, recoverySteps |-> <<50, 75>>,
     recoveryMultipliers |-> <<1, 1>>, recoveryTakeProfit |-> 50,
     dipEntry |-> FALSE, dcaConfirmation |-> FALSE, stopLoss |-> 0]
\* In the simulations one bot has two legs, and a budget that its last recovery leg
\* does not fit in.
MCSimulatedBots ==
    {[MCPaperBot EXCEPT !.riskBudget = 36, !.independentFrom = 2],
     [MCPaperBot EXCEPT !.stopLoss = 60],
     [MCPaperBot EXCEPT !.dipEntry = TRUE, !.dcaConfirmation = TRUE]}

\* A fall and a bounce, which closes above the high of a fall; a rule for each way
\* to confirm.
MCCandles == {[open |-> 9, high |-> 9, low |-> 8, close |-> 8],
              [open |-> 8, high |-> 10, low |-> 8, close |-> 10]}
MCSignals == {[rule |-> "CLOSE_ABOVE_PREV_HIGH", confirmCandles |-> 1, lookback |-> 1, dip |-> 15],
              [rule |-> "CONSECUTIVE_GREEN", confirmCandles |-> 2, lookback |-> 1, dip |-> 15]}

\* Shares of two templates that divide an amount in half, or of one alone.
MCSplits == {(s1 :> 50) @@ (s2 :> 50), s1 :> 100}

\* A key that may withdraw, too, and belongs to another account.
MCRights == (k1 :> {"spot"}) @@ (k2 :> {"spot", "withdraw"})
MCAccount == (k1 :> "x") @@ (k2 :> "y")

\* Settings a user may give a new bot, and the partial updates he may send: each is
\* valid on some rows and not on others.
MCNewSettings ==
    {[MCPaperBot EXCEPT !.maxDcaOrders = 3, !.dcaStep = 3, !.takeProfit = 1, !.subTrigger = 2,
                        !.subTakeProfit = 1, !.recoverySteps = <<5, 8>>, !.recoveryTakeProfit = 1]
     @@ [timeframe |-> 5, lookback |-> 1440]}
MCEdits ==
    {"maxDcaOrders" :> 1, "independentFrom" :> 5, "independentFrom" :> 2, "timeframe" :> 1,
     "lookback" :> 4000, "recoveryMaxOrders" :> 1, "recoverySteps" :> <<8>>}

\* A part that is not played starts in one way only.
MCPlatformInit ==
    /\ PlatformInit
    /\ part # "simulation" => sim.bot.riskBudget = 36
    /\ part # "candles" => listed = CandleRange /\ stored = {}
    /\ part # "catalogue" => library = [t \in Library |-> NoTemplate]
    /\ part # "fills" => onExchange.side = "BUY"
    /\ part # "signals" => config.rule = "CONSECUTIVE_GREEN"

MCPlatformSpec == MCPlatformInit /\ [][PlatformNext]_platformVars /\ PlatformFairness
=============================================================================
