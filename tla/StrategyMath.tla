---------------------------- MODULE StrategyMath ----------------------------
(***************************************************************************)
(* The calculations every engine (paper, testnet, live, backtest) shares:   *)
(* how a risk budget is divided into the levels of a ladder, and the legs   *)
(* of a recovery.  Amounts are whole numbers of quote units; a price is a   *)
(* member of the grid Prices, so that "price reached" means the same on the *)
(* grid as with the exact trigger: a trigger is rounded to the grid in the  *)
(* direction in which it is compared.                                       *)
(***************************************************************************)
EXTENDS Naturals, Integers, Sequences, SequencesExt, FiniteSets, Functions

CONSTANT Prices       \* bound: the prices a market may show

ASSUME PricesAssumption == /\ Prices \subseteq Nat \ {0}
                           /\ \E p \in Prices : \A x \in Prices : x <= p

HighestPrice == CHOOSE p \in Prices : \A x \in Prices : x <= p

NoPrice == -1                         \* a trigger column that is null
Never == HighestPrice + 1             \* a trigger above every price

Smaller(x, y) == IF x <= y THEN x ELSE y
Positive(x) == IF x > 0 THEN x ELSE 0

\* The greatest price at or below cost / quantity * (1 - percent / 100), 0 below
\* them all.
PriceBelow(cost, quantity, percent) ==
    LET Below == {p \in Prices : 100 * p * quantity <= cost * (100 - percent)}
    IN IF Below = {} THEN 0 ELSE CHOOSE p \in Below : \A x \in Below : x <= p
PriceDown(price, percent) == PriceBelow(price, 1, percent)

\* The least price at or above cost / quantity * (1 + percent / 100).
PriceUp(cost, quantity, percent) ==
    LET Above == {p \in Prices : 100 * p * quantity >= cost * (100 + percent)}
    IN IF Above = {} THEN Never ELSE CHOOSE p \in Above : \A x \in Above : p <= x

-----------------------------------------------------------------------------
(* RiskBudgetService *)

MaxDcaLevels == 200

ValidPlanInput(s) ==
    /\ s.riskBudget > 0 /\ s.baseOrder > 0
    /\ s.maxDcaOrders \in 0..MaxDcaLevels
    /\ s.dcaStep > 0 /\ s.dcaMultiplier >= 1 /\ s.takeProfit > 0
    /\ \A i \in DOMAIN s.dcaMultipliers : s.dcaMultipliers[i] > 0
    /\ s.independentFrom \in 2..(s.maxDcaOrders + 2)

MultiplierForLevel(s, level) ==
    IF level <= 1 THEN 1
    ELSE IF level - 1 \in DOMAIN s.dcaMultipliers THEN s.dcaMultipliers[level - 1]
    ELSE s.dcaMultiplier ^ (level - 1)

\* The levels the budget reaches: the last one gets what is left of it.
BuildPlan(s) ==
    LET Raw(level) == s.baseOrder * MultiplierForLevel(s, level)
        Allocated(level) == SumFunctionOnSet([l \in 1..(level - 1) |-> Raw(l)], 1..(level - 1))
        levels == {l \in 1..(s.maxDcaOrders + 1) : Allocated(l) < s.riskBudget}
    IN [l \in levels |-> [quote |-> Smaller(Raw(l), s.riskBudget - Allocated(l)),
                          drop |-> s.dcaStep * (l - 1),
                          independent |-> l >= s.independentFrom]]

WithinBudget(planned, allocated, budget) == planned > 0 /\ allocated + planned <= budget

-----------------------------------------------------------------------------
(* RecoveryStrategyService *)

ValidRecovery(s) ==
    /\ s.recoveryMaxOrders \in 0..20
    /\ s.recoveryMaxOrders <= Len(s.recoverySteps)
    /\ s.recoveryMaxOrders <= Len(s.recoveryMultipliers)
    /\ \A i \in DOMAIN s.recoverySteps : /\ s.recoverySteps[i] > 0
                                         /\ i > 1 => s.recoverySteps[i] > s.recoverySteps[i - 1]
    /\ \A i \in DOMAIN s.recoveryMultipliers : s.recoveryMultipliers[i] > 0
    /\ s.recoveryTakeProfit > 0

ShouldActivate(s, campaignLevel) ==
    s.recoveryEnabled /\ s.recoveryMaxOrders > 0 /\ campaignLevel >= s.independentFrom

NoLeg == [trigger |-> NoPrice, quote |-> 0]

\* The anchor is a price, cost / quantity of what was bought there.
NextLeg(s, count, anchor, remaining) ==
    IF ~s.recoveryEnabled \/ count >= s.recoveryMaxOrders \/ remaining <= 0 THEN NoLeg
    ELSE [trigger |-> PriceBelow(anchor.cost, anchor.quantity, s.recoverySteps[count + 1]),
          quote |-> Smaller(s.baseOrder * s.recoveryMultipliers[count + 1], remaining)]

\* What the position and its OPEN independent legs hold together.
BasketTotals(parent, legs) ==
    LET Open == {i \in DOMAIN legs : legs[i].status = "OPEN"}
    IN [quantity |-> parent.quantity + SumFunctionOnSet([i \in DOMAIN legs |-> legs[i].quantity], Open),
        cost |-> parent.cost + SumFunctionOnSet([i \in DOMAIN legs |-> legs[i].cost], Open)]

GlobalTakeProfit(s, basket) ==
    IF basket.quantity <= 0 \/ basket.cost <= 0 THEN NoPrice
    ELSE PriceUp(basket.cost, basket.quantity, s.recoveryTakeProfit)
=============================================================================
