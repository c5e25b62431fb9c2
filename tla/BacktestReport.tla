--------------------------- MODULE BacktestReport ---------------------------
(***************************************************************************)
(* What a finished backtest says of itself: BacktestRunService.analytics     *)
(* reads the trades and the equity points of a run, and the simulators       *)
(* measure drawdown over the same points.  Candles are one unit of time      *)
(* apart; drawdown is in whole percent.                                      *)
(***************************************************************************)
EXTENDS Integers, Sequences, SequencesExt, FiniteSetsExt

CONSTANTS
    Capital,     \* initialCapital
    Equities,    \* values the account can have at the end of a candle
    MaxPoints    \* bound: equity points of one run

ASSUME ReportAssumption ==
    /\ Capital \in Nat \ {0} /\ Equities \subseteq Nat \ {0} /\ MaxPoints \in Nat

VARIABLES
    points,   \* the equity points, in the order of time
    scan      \* the local variables of the loops over them

reportVars == <<points, scan>>

-----------------------------------------------------------------------------
(* Capital deployed, from the trades alone *)

NothingDeployed == [parent |-> 0, legs |-> [l \in {} |-> 0], most |-> 0]

Put(f, x, v) == [y \in DOMAIN f \cup {x} |-> IF y = x THEN v ELSE f[y]]

DeployedQuote(d) == d.parent + SumFunctionOnSet(d.legs, DOMAIN d.legs)
Highest(d) == [d EXCEPT !.most = IF DeployedQuote(d) > @ THEN DeployedQuote(d) ELSE @]

\* A purchase [type, level, quote]; a leg is known by its level.  The trades come as the
\* simulation made them; the query orders them by executedAt alone, which leaves open
\* what comes first of one candle.
DeployedAfter(d, trade) ==
    Highest(IF trade.type = "INDEPENDENT_ENTRY"
            THEN [d EXCEPT !.legs = Put(@, trade.level, trade.quote)]
            ELSE [d EXCEPT !.parent = @ + trade.quote])

\* The sales of one moment: that of the parent, if it is sold, and those of the legs
\* at the levels.  From one to the next the sum only falls.
DeployedAfterExits(d, parentSold, levels) ==
    Highest([d EXCEPT !.parent = IF parentSold THEN 0 ELSE @,
                      !.legs = Restrict(@, DOMAIN @ \ levels)])

-----------------------------------------------------------------------------
(* Drawdown and time under water, from the equity points *)

NotUnderWater == -1

StartScan == [peak |-> Capital, drawdown |-> 0, since |-> NotUnderWater,
              longest |-> 0, recovered |-> 0, recoveries |-> 0]

Drawdown(peak, equity) == ((peak - equity) * 100) \div peak
Larger(x, y) == IF x > y THEN x ELSE y

Regains(equity) == equity >= scan.peak

\* The time between two points, in candles.
AfterPoint(equity, now) ==
    LET duration == now - scan.since
        above == [scan EXCEPT !.peak = equity, !.since = NotUnderWater]
        below == [scan EXCEPT !.drawdown = Larger(@, Drawdown(scan.peak, equity))]
    IN CASE Regains(equity) /\ scan.since # NotUnderWater ->
              [above EXCEPT !.longest = Larger(@, duration), !.recovered = @ + duration,
                            !.recoveries = @ + 1]
         [] Regains(equity) /\ scan.since = NotUnderWater -> above
         [] ~Regains(equity) /\ scan.since = NotUnderWater -> [below EXCEPT !.since = now]
         [] OTHER -> below

NextPoint(equity) ==
    /\ Len(points) < MaxPoints
    /\ points' = Append(points, equity)
    /\ scan' = AfterPoint(equity, Len(points) + 1)

\* A run that ends under water has been so up to its last point.
LongestUnderwater ==
    IF scan.since = NotUnderWater THEN scan.longest
    ELSE Larger(scan.longest, Len(points) - scan.since)

ReportInit == points = <<>> /\ scan = StartScan
ReportNext == \E equity \in Equities : NextPoint(equity)
ReportSpec == ReportInit /\ [][ReportNext]_reportVars

-----------------------------------------------------------------------------
(* Properties *)

\* The best the account had been up to point i, the capital included.
BestUntil(i) == Max({Capital} \cup {points[j] : j \in 1..i})
UnderWater(i) == points[i] < BestUntil(i)

\* Candles from i up to the end of the time under water that i is part of.
SpellFrom(i) ==
    LET ends == {j \in i + 1 .. Len(points) : ~UnderWater(j)}
    IN (IF ends = {} THEN Len(points) ELSE Min(ends)) - i

\* Recoveries: a point under water that is followed by one that is not.
RecoveredAt == {i \in 2..Len(points) : UnderWater(i - 1) /\ ~UnderWater(i)}

\* The report of one pass over the points says what the points say: the drawdown
\* is the largest loss from any earlier value to any later one, the longest time
\* under water is that of the points themselves, whether it ended or not, and the
\* recoveries and their candles are all those under water that came back.
ReportMatchesPoints ==
    /\ scan.drawdown = Max({0} \cup {Drawdown(BestUntil(i), points[i]) : i \in 1..Len(points)})
    /\ \A i, j \in 1..Len(points) : i < j /\ points[j] < points[i] =>
           Drawdown(points[i], points[j]) <= scan.drawdown
    /\ LongestUnderwater = Max({0} \cup {SpellFrom(i) : i \in {j \in 1..Len(points) : UnderWater(j)}})
    /\ scan.recoveries = Cardinality(RecoveredAt)
    /\ scan.recovered =
           Cardinality({i \in 1..Len(points) : UnderWater(i) /\ \E j \in RecoveredAt : i < j})
-----------------------------------------------------------------------------
(* Types *)

ScanRows == [peak : Nat, drawdown : Nat, since : Int, longest : Nat, recovered : Nat, recoveries : Nat]

ReportTypeOK == points \in Seq(Equities) /\ scan \in ScanRows
=============================================================================
