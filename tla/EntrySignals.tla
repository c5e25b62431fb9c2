---------------------------- MODULE EntrySignals ----------------------------
(***************************************************************************)
(* The dip-and-confirmation rule, evaluated by the live runners on candles  *)
(* that all bots of a market share for some seconds, and by a backtest on   *)
(* its own.  The RSI condition is left out (rsiMax null).                   *)
(***************************************************************************)
EXTENDS Integers, Sequences, FiniteSetsExt

CONSTANTS
    CandleShapes,      \* bound: the candles a market may show
    SignalConfigs,     \* bound: rules of the bots; all bots of a behaviour have one
    SignalBots,        \* bots that check the rule
    MaxHistory         \* bound: closed candles

\* Prices are positive numbers, and a rule has been validated (strategy.service.ts:329-334).
ASSUME SignalsAssumption ==
    /\ CandleShapes \subseteq [open : Nat, high : Nat \ {0}, low : Nat, close : Nat]
    /\ \A c \in SignalConfigs : /\ {c.confirmCandles, c.lookback} \subseteq Nat \ {0}
                                /\ c.dip \in 0..50

VARIABLES
    config,       \* the rule
    past,         \* every candle that has closed, oldest first
    candleCache,  \* the candles kept, and how many have closed since
    inFlight,     \* the request the bots wait for
    waiting,      \* the bots that wait for it, and whether they look for a dip
    decisions     \* what was decided in the last step

signalVars == <<config, past, candleCache, inFlight, waiting, decisions>>

NoCandles == [closed |-> <<>>, known |-> 0, missed |-> 2, torn |-> FALSE]
NoFetch == [pc |-> "none"]

-----------------------------------------------------------------------------
(* entry-signal.ts *)

ConfirmationCount(c) == IF c.rule = "CONSECUTIVE_GREEN" THEN c.confirmCandles ELSE 1

RequiredCandles(c) == c.lookback + ConfirmationCount(c) + 1

LatestOf(candles, n) == SubSeq(candles, IF Len(candles) > n THEN Len(candles) - n + 1 ELSE 1, Len(candles))

Green(candle) == candle.close > candle.open

ConfirmationMet(closed, c) ==
    LET n == Len(closed) IN
    /\ n >= ConfirmationCount(c) + 1
    /\ \A i \in (n - ConfirmationCount(c) + 1)..n : Green(closed[i])
    /\ c.rule = "CLOSE_ABOVE_PREV_HIGH" => closed[n].close > closed[n - 1].high

\* The lowest point is the candle before the confirmation or a part of it.
DipMet(closed, c) ==
    LET start == Len(closed) - ConfirmationCount(c)
        recentHigh == Max({closed[i].high : i \in (start - c.lookback + 1)..start})
        bounceLow == Min({closed[i].low : i \in start..Len(closed)})
    IN (recentHigh - bounceLow) * 100 >= c.dip * recentHigh

EvaluateEntrySignal(closed, c, requireDip) ==
    /\ Len(closed) >= IF requireDip THEN RequiredCandles(c) ELSE ConfirmationCount(c) + 1
    /\ requireDip => DipMet(closed, c)
    /\ ConfirmationMet(closed, c)

\* signalAt of a backtest, where the candle of each step has just closed.
SignalAt(index, requireDip) ==
    EvaluateEntrySignal(LatestOf(SubSeq(past, 1, index), RequiredCandles(config) + 2), config, requireDip)

-----------------------------------------------------------------------------
(* EntrySignalService *)

\* Mutant: the candle that is dropped later is not asked for.
NeededWithoutMargin == RequiredCandles(config) - 2

Needed == RequiredCandles(config) + 2

\* torn: the answer was read while the last candle was open, and used after it closed.
Decision(requireDip, kept) ==
    [ok |-> EvaluateEntrySignal(kept.closed, config, requireDip), dip |-> requireDip,
     known |-> kept.known, torn |-> kept.torn]

NotWaiting(b) == \A dip \in BOOLEAN : <<b, dip>> \notin waiting

\* The kept candles are used; a candle lasts longer than they are kept.
CheckCached(b, requireDip) ==
    /\ NotWaiting(b) /\ candleCache.missed <= 1
    /\ decisions' = {Decision(requireDip, candleCache)}
    /\ UNCHANGED <<config, past, candleCache, inFlight, waiting>>

\* One request serves every bot that asks before its answer.
CheckFetches(b, requireDip) ==
    /\ NotWaiting(b) /\ candleCache.missed > 1
    /\ waiting' = waiting \cup {<<b, requireDip>>}
    /\ inFlight' = IF inFlight = NoFetch THEN [pc |-> "asked"] ELSE inFlight
    /\ decisions' = {}
    /\ UNCHANGED <<config, past, candleCache>>

\* Binance answers with the candle that is still open, whatever it shows by now.
CandlesRead ==
    /\ inFlight.pc = "asked"
    /\ \E open \in CandleShapes :
           inFlight' = [pc |-> "read", known |-> Len(past),
                        raw |-> LatestOf(Append(past, open), Needed + 1)]
    /\ decisions' = {}
    /\ UNCHANGED <<config, past, candleCache, waiting>>

\* Only candles whose close time has passed are kept.
CandlesArrive ==
    LET torn == Len(past) > inFlight.known
        raw == inFlight.raw
    IN /\ inFlight.pc = "read"
       /\ candleCache' = [closed |-> IF torn THEN raw ELSE SubSeq(raw, 1, Len(raw) - 1),
                          known |-> inFlight.known + (IF torn THEN 1 ELSE 0),
                          missed |-> 0, torn |-> torn]
       /\ decisions' = {Decision(w[2], candleCache') : w \in waiting}
       /\ inFlight' = NoFetch /\ waiting' = {}
       /\ UNCHANGED <<config, past>>

CandlesFail ==
    /\ inFlight # NoFetch
    /\ inFlight' = NoFetch /\ waiting' = {} /\ decisions' = {}
    /\ UNCHANGED <<config, past, candleCache>>

CacheExpires ==
    /\ candleCache.missed <= 1
    /\ candleCache' = NoCandles /\ decisions' = {}
    /\ UNCHANGED <<config, past, inFlight, waiting>>

\* The next candle; an answer takes less than a candle.
CandleCloses ==
    /\ Len(past) < MaxHistory
    /\ inFlight.pc = "read" => Len(past) = inFlight.known
    /\ \E candle \in CandleShapes : past' = Append(past, candle)
    /\ candleCache' = IF candleCache.missed = 0 THEN [candleCache EXCEPT !.missed = 1] ELSE NoCandles
    /\ decisions' = {}
    /\ UNCHANGED <<config, inFlight, waiting>>

-----------------------------------------------------------------------------
SignalsInit ==
    /\ config \in SignalConfigs
    /\ past = <<>> /\ candleCache = NoCandles /\ inFlight = NoFetch
    /\ waiting = {} /\ decisions = {}

SignalsNext ==
    \/ \E b \in SignalBots, requireDip \in BOOLEAN :
           CheckCached(b, requireDip) \/ CheckFetches(b, requireDip)
    \/ CandlesRead \/ CandlesArrive \/ CandlesFail \/ CacheExpires \/ CandleCloses

SignalsSpec == SignalsInit /\ [][SignalsNext]_signalVars

-----------------------------------------------------------------------------
\* The rule in words: greens at the end, and from some candle of the look-back to
\* some candle at or after the one before them the price fell by the dip.
DipAndBounce(n, requireDip) ==
    LET start == n - ConfirmationCount(config) IN
    /\ start >= 1
    /\ \A i \in (start + 1)..n : Green(past[i])
    /\ config.rule = "CLOSE_ABOVE_PREV_HIGH" => past[n].close > past[n - 1].high
    /\ requireDip => /\ n >= RequiredCandles(config)
                     /\ \E i \in (start - config.lookback + 1)..start, j \in start..n :
                            (past[i].high - past[j].low) * 100 >= config.dip * past[i].high

\* A live bot decides what a backtest decides at the last candle the bot knew of,
\* which is what the rule says of the whole history, although each of the three
\* sees another part of it; and it knew of every candle but the newest.  An answer
\* that was read before a candle closed and used after it is left out: then the
\* bot takes the unfinished candle for the closed one.
LiveMatchesBacktest ==
    \A d \in decisions : ~d.torn =>
        /\ d.ok <=> SignalAt(d.known, d.dip)
        /\ d.ok <=> DipAndBounce(d.known, d.dip)
        /\ Len(past) - d.known <= 1
-----------------------------------------------------------------------------
(* Types *)

CacheRows == [closed : Seq(CandleShapes), known : Nat, missed : 0..2, torn : BOOLEAN]

SignalsTypeOK ==
    /\ config \in SignalConfigs /\ past \in Seq(CandleShapes)
    /\ candleCache \in CacheRows
    /\ waiting \subseteq SignalBots \X BOOLEAN
=============================================================================
