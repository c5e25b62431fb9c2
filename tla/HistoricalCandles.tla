------------------------- MODULE HistoricalCandles -------------------------
(***************************************************************************)
(* The candles a backtest simulates on: read from the table page by page,   *)
(* imported from Binance page by page when they are missing, and read       *)
(* again.  Two runs may load and import the same range at the same time.    *)
(* A candle is the number of its open time; its close time is just before   *)
(* the next number.                                                         *)
(***************************************************************************)
EXTENDS Naturals, Integers, Sequences, SequencesExt, FiniteSets

CONSTANTS
    RunLoaders,     \* backtest runs: import only when the table has nothing
    AdminLoaders,   \* backtests of an administrator: import when too little
    RangeEnd,       \* the range is 1..RangeEnd
    Gaps,           \* bound: the sets of candles Binance may lack
    ReadPage,       \* BACKTEST_CANDLE_PAGE_SIZE, PAGE_SIZE
    ImportPage      \* BINANCE_IMPORT_PAGE_SIZE

ASSUME CandlesAssumption ==
    /\ RangeEnd \in Nat /\ ReadPage \in Nat \ {0} /\ ImportPage \in Nat \ {0}
    /\ \A g \in Gaps : g \subseteq 1..RangeEnd

VARIABLES
    listed,   \* the candles Binance has
    stored,   \* the rows of HistoricalCandle
    loader    \* the local variables of each load

candleVars == <<listed, stored, loader>>

Loaders == RunLoaders \cup AdminLoaders
CandleRange == 1..RangeEnd

IdleLoader == [pc |-> "idle", cursor |-> 1, got |-> <<>>, imported |-> FALSE, before |-> {}]

\* The candles of S, oldest first: orderBy openTime.
ByOpenTime(S) ==
    CHOOSE s \in [1..Cardinality(S) -> S] :
        /\ ToSet(s) = S
        /\ \A i, j \in DOMAIN s : i < j => s[i] < s[j]

\* The first candles of S at or after cursor, oldest first: findMany and getKlines.
Page(S, cursor, limit) ==
    LET rest == ByOpenTime({c \in S : c >= cursor})
    IN SubSeq(rest, 1, IF Len(rest) < limit THEN Len(rest) ELSE limit)

\* run finds nothing; the administrator's backtest wants 98 of 100 candles.
NeedsImport(l) ==
    /\ ~loader[l].imported
    /\ IF l \in RunLoaders THEN loader[l].got = <<>>
                           ELSE 100 * Len(loader[l].got) < 98 * RangeEnd

-----------------------------------------------------------------------------
StartLoad(l) ==
    /\ loader[l].pc = "idle"
    /\ loader' = [loader EXCEPT ![l] = [IdleLoader EXCEPT !.pc = "read", !.before = stored]]
    /\ UNCHANGED <<listed, stored>>

\* A full page may have successors: the next one starts after its last candle.
ReadCandles(l) ==
    LET page == Page(stored, loader[l].cursor, ReadPage)
        more == Len(page) = ReadPage /\ Last(page) + 1 <= RangeEnd
    IN /\ loader[l].pc = "read"
       /\ loader' = [loader EXCEPT ![l].got = @ \o page,
                                   ![l].cursor = IF more THEN Last(page) + 1 ELSE @,
                                   ![l].pc = IF more THEN "read" ELSE "loaded"]
       /\ UNCHANGED <<listed, stored>>

StartImport(l) ==
    /\ loader[l].pc = "loaded" /\ NeedsImport(l)
    /\ loader' = [loader EXCEPT ![l].pc = "import", ![l].cursor = 1]
    /\ UNCHANGED <<listed, stored>>

\* One page of klines, upserted in one transaction.
ImportCandles(l) ==
    LET page == Page(listed, loader[l].cursor, ImportPage)
        more == Len(page) = ImportPage /\ Last(page) + 1 <= RangeEnd
    IN /\ loader[l].pc = "import"
       /\ stored' = stored \cup ToSet(page)
       /\ loader' = [loader EXCEPT
              ![l] = IF more THEN [@ EXCEPT !.cursor = Last(page) + 1]
                             ELSE [IdleLoader EXCEPT !.pc = "read", !.imported = TRUE, !.before = stored']]
       /\ UNCHANGED listed

\* Binance or the database fails, or the process ends: the pages already stored stay.
FailLoad(l) ==
    /\ loader[l].pc \in {"read", "import"}
    /\ loader' = [loader EXCEPT ![l] = IdleLoader]
    /\ UNCHANGED <<listed, stored>>

\* The simulation takes what was loaded, or refuses a range without candles.
SimulateRange(l) ==
    /\ loader[l].pc = "loaded" /\ ~NeedsImport(l)
    /\ loader' = [loader EXCEPT ![l] = IdleLoader]
    /\ UNCHANGED <<listed, stored>>

CandlesInit ==
    /\ listed \in {CandleRange \ g : g \in Gaps}
    /\ stored \in SUBSET listed
    /\ loader = [l \in Loaders |-> IdleLoader]

CandlesNext ==
    \E l \in Loaders : \/ StartLoad(l) \/ ReadCandles(l) \/ StartImport(l)
                       \/ ImportCandles(l) \/ FailLoad(l) \/ SimulateRange(l)

CandlesSpec == CandlesInit /\ [][CandlesNext]_candleVars

-----------------------------------------------------------------------------
\* A load that ended has the candles in order and none twice, and misses none
\* that was stored before it began, although another run imports the same range
\* between its pages; after its own import that is everything Binance has.
LoadMissesNothing ==
    \A l \in Loaders : loader[l].pc = "loaded" =>
        LET got == loader[l].got
        IN /\ \A i, j \in DOMAIN got : i < j => got[i] < got[j]
           /\ loader[l].before \subseteq ToSet(got)
           /\ loader[l].imported => ToSet(got) = listed
-----------------------------------------------------------------------------
(* Types *)

LoaderRows(L) == [pc : {"idle", "read", "loaded", "import"}, cursor : Nat, got : Seq(Nat),
                  imported : BOOLEAN, before : SUBSET L]

CandlesTypeOK ==
    /\ listed \subseteq CandleRange /\ stored \subseteq listed
    /\ loader \in [Loaders -> LoaderRows(listed)]
=============================================================================
