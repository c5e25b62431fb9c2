----------------------------- MODULE MarketList -----------------------------
(***************************************************************************)
(* MarketDataService.getTickers: the market list of every user, one         *)
(* snapshot that is kept for some seconds, and one flight that everybody    *)
(* who finds it old waits for.  A flight asks Binance twice at once, for    *)
(* the 24h tickers and for the symbols; it fails with the first of the two, *)
(* and what it asked for besides is still on its way then.  Only the age of *)
(* the snapshot matters here.                                               *)
(***************************************************************************)
EXTENDS Naturals

CONSTANTS
    ListReaders,      \* callers of getTickers
    TickersTtl,       \* TICKERS_TTL_MS
    MaxLate           \* bound: requests of one kind that outlive their flight

Halves == {"tickers", "symbols"}
NoFlight == [h \in Halves |-> "none"]

ASSUME ListAssumption == TickersTtl \in Nat \ {0} /\ MaxLate \in Nat

VARIABLES
    snapshot,         \* tickers: its age
    symbols,          \* the symbols are kept, and not older than SYMBOLS_TTL_MS
    tickersInFlight,  \* the flight everybody shares: what became of its halves
    late,             \* late[h]: requests whose flight failed before they ended
    listReader,       \* what each reader is doing
    asked             \* history: how long ago the tickers were asked for last, whether
                      \* a flight failed since, and whether they were ever asked for
                      \* twice within the TTL without a failure (again) or after one (hasty)

listVars == <<snapshot, symbols, tickersInFlight, late, listReader, asked>>

NoSnapshot == TickersTtl + 1

\* A snapshot older than its TTL is as good as any other old one.
ListFresh == snapshot < TickersTtl

\* Mutant: every reader asks for himself.
NeverJoins == FALSE

JoinsFlight == tickersInFlight # NoFlight

ReadTickers(r) ==
    /\ listReader[r] = "idle" /\ ListFresh
    /\ listReader' = [listReader EXCEPT ![r] = "listed"]
    /\ UNCHANGED <<snapshot, symbols, tickersInFlight, late, asked>>

\* The tickers are asked for now: too soon, when the last time was less than a TTL ago.
AskedNow ==
    LET soon == asked.ago < TickersTtl
    IN  asked' = [ago |-> 0, failed |-> FALSE, again |-> asked.again \/ (soon /\ ~asked.failed),
                  hasty |-> asked.hasty \/ (soon /\ asked.failed)]

\* The first reader of an old list asks for both halves, or for the tickers alone
\* when the symbols are kept; the others wait for his flight.
AskTickers(r) ==
    /\ listReader[r] = "idle" /\ ~ListFresh
    /\ listReader' = [listReader EXCEPT ![r] = "waiting"]
    /\ IF JoinsFlight THEN UNCHANGED <<tickersInFlight, asked>>
       ELSE /\ tickersInFlight' = [h \in Halves |-> IF h = "symbols" /\ symbols THEN "here" ELSE "asked"]
            /\ AskedNow
    /\ UNCHANGED <<snapshot, symbols, late>>

\* Everybody who waits for the flight gets its outcome.
Lands(outcome) ==
    /\ tickersInFlight' = NoFlight
    /\ listReader' = [r \in ListReaders |-> IF listReader[r] = "waiting" THEN outcome ELSE listReader[r]]

\* The snapshot is written when both halves are here.
HalfArrives(h) ==
    /\ tickersInFlight[h] = "asked"
    /\ symbols' = (symbols \/ h = "symbols")
    /\ IF \A g \in Halves \ {h} : tickersInFlight[g] = "here"
       THEN Lands("listed") /\ snapshot' = 0
       ELSE /\ tickersInFlight' = [tickersInFlight EXCEPT ![h] = "here"]
            /\ UNCHANGED <<snapshot, listReader>>
    /\ UNCHANGED <<late, asked>>

\* The first half that fails ends the flight, whatever became of the other.  The last
\* good snapshot serves through an outage; without one all fail.
HalfFails(h) ==
    /\ tickersInFlight[h] = "asked"
    /\ late' = [g \in Halves |-> IF g # h /\ tickersInFlight[g] = "asked" THEN late[g] + 1 ELSE late[g]]
    /\ \A g \in Halves : late'[g] <= MaxLate
    /\ Lands(IF snapshot = NoSnapshot THEN "failed" ELSE "listed")
    /\ asked' = [asked EXCEPT !.failed = TRUE]
    /\ UNCHANGED <<snapshot, symbols>>

\* Nobody reads tickers that come too late; symbols are kept all the same.
LateEnds(h) ==
    /\ late[h] > 0
    /\ late' = [late EXCEPT ![h] = @ - 1]
    /\ symbols' \in {symbols, symbols \/ h = "symbols"}
    /\ UNCHANGED <<snapshot, tickersInFlight, listReader, asked>>

SymbolsExpire ==
    /\ symbols /\ symbols' = FALSE
    /\ UNCHANGED <<snapshot, tickersInFlight, late, listReader, asked>>

\* The next poll of the page.
AsksAgain(r) ==
    /\ listReader[r] \in {"listed", "failed"}
    /\ listReader' = [listReader EXCEPT ![r] = "idle"]
    /\ UNCHANGED <<snapshot, symbols, tickersInFlight, late, asked>>

ListAges ==
    /\ ListFresh \/ asked.ago < TickersTtl
    /\ snapshot' = IF ListFresh THEN snapshot + 1 ELSE snapshot
    /\ asked' = [asked EXCEPT !.ago = IF @ < TickersTtl THEN @ + 1 ELSE @]
    /\ UNCHANGED <<symbols, tickersInFlight, late, listReader>>

ListInit ==
    /\ snapshot = NoSnapshot /\ symbols = FALSE
    /\ tickersInFlight = NoFlight /\ late = [h \in Halves |-> 0]
    /\ listReader = [r \in ListReaders |-> "idle"]
    /\ asked = [ago |-> TickersTtl, failed |-> FALSE, again |-> FALSE, hasty |-> FALSE]

ListNext ==
    \/ \E r \in ListReaders : ReadTickers(r) \/ AskTickers(r) \/ AsksAgain(r)
    \/ \E h \in Halves : HalfArrives(h) \/ HalfFails(h) \/ LateEnds(h)
    \/ SymbolsExpire
    \/ ListAges

ListSpec == ListInit /\ [][ListNext]_listVars

-----------------------------------------------------------------------------
\* The type invariant of the market list.
ListTypeOK ==
    /\ snapshot \in 0..NoSnapshot /\ symbols \in BOOLEAN
    /\ tickersInFlight \in [Halves -> {"none", "asked", "here"}]
    /\ late \in [Halves -> 0..MaxLate]
    /\ listReader \in [ListReaders -> {"idle", "waiting", "listed", "failed"}]
    /\ asked \in [ago : 0..TickersTtl, failed : BOOLEAN, again : BOOLEAN, hasty : BOOLEAN]

\* However many users look at the list: nobody is left behind by a flight that ended,
\* in whichever order its halves came or failed; a fresh list is not asked for; and
\* the tickers are asked for a second time within their TTL only after a failure.
OneFlightForAll ==
    /\ (\E r \in ListReaders : listReader[r] = "waiting") => tickersInFlight # NoFlight
    /\ tickersInFlight # NoFlight => ~ListFresh
    /\ ~asked.again

\* "Binance sees at most one 24h-ticker request per 5 s" (market-data.service.ts:55).
OneTickerRequestPerTtl == ~asked.again /\ ~asked.hasty
=============================================================================
