---------------------------- MODULE MarketQuotes ----------------------------
(***************************************************************************)
(* MarketDataService.getQuote: the price of a symbol, asked from Binance    *)
(* and kept for two seconds for every reader of the process.  A price is    *)
(* represented by the time at which it was true.                            *)
(***************************************************************************)
EXTENDS Integers

CONSTANTS
    QuoteReaders,     \* callers of getQuote and getCachedQuotes
    QuoteTtl,         \* defaultTtlMs
    RequestTimeout,   \* BINANCE_HTTP_TIMEOUT_MS
    MaxClock          \* bound: the end of time

ASSUME QuotesAssumption == {QuoteTtl, RequestTimeout, MaxClock} \subseteq Nat \ {0}

VARIABLES
    clock,
    quote,        \* cache: the quote of one symbol
    quoteReader   \* what each reader is doing, and how old a price he got

quotesVars == <<clock, quote, quoteReader>>

NotKept == [asOf |-> 0, until |-> 0]     \* never fresh, for the clock starts at 1
Reading == [pc |-> "idle"]

QuoteFresh == quote.until > clock

\* http: every request is aborted after its timeout.
Overdue(since) == clock >= since + RequestTimeout

QuoteGiven(asOf) == [pc |-> "given", age |-> clock - asOf]

-----------------------------------------------------------------------------
\* getQuote from the cache, and getCachedQuotes.
ReadCached(r) ==
    /\ quoteReader[r].pc # "asking"
    /\ QuoteFresh
    /\ quoteReader' = [quoteReader EXCEPT ![r] = QuoteGiven(quote.asOf)]
    /\ UNCHANGED <<clock, quote>>

AskQuote(r, forceRefresh) ==
    /\ quoteReader[r].pc # "asking"
    /\ forceRefresh \/ ~QuoteFresh
    /\ quoteReader' = [quoteReader EXCEPT ![r] = [pc |-> "asking", since |-> clock]]
    /\ UNCHANGED <<clock, quote>>

\* Two requests may overlap, and the older price may be stored last.
QuoteArrives(r) ==
    /\ quoteReader[r].pc = "asking"
    /\ \E asOf \in quoteReader[r].since..clock :
           /\ quote' = [asOf |-> asOf, until |-> clock + QuoteTtl]
           /\ quoteReader' = [quoteReader EXCEPT ![r] = QuoteGiven(asOf)]
    /\ UNCHANGED clock

\* No answer in time, an error, or a price that is none.
QuoteFails(r) ==
    /\ quoteReader[r].pc = "asking"
    /\ quoteReader' = [quoteReader EXCEPT ![r] = Reading]
    /\ UNCHANGED <<clock, quote>>

ClearCache ==
    /\ quote # NotKept
    /\ quote' = NotKept
    /\ UNCHANGED <<clock, quoteReader>>

ClockTick ==
    /\ clock < MaxClock
    /\ \A r \in QuoteReaders : quoteReader[r].pc = "asking" => ~Overdue(quoteReader[r].since)
    /\ clock' = clock + 1
    /\ UNCHANGED <<quote, quoteReader>>

-----------------------------------------------------------------------------
QuotesInit ==
    /\ clock = 1 /\ quote = NotKept
    /\ quoteReader = [r \in QuoteReaders |-> Reading]

QuotesNext ==
    \/ \E r \in QuoteReaders : \/ ReadCached(r) \/ QuoteArrives(r) \/ QuoteFails(r)
                               \/ \E force \in BOOLEAN : AskQuote(r, force)
    \/ ClearCache \/ ClockTick

QuotesSpec == QuotesInit /\ [][QuotesNext]_quotesVars

-----------------------------------------------------------------------------
\* A price a reader gets is never older than the time a request may take and the
\* time it is kept together, although refreshes overlap and the older answer may
\* overwrite the newer one.
QuotesAreRecent ==
    \A r \in QuoteReaders :
        quoteReader[r].pc = "given" => quoteReader[r].age <= QuoteTtl + RequestTimeout
-----------------------------------------------------------------------------
(* Types *)

QuoteReaderStates ==
    [pc : {"idle"}] \cup [pc : {"asking"}, since : Nat] \cup [pc : {"given"}, age : Int]

QuotesTypeOK ==
    /\ clock \in Nat
    /\ quote \in [asOf : Nat, until : Nat]
    /\ quoteReader \in [QuoteReaders -> QuoteReaderStates]
=============================================================================
