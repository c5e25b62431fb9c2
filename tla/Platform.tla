------------------------------ MODULE Platform ------------------------------
(***************************************************************************)
(* The smaller parts of the platform side by side.  They share no row, so a *)
(* behaviour is about one of them, named by part, and the others stay in    *)
(* their initial states.                                                    *)
(***************************************************************************)
EXTENDS SchedulerPass, BacktestRuns, LiveDesk, PaperTrading, HistoricalCandles,
        BacktestSimulator, BacktestReport, TelegramLink, NotificationDelivery, EntrySignals,
        Accounts, MarketQuotes, MarketList, PriceStreams, PackageCatalogue,
        StrategySettings, NetFills, DemoOrders

CONSTANT Parts

VARIABLE part   \* what the behaviour is about

platformVars == <<vars, runsVars, deskVars, paperVars, simVars, candleVars, linkVars,
                  deliveryVars, signalVars, accountVars, quotesVars, listVars,
                  streamVars, catalogueVars, settingsVars, netVars, demoVars,
                  reportVars, part>>

PlatformInit ==
    /\ part \in Parts
    /\ Init /\ RunsInit /\ DeskInit /\ PaperInit
    /\ SimulatorInit /\ CandlesInit /\ LinkInit /\ DeliveryInit
    /\ SignalsInit /\ AccountInit /\ QuotesInit /\ ListInit
    /\ StreamsInit /\ CatalogueInit /\ SettingsInit /\ NetInit
    /\ DemoInit /\ ReportInit

InScheduler(A) ==
    /\ part = "scheduler" /\ A
    /\ UNCHANGED <<runsVars, deskVars, paperVars, simVars, candleVars, linkVars,
                    deliveryVars, signalVars, accountVars, quotesVars, listVars,
                    streamVars, catalogueVars, settingsVars, netVars, demoVars,
                    reportVars, part>>
InBacktests(A) ==
    /\ part = "backtests" /\ A
    /\ UNCHANGED <<vars, deskVars, paperVars, simVars, candleVars, linkVars,
                    deliveryVars, signalVars, accountVars, quotesVars, listVars,
                    streamVars, catalogueVars, settingsVars, netVars, demoVars,
                    reportVars, part>>
InDesk(A) ==
    /\ part = "desk" /\ A
    /\ UNCHANGED <<vars, runsVars, paperVars, simVars, candleVars, linkVars,
                    deliveryVars, signalVars, accountVars, quotesVars, listVars,
                    streamVars, catalogueVars, settingsVars, netVars, demoVars,
                    reportVars, part>>
InPaper(A) ==
    /\ part = "paper" /\ A
    /\ UNCHANGED <<vars, runsVars, deskVars, simVars, candleVars, linkVars,
                    deliveryVars, signalVars, accountVars, quotesVars, listVars,
                    streamVars, catalogueVars, settingsVars, netVars, demoVars,
                    reportVars, part>>
InSimulation(A) ==
    /\ part = "simulation" /\ A
    /\ UNCHANGED <<vars, runsVars, deskVars, paperVars, candleVars, linkVars,
                    deliveryVars, signalVars, accountVars, quotesVars, listVars,
                    streamVars, catalogueVars, settingsVars, netVars, demoVars,
                    reportVars, part>>
InCandles(A) ==
    /\ part = "candles" /\ A
    /\ UNCHANGED <<vars, runsVars, deskVars, paperVars, simVars, linkVars,
                    deliveryVars, signalVars, accountVars, quotesVars, listVars,
                    streamVars, catalogueVars, settingsVars, netVars, demoVars,
                    reportVars, part>>
InTelegram(A) ==
    /\ part = "telegram" /\ A
    /\ UNCHANGED <<vars, runsVars, deskVars, paperVars, simVars, candleVars,
                    deliveryVars, signalVars, accountVars, quotesVars, listVars,
                    streamVars, catalogueVars, settingsVars, netVars, demoVars,
                    reportVars, part>>
InNotifications(A) ==
    /\ part = "notifications" /\ A
    /\ UNCHANGED <<vars, runsVars, deskVars, paperVars, simVars, candleVars, linkVars,
                    signalVars, accountVars, quotesVars, listVars, streamVars,
                    catalogueVars, settingsVars, netVars, demoVars, reportVars, part>>
InSignals(A) ==
    /\ part = "signals" /\ A
    /\ UNCHANGED <<vars, runsVars, deskVars, paperVars, simVars, candleVars, linkVars,
                    deliveryVars, accountVars, quotesVars, listVars, streamVars,
                    catalogueVars, settingsVars, netVars, demoVars, reportVars, part>>
InAccounts(A) ==
    /\ part = "accounts" /\ A
    /\ UNCHANGED <<vars, runsVars, deskVars, paperVars, simVars, candleVars, linkVars,
                    deliveryVars, signalVars, quotesVars, listVars, streamVars,
                    catalogueVars, settingsVars, netVars, demoVars, reportVars, part>>
InQuotes(A) ==
    /\ part = "quotes" /\ A
    /\ UNCHANGED <<vars, runsVars, deskVars, paperVars, simVars, candleVars, linkVars,
                    deliveryVars, signalVars, accountVars, listVars, streamVars,
                    catalogueVars, settingsVars, netVars, demoVars, reportVars, part>>
InList(A) ==
    /\ part = "list" /\ A
    /\ UNCHANGED <<vars, runsVars, deskVars, paperVars, simVars, candleVars, linkVars,
                    deliveryVars, signalVars, accountVars, quotesVars, streamVars,
                    catalogueVars, settingsVars, netVars, demoVars, reportVars, part>>
InStreams(A) ==
    /\ part = "streams" /\ A
    /\ UNCHANGED <<vars, runsVars, deskVars, paperVars, simVars, candleVars, linkVars,
                    deliveryVars, signalVars, accountVars, quotesVars, listVars,
                    catalogueVars, settingsVars, netVars, demoVars, reportVars, part>>
InCatalogue(A) ==
    /\ part = "catalogue" /\ A
    /\ UNCHANGED <<vars, runsVars, deskVars, paperVars, simVars, candleVars, linkVars,
                    deliveryVars, signalVars, accountVars, quotesVars, listVars,
                    streamVars, settingsVars, netVars, demoVars, reportVars, part>>
InSettings(A) ==
    /\ part = "settings" /\ A
    /\ UNCHANGED <<vars, runsVars, deskVars, paperVars, simVars, candleVars, linkVars,
                    deliveryVars, signalVars, accountVars, quotesVars, listVars,
                    streamVars, catalogueVars, netVars, demoVars, reportVars, part>>
InFills(A) ==
    /\ part = "fills" /\ A
    /\ UNCHANGED <<vars, runsVars, deskVars, paperVars, simVars, candleVars, linkVars,
                    deliveryVars, signalVars, accountVars, quotesVars, listVars,
                    streamVars, catalogueVars, settingsVars, demoVars, reportVars,
                    part>>
InDemo(A) ==
    /\ part = "demo" /\ A
    /\ UNCHANGED <<vars, runsVars, deskVars, paperVars, simVars, candleVars, linkVars,
                    deliveryVars, signalVars, accountVars, quotesVars, listVars,
                    streamVars, catalogueVars, settingsVars, netVars, reportVars, part>>
InReport(A) ==
    /\ part = "report" /\ A
    /\ UNCHANGED <<vars, runsVars, deskVars, paperVars, simVars, candleVars, linkVars,
                    deliveryVars, signalVars, accountVars, quotesVars, listVars,
                    streamVars, catalogueVars, settingsVars, netVars, demoVars, part>>

PlatformNext ==
    \/ InScheduler(Next)
    \/ InBacktests(RunsNext)
    \/ InDesk(DeskNext)
    \/ InPaper(PaperNext)
    \/ InSimulation(SimulatorNext)
    \/ InCandles(CandlesNext)
    \/ InTelegram(LinkNext)
    \/ InNotifications(DeliveryNext)
    \/ InSignals(SignalsNext)
    \/ InAccounts(AccountNext)
    \/ InQuotes(QuotesNext)
    \/ InList(ListNext)
    \/ InStreams(StreamsNext)
    \/ InCatalogue(CatalogueNext)
    \/ InSettings(SettingsNext)
    \/ InFills(NetNext)
    \/ InDemo(DemoNext)
    \/ InReport(ReportNext)

PlatformSpec == PlatformInit /\ [][PlatformNext]_platformVars

\* The fairness of SchedulerPass and of BacktestRuns.
PlatformFairness ==
    /\ WF_platformVars(InScheduler(Tick))
    /\ \A i \in Instances : /\ WF_platformVars(InScheduler(FinishWork(i)))
                            /\ WF_platformVars(InScheduler(ReleaseLock(i)))
                            /\ WF_platformVars(InScheduler(Renew(i)))
    /\ WF_platformVars(InBacktests(RunsTick))
    /\ WF_platformVars(InBacktests(FailStaleRuns))

FairPlatformSpec == PlatformSpec /\ PlatformFairness

\* The type invariant of every part: counters that never go below zero or above
\* their limits, rows that have only the states their tables know, and references
\* that lead to rows.
TypesOK ==
    /\ TypeOK /\ RunsTypeOK /\ DeskTypeOK /\ PaperTypeOK
    /\ SimTypeOK /\ CandlesTypeOK /\ LinkTypeOK /\ DeliveryTypeOK
    /\ SignalsTypeOK /\ AccountTypeOK /\ QuotesTypeOK /\ ListTypeOK
    /\ StreamsTypeOK /\ CatalogueTypeOK /\ SettingsTypeOK /\ NetTypeOK
    /\ DemoTypeOK /\ ReportTypeOK

(***************************************************************************)
(* What some of the parts promise together.                                  *)
(***************************************************************************)
\* A backtest from the candles it loads to what is reported of it.
BacktestReportsSound == LoadMissesNothing /\ SimulationBooksBalance /\ ReportMatchesPoints

\* Everybody who looks at prices shares what was asked once: an answer is as
\* young as the cache promises; everybody shares one flight of the market list, which
\* is asked for twice within its TTL only after a failure; and a stream somebody
\* listens to is open or about to be opened again.
MarketDataShared == QuotesAreRecent /\ OneFlightForAll /\ StreamsStayAlive
=============================================================================
