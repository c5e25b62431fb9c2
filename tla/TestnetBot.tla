----------------------------- MODULE TestnetBot -----------------------------
(***************************************************************************)
(* One Testnet bot with everything that works on it at the same time: the    *)
(* ticks of TestnetStrategyRunnerService, the retry and order-sync passes,   *)
(* API requests, the owner, the exchange, and crashes of the processes.      *)
(*                                                                          *)
(* The market is not modelled: every price condition may be met or not.      *)
(* Recovery mode, stop loss and orders placed by hand are left out.          *)
(***************************************************************************)
EXTENDS UserOperations

CONSTANTS
    NoOwner,    \* nobody holds the tick lock
    Processes,  \* the application instances, each the set of actors it runs
    TickOutlivesLock    \* TRUE: a tick may take longer than the lock lives

Actors == Executors \cup AllSyncers \cup Users

ASSUME TestnetBotAssumption == /\ Processes \subseteq SUBSET Actors
                               /\ TickOutlivesLock \in BOOLEAN
                               /\ NoOwner \notin Runners

VARIABLES
    tickLock    \* holder of hbs:lock:testnet-strategy:<id>

userState == <<user, started>>
serviceState == <<strategy, action, exchange, books>>
vars == <<serviceState, executor, syncer, userState, tickLock>>

Init == /\ InitExchange /\ InitActions /\ InitPositions /\ InitExecution
        /\ InitSync /\ InitUsers
        /\ tickLock = NoOwner

----------------------------------------------------------------------------
\* runUserStrategies reads the running strategies, with open position and legs.
LoadStrategies(e) ==
    /\ At(e, "idle")
    /\ strategy = "RUNNING"
    /\ LET c == LatestOpen
           view == [cycle |-> c,
                    position |-> IF c = 0 THEN NoPosition ELSE position[c],
                    legs |-> IF c = 0 THEN NoLegs
                             ELSE [l \in IndependentLevels |->
                                     IF leg[c][l].status = "OPEN" THEN leg[c][l] ELSE NoLeg]]
       IN executor' = [executor EXCEPT ![e].pc = "loaded", ![e].view = view]
    /\ UNCHANGED <<serviceState, tickLock>>

\* Mutant: the tick goes on without the lock.
TickLockIgnored == TRUE

TickLockFree == tickLock = NoOwner

\* runStrategy takes the lock of the strategy or skips the tick.
TakeTickLock(e) ==
    /\ At(e, "loaded")
    /\ IF TickLockFree
       THEN tickLock' = e /\ Go(e, "locked")
       ELSE Rest(e) /\ UNCHANGED tickLock
    /\ UNCHANGED serviceState

\* hasPendingExecution
PendingExecution ==
    \E k \in Keys : order[k].status \in OpenStatuses \/
                    action[k].status \in UnresolvedStatuses \cup {"FAILED"}

CheckPending(e) ==
    /\ At(e, "locked")
    /\ Go(e, IF PendingExecution THEN "unlock" ELSE "deciding")
    /\ UNCHANGED <<serviceState, tickLock>>

Execute(e, k, quantity) ==
    /\ k \in Keys
    /\ executor' = [executor EXCEPT ![e].pc = "begin", ![e].key = k, ![e].quantity = quantity]
    /\ UNCHANGED <<serviceState, tickLock>>

\* No position was open: the initial entry, under the number of the next cycle.
DecideInitialEntry(e) ==
    /\ At(e, "deciding")
    /\ executor[e].view.cycle = 0
    /\ Execute(e, EntryKey(PositionCount + 1, 1, 1), Lot)

\* The price is above the take profit of a leg.
DecideLegExit(e) ==
    LET view == executor[e].view
    IN /\ At(e, "deciding")
       /\ \E l \in IndependentLevels :
            /\ view.legs[l].quantity > 0
            /\ Execute(e, ExitKey(view.cycle, l), view.legs[l].quantity)

\* The price is above the take profit of the parent.
DecideParentExit(e) ==
    LET view == executor[e].view
    IN /\ At(e, "deciding")
       /\ view.position.quantity > 0
       /\ Execute(e, ExitKey(view.cycle, 1), view.position.quantity)

\* entryActionKey of the next level of the ladder.
NextEntry(view) ==
    LET level == view.position.dcaCount + 2
    IN EntryKey(view.cycle, level, CancelledAttempts(EntryKey(view.cycle, level, 1)) + 1)

\* The price is below the next DCA price.
DecideNextEntry(e) ==
    LET view == executor[e].view
    IN /\ At(e, "deciding")
       /\ view.cycle # 0
       /\ view.position.dcaCount < MaxLevel - 1
       /\ view.position.nextDca
       /\ Execute(e, NextEntry(view), Lot)

\* No trigger is reached, or the confirmation, the quote or a query fails.
Hold(e) ==
    /\ At(e, "deciding")
    /\ Go(e, "unlock")
    /\ UNCHANGED <<serviceState, tickLock>>

\* The finally block of runStrategy.
Unlock(e) ==
    /\ At(e, "unlock")
    /\ tickLock' = IF tickLock = e THEN NoOwner ELSE tickLock
    /\ Rest(e)
    /\ UNCHANGED serviceState

\* The lock of a dead tick expires, and that of a tick that takes too long.
TickLockExpires ==
    /\ tickLock # NoOwner
    /\ TickOutlivesLock \/ executor[tickLock].pc \in {"idle", "loaded"}
    /\ tickLock' = NoOwner
    /\ UNCHANGED <<serviceState, executor>>

TickStep(e) == \/ LoadStrategies(e) \/ TakeTickLock(e) \/ CheckPending(e)
               \/ DecideInitialEntry(e) \/ DecideLegExit(e) \/ DecideParentExit(e)
               \/ DecideNextEntry(e) \/ Hold(e) \/ Unlock(e)

----------------------------------------------------------------------------
\* A process dies with everything it was in the middle of, as often as you like.
Crash(p) ==
    /\ executor' = [e \in Executors |-> IF e \in p THEN Resting ELSE executor[e]]
    /\ syncer' = [s \in AllSyncers |-> IF s \in p THEN Waiting ELSE syncer[s]]
    /\ user' = [u \in Users |-> IF u \in p THEN NoRequest ELSE user[u]]
    /\ UNCHANGED <<serviceState, started, tickLock>>

\* The backoff of a failed action; it is longer than the way from the inner
\* to the outer catch block.
Backoff(k) ==
    /\ \A e \in Executors : executor[e].key = k => ~At(e, "remark")
    /\ BackoffElapses(k)
    /\ UNCHANGED <<strategy, exchange, books, executor>>

Market(k) == /\ Fill(k) \/ Expire(k)
             /\ UNCHANGED <<strategy, action, books, executor>>

quiet == <<userState, tickLock>>

RunnerNext(e) == TickStep(e) /\ UNCHANGED <<syncer, userState>>
ExecutorNext(e) == ExecutionStep(e) /\ UNCHANGED <<syncer, quiet>>
ListNext(e, k) == RetryList(e, k) /\ UNCHANGED <<syncer, quiet>>
SyncNext(s) == SyncStep(s) /\ UNCHANGED quiet
PickNext(s, k) == (SyncRead(s, k) \/ RecoverRead(s, k)) /\ UNCHANGED quiet
UserNext(u) == UserStep(u) /\ UNCHANGED tickLock
BackoffNext(k) == Backoff(k) /\ UNCHANGED <<syncer, quiet>>
MarketNext(k) == Market(k) /\ UNCHANGED <<syncer, quiet>>
ExpiryNext == TickLockExpires /\ UNCHANGED <<syncer, userState>>

Next == \/ \E e \in Runners : RunnerNext(e)
        \/ \E e \in Executors : ExecutorNext(e)
        \/ \E e \in Retriers, k \in Keys : ListNext(e, k)
        \/ \E s \in AllSyncers : SyncNext(s) \/ \E k \in Keys : PickNext(s, k)
        \/ \E u \in Users : UserNext(u)
        \/ \E p \in Processes : Crash(p)
        \/ \E k \in Keys : BackoffNext(k) \/ MarketNext(k)
        \/ ExpiryNext

Spec == Init /\ [][Next]_vars

\* What the cron jobs, the bounded HTTP calls and the expiry in Redis give: a
\* call in progress goes on; a pass that could list an action or an order again
\* and again does so at some time; of the calls to the exchange not all fail.
Fairness ==
    /\ \A e \in Runners : WF_vars(RunnerNext(e))
    /\ \A e \in Executors : WF_vars(ExecutorNext(e))
    /\ \A e \in Retriers, k \in Keys : SF_vars(ListNext(e, k))
    /\ \A k \in Keys : WF_vars(BackoffNext(k))
    /\ \A s \in AllSyncers : WF_vars(SyncNext(s))
    /\ \A s \in Syncers : /\ \A k \in Keys : SF_vars(PickNext(s, k))
                          /\ SF_vars(SyncFetch(s) /\ UNCHANGED quiet)
                          /\ SF_vars(CancelStale(s) /\ UNCHANGED quiet)
    /\ WF_vars(ExpiryNext)

FairSpec == Spec /\ Fairness
----------------------------------------------------------------------------
\* The type invariant of every record the services keep.
TypeOK ==
    /\ strategy \in {"RUNNING", "PAUSED", "STOPPED"}
    /\ exchange \in [Keys -> [status : ExchangeStatuses, executed : 0..MaxLots,
                              wanted : 0..MaxLots, placed : Nat]]
    /\ action \in [Keys -> [status : ActionStatuses, attempts : 0..MaxAttempts, due : BOOLEAN,
                            position : {0} \cup Slots, quantity : 0..MaxLots]]
    /\ position \in [Slots -> PositionRecord]
    /\ leg \in [Slots -> [IndependentLevels -> LegRecord]]
    /\ order \in [Keys -> OrderRecord]
    /\ \A e \in Executors : executor[e].pc \in ExecutorPcs /\ executor[e].key \in Keys \cup {NoKey}
    /\ \A s \in AllSyncers : syncer[s].pc \in SyncerPcs /\ syncer[s].row \in OrderRecord
    /\ tickLock \in Runners \cup {NoOwner}

\* An order request is never carried out twice (docs/operations.md:41): the
\* action key is claimed once, and a retry looks the order up before it places.
NeverPlacedTwice == \A k \in Keys : exchange[k].placed <= 1

\* Of the attempts of one entry at most one buys coins ("a filled level keeps
\* its key and is never bought twice", testnet-strategy-runner.service.ts:141).
LevelBoughtOnce ==
    \A k, j \in EntryKeys : SameEntry(k, j) /\ k # j => exchange[k].executed = 0 \/ exchange[j].executed = 0

\* At most one action of the bot is on its way at any time.
OneUnresolvedAction ==
    \A k, j \in Keys : action[k].status \in UnresolvedStatuses /\ action[j].status \in UnresolvedStatuses
                          => k = j

\* The lots in the books of a position are those its orders bought and did not sell.
BooksMatchFills == \A c \in Slots : Holding(c) + AccountedTo(c, "SELL") = AccountedTo(c, "BUY")

\* The fills of an order whose row is final are in the books, all of them.
SettledOrdersAccounted ==
    \A k \in Keys : order[k].status \in {"FILLED"} \cup TerminalStatuses =>
                       order[k].accounted = exchange[k].executed

\* The counter that picks the next level agrees with the orders: a position
\* that bought anything has bought levels 1 to dcaCount + 1 and no other.
LevelsBought(c) == {k.level : k \in {j \in EntryKeys : order[j].position = c /\ order[j].accounted > 0}}
DcaCountMatchesOrders ==
    \A c \in Slots : LevelsBought(c) # {} => LevelsBought(c) = 1..position[c].dcaCount + 1

\* What an exit sold is in the order rows; the action is not given up before.
SalesAreRecorded ==
    \A k \in ExitKeys : exchange[k].executed > 0 /\ action[k].status = "PERMANENTLY_FAILED" =>
                           order[k].status # "NONE"

Lifecycle == INSTANCE ActionLifecycle WITH
                ActionKeys <- Keys,
                status <- [k \in Keys |-> action[k].status],
                attempts <- [k \in Keys |-> action[k].attempts]

\* Every action goes through the lifecycle of its record, whatever ticks,
\* retries, syncs and crashes do to it (TestnetStrategyActionService).
ImplementsLifecycle == Lifecycle!Spec

\* A bot is never stuck on an order or an action for ever: resting entries are
\* cancelled when stale, failed actions retried or given up, ended orders synced.
NeverStuck == PendingExecution ~> ~PendingExecution
=============================================================================
