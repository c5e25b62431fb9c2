------------------------------ MODULE LiveDesk ------------------------------
(***************************************************************************)
(* The LIVE side of one user: package subscriptions and their bots           *)
(* (PackagesService), the safety profile (LiveTradingSafetyService), the     *)
(* checks before an entry (LiveStrategyRiskService), the pass that trades    *)
(* the bots, and the emergency exit (LiveEmergencyExitService).  Requests of *)
(* the user overlap with each other and with the pass.                       *)
(*                                                                          *)
(* A package runs one bot here; its bots are started and stopped by the same *)
(* update.  Money is counted in the amount of one entry.  How an order is    *)
(* claimed, placed once and accounted is the subject of TestnetBot; here it  *)
(* is placed and recorded.                                                   *)
(***************************************************************************)
EXTENDS Integers, FiniteSets, FiniteSetsExt

CONSTANTS
    Packages,
    PackageAmount,  \* PackageAmount[p]: capital of package p
    Subscriptions,  \* bound: subscriptions the user may make
    OwnBots,        \* bots the user made himself
    DeskRequests,   \* concurrent API requests of the user
    Passes,         \* LIVE strategy passes (one, as long as its lock is held)
    Ceilings,       \* ceilings the user may set
    MaxDeskOperations,  \* bound: operations the user may start
    NoPackage,
    NoBot

Bots == OwnBots \cup Subscriptions

ASSUME LiveDeskAssumption == /\ PackageAmount \in [Packages -> Nat \ {0}]
                             /\ Ceilings \subseteq Nat \ {0}
                             /\ MaxDeskOperations \in Nat
                             /\ NoPackage \notin Packages
                             /\ NoBot \notin Bots
                             /\ OwnBots \cap Subscriptions = {}

VARIABLES
    subscription,   \* subscription[i]: package and status
    bot,            \* bot[b]: TradingStrategy.status
    profile,        \* the safety profile of the user
    books,          \* books[b]: cost of the open position, and of the resting buy
    request,        \* request[q]: the request and what it has read
    desk,           \* desk[e]: the pass and what it has read
    exit,           \* the emergency exit of the user (one at a time here)
    operations      \* operations the user has started

deskVars == <<subscription, bot, profile, books, request, desk, exit, operations>>

\* The profile as an upsert creates it; own is TRUE once the user has set the
\* ceiling himself, agreed holds the ceilings he has confirmed (both for the
\* properties only).
NoProfile == [ceiling |-> 0, confirmed |-> FALSE, own |-> FALSE, agreed |-> {}]
NoSubscription == [package |-> NoPackage, status |-> "none"]
NoDeskRequest == [pc |-> "idle", package |-> NoPackage, of |-> NoBot, wanted |-> "none",
                  read |-> {}, made |-> {}, seen |-> NoProfile]
AtRest == [pc |-> "idle", todo |-> {}, bot |-> NoBot, ceiling |-> 0, open |-> -1, pending |-> -1]
NoExit == [pc |-> "idle", todo |-> {}, refused |-> {}]
NoBooks == [cost |-> 0, resting |-> 0]

DeskInit ==
    /\ subscription = [i \in Subscriptions |-> NoSubscription]
    /\ bot = [b \in Bots |-> "STOPPED"]
    /\ profile = NoProfile
    /\ books = [b \in Bots |-> NoBooks]
    /\ request = [q \in DeskRequests |-> NoDeskRequest]
    /\ desk = [e \in Passes |-> AtRest]
    /\ exit = NoExit
    /\ operations = 0

StartsOperation == /\ operations < MaxDeskOperations
                   /\ operations' = operations + 1

RequestAt(q, pc) == request[q].pc = pc
Answer(q) == request' = [request EXCEPT ![q] = NoDeskRequest]

Active(i) == subscription[i].status = "ACTIVE"
ActiveOnes == {i \in Subscriptions : Active(i)}
MadeOnes == {i \in Subscriptions : subscription[i] # NoSubscription}
AmountOf(S) == MapThenSumSet(LAMBDA i : PackageAmount[subscription[i].package], S)

----------------------------------------------------------------------------
\* Mutant: the new ceiling takes over the old confirmation.
CeilingKeepsConfirmation(c, mine) == profile' = [profile EXCEPT !.ceiling = c, !.own = mine]

\* A ceiling that changes has to be confirmed again.
NewCeiling(c, mine) == profile' = [profile EXCEPT !.ceiling = c, !.own = mine, !.confirmed = FALSE]

\* setCapitalCeiling
SetCapitalCeiling ==
    /\ StartsOperation
    /\ \E c \in Ceilings : NewCeiling(c, TRUE)
    /\ UNCHANGED <<subscription, bot, books, request, desk, exit>>

\* recordConfirmation: there must be a ceiling ...
ConfirmRead(q) ==
    /\ StartsOperation
    /\ RequestAt(q, "idle")
    /\ profile.ceiling > 0
    /\ request' = [request EXCEPT ![q].pc = "confirming"]
    /\ UNCHANGED <<subscription, bot, profile, books, desk, exit>>

\* ... and whatever it is by now counts as confirmed.
ConfirmWrite(q) ==
    /\ RequestAt(q, "confirming")
    /\ profile' = [profile EXCEPT !.confirmed = TRUE, !.agreed = @ \cup {profile.ceiling}]
    /\ Answer(q)
    /\ UNCHANGED <<subscription, bot, books, desk, exit, operations>>

----------------------------------------------------------------------------
\* subscribe: the package is read, then the transaction begins and sees the
\* subscriptions and the profile of that moment.
SubscribeRead(q, p) ==
    /\ StartsOperation
    /\ RequestAt(q, "idle")
    /\ ~ \E i \in ActiveOnes : subscription[i].package = p
    /\ request' = [request EXCEPT ![q] = [NoDeskRequest EXCEPT !.pc = "subscribing", !.package = p,
                                                               !.read = ActiveOnes,
                                                               !.made = MadeOnes,
                                                               !.seen = profile]]
    /\ UNCHANGED <<subscription, bot, profile, books, desk, exit>>

\* Mutant: the ceiling only has to cover the new package.
RequiredAlone(q) == PackageAmount[request[q].package]

\* What the active packages need together, as the transaction sees it.
Required(q) == AmountOf(request[q].read) + PackageAmount[request[q].package]
RaisesCeiling(q) == request[q].seen.ceiling < Required(q)

\* Mutant: without the isolation level.
SubscribesAnyway(q) == TRUE

\* Serializable: no subscription was made (a cancelled one counts: its transaction
\* and this one have each read what the other writes), and the profile was not
\* changed when the transaction writes it, since the transaction began (else P2034).
Serializable(q) == /\ MadeOnes = request[q].made
                   /\ RaisesCeiling(q) => profile = request[q].seen

\* The commit: subscription, its bot (STOPPED), and the ceiling.
SubscribeCommit(q) ==
    /\ RequestAt(q, "subscribing")
    /\ Serializable(q)
    /\ \E i \in Subscriptions :
          /\ subscription[i] = NoSubscription
          /\ subscription' = [subscription EXCEPT ![i] = [package |-> request[q].package,
                                                          status |-> "ACTIVE"]]
    /\ IF RaisesCeiling(q) THEN NewCeiling(Required(q), FALSE) ELSE UNCHANGED profile
    /\ Answer(q)
    /\ UNCHANGED <<bot, books, desk, exit, operations>>

\* setBotStatus: the subscription must be active ...
SetBotStatusRead(q, i) ==
    /\ StartsOperation
    /\ RequestAt(q, "idle")
    /\ Active(i)
    /\ \E s \in {"RUNNING", "STOPPED"} :
          request' = [request EXCEPT ![q].pc = "setting", ![q].of = i, ![q].wanted = s]
    /\ UNCHANGED <<subscription, bot, profile, books, desk, exit>>

\* ... when its bots are updated it need not be any more.
SetBotStatusWrite(q) ==
    /\ RequestAt(q, "setting")
    /\ bot' = [bot EXCEPT ![request[q].of] = request[q].wanted]
    /\ Answer(q)
    /\ UNCHANGED <<subscription, profile, books, desk, exit, operations>>

\* setStatus of StrategyService, which leaves the bots of packages alone.
SetOwnStatus(b) ==
    /\ StartsOperation
    /\ \E s \in {"RUNNING", "PAUSED", "STOPPED"} : bot' = [bot EXCEPT ![b] = s]
    /\ UNCHANGED <<subscription, profile, books, request, desk, exit>>

\* cancel: the subscription is active and its bots do not run ...
CancelRead(q, i) ==
    /\ StartsOperation
    /\ RequestAt(q, "idle")
    /\ Active(i)
    /\ bot[i] # "RUNNING"
    /\ request' = [request EXCEPT ![q].pc = "counting", ![q].of = i]
    /\ UNCHANGED <<subscription, bot, profile, books, desk, exit>>

\* ... no position of theirs is open (else an error) ...
CancelCount(q) ==
    /\ RequestAt(q, "counting")
    /\ IF books[request[q].of].cost = 0
       THEN request' = [request EXCEPT ![q].pc = "cancelling"]
       ELSE Answer(q)
    /\ UNCHANGED <<subscription, bot, profile, books, desk, exit, operations>>

\* ... and the transaction, with the ceiling left as it is.
CancelCommit(q) ==
    LET i == request[q].of
    IN /\ RequestAt(q, "cancelling")
       /\ bot' = [bot EXCEPT ![i] = "STOPPED"]
       /\ subscription' = [subscription EXCEPT ![i].status = "CANCELLED"]
       /\ Answer(q)
       /\ UNCHANGED <<profile, books, desk, exit, operations>>

\* A request that fails: a conflict, a constraint, a broken connection.
RequestFails(q) ==
    /\ request[q].pc \notin {"idle", "exiting"}
    /\ Answer(q)
    /\ UNCHANGED <<subscription, bot, profile, books, desk, exit, operations>>

----------------------------------------------------------------------------
PassAt(e, pc) == desk[e].pc = pc
PassGoes(e, pc) == desk' = [desk EXCEPT ![e].pc = pc]

\* The next bot of the pass, or its end.
NextBot(e) == desk' = [desk EXCEPT ![e] = [AtRest EXCEPT !.pc = IF desk[e].todo = {} THEN "idle" ELSE "walking",
                                                         !.todo = desk[e].todo]]

service == <<subscription, bot, profile, books>>

\* runUserStrategies reads the running bots of the user once.
StartPass(e) ==
    /\ PassAt(e, "idle")
    /\ \E b \in Bots : bot[b] = "RUNNING"
    /\ desk' = [desk EXCEPT ![e] = [AtRest EXCEPT !.pc = "walking",
                                                  !.todo = {b \in Bots : bot[b] = "RUNNING"}]]
    /\ UNCHANGED <<service, request, exit, operations>>

\* A bot that has no order resting wants to buy.
WantEntry(e, b) ==
    /\ PassAt(e, "walking")
    /\ b \in desk[e].todo
    /\ books[b].resting = 0
    /\ desk' = [desk EXCEPT ![e].pc = "profile", ![e].bot = b, ![e].todo = @ \ {b}]
    /\ UNCHANGED <<service, request, exit, operations>>

\* A bot does nothing.
PassBy(e, b) ==
    /\ PassAt(e, "walking")
    /\ b \in desk[e].todo
    /\ desk' = [desk EXCEPT ![e].todo = @ \ {b},
                            ![e].pc = IF desk[e].todo = {b} THEN "idle" ELSE "walking"]
    /\ UNCHANGED <<service, request, exit, operations>>

\* assertCanExecute: the ceiling, which must be confirmed.
ReadProfile(e) ==
    /\ PassAt(e, "profile")
    /\ IF profile.ceiling > 0 /\ profile.confirmed
       THEN desk' = [desk EXCEPT ![e].pc = "exposure", ![e].ceiling = profile.ceiling]
       ELSE NextBot(e)
    /\ UNCHANGED <<service, request, exit, operations>>

CostOf(S) == MapThenSumSet(LAMBDA b : books[b].cost, S)
RestingOf(S) == MapThenSumSet(LAMBDA b : books[b].resting, S)

\* Promise.all: the open positions and the resting buys, in either order.
ReadPositions(e) ==
    /\ PassAt(e, "exposure")
    /\ desk[e].open < 0
    /\ desk' = [desk EXCEPT ![e].open = CostOf(Bots)]
    /\ UNCHANGED <<service, request, exit, operations>>

ReadPending(e) ==
    /\ PassAt(e, "exposure")
    /\ desk[e].pending < 0
    /\ desk' = [desk EXCEPT ![e].pending = RestingOf(Bots)]
    /\ UNCHANGED <<service, request, exit, operations>>

\* The ceiling; the other limits, the price and the billing gate may refuse too.
Admit(e) ==
    /\ PassAt(e, "exposure")
    /\ desk[e].open >= 0 /\ desk[e].pending >= 0
    /\ desk[e].open + desk[e].pending + 1 <= desk[e].ceiling
    /\ PassGoes(e, "begin")
    /\ UNCHANGED <<service, request, exit, operations>>

RefuseEntry(e) ==
    /\ PassAt(e, "exposure")
    /\ desk[e].open >= 0 /\ desk[e].pending >= 0
    /\ NextBot(e)
    /\ UNCHANGED <<service, request, exit, operations>>

\* executeMarketOrder: a bot that is STOPPED buys nothing, a paused one does.
Begin(e) ==
    /\ PassAt(e, "begin")
    /\ IF bot[desk[e].bot] # "STOPPED" THEN PassGoes(e, "placing") ELSE NextBot(e)
    /\ UNCHANGED <<service, request, exit, operations>>

\* The order is placed and recorded: it rests, or is filled at once.
PlaceEntry(e) ==
    /\ PassAt(e, "placing")
    /\ \/ books' = [books EXCEPT ![desk[e].bot].resting = 1]
       \/ books' = [books EXCEPT ![desk[e].bot].cost = @ + 1]
    /\ NextBot(e)
    /\ UNCHANGED <<subscription, bot, profile, request, exit, operations>>

\* The exchange refuses the order.
EntryFails(e) ==
    /\ PassAt(e, "placing")
    /\ NextBot(e)
    /\ UNCHANGED <<service, request, exit, operations>>

\* The take profit of a bot; exits are not checked.
TakeProfit(e, b) ==
    /\ PassAt(e, "walking")
    /\ b \in desk[e].todo
    /\ bot[b] # "STOPPED"
    /\ books[b].cost > 0 /\ books[b].resting = 0
    /\ books' = [books EXCEPT ![b].cost = 0]
    /\ desk' = [desk EXCEPT ![e].todo = @ \ {b},
                            ![e].pc = IF desk[e].todo = {b} THEN "idle" ELSE "walking"]
    /\ UNCHANGED <<subscription, bot, profile, request, exit, operations>>

\* The order sync books a resting buy that was filled, or ends it unfilled.
SyncResting(b) ==
    /\ books[b].resting > 0
    /\ \E filled \in {0, books[b].resting} :
          books' = [books EXCEPT ![b] = [cost |-> @.cost + filled, resting |-> 0]]
    /\ UNCHANGED <<subscription, bot, profile, request, desk, exit, operations>>

----------------------------------------------------------------------------
ExitAt(pc) == exit.pc = pc

\* exitUserPositions: the bots that run are paused ...
ExitPause(q) ==
    /\ StartsOperation
    /\ RequestAt(q, "idle")
    /\ ExitAt("idle")
    /\ request' = [request EXCEPT ![q].pc = "exiting"]
    /\ bot' = [b \in Bots |-> IF bot[b] = "RUNNING" THEN "PAUSED" ELSE bot[b]]
    /\ exit' = [NoExit EXCEPT !.pc = "listing"]
    /\ UNCHANGED <<subscription, profile, books, desk>>

\* ... the resting orders are listed ...
ExitListOrders ==
    /\ ExitAt("listing")
    /\ exit' = [exit EXCEPT !.pc = "cancelling", !.todo = {b \in Bots : books[b].resting > 0}]
    /\ UNCHANGED <<service, request, desk, operations>>

\* ... each is cancelled and reconciled (or that fails) ...
ExitCancel(b) ==
    /\ ExitAt("cancelling")
    /\ b \in exit.todo
    /\ exit' = [exit EXCEPT !.todo = @ \ {b}]
    /\ \/ \E filled \in 0..books[b].resting :
             books' = [books EXCEPT ![b] = [cost |-> @.cost + filled, resting |-> 0]]
       \/ UNCHANGED books
    /\ UNCHANGED <<subscription, bot, profile, request, desk, operations>>

\* ... the open positions are listed ...
ExitListPositions ==
    /\ ExitAt("cancelling")
    /\ exit.todo = {}
    /\ exit' = [exit EXCEPT !.pc = "closing", !.todo = {b \in Bots : books[b].cost > 0}]
    /\ UNCHANGED <<service, request, desk, operations>>

\* closePosition refuses, although the position is open and nothing rests.
CloseRefused(b) == books[b].cost > 0 /\ books[b].resting = 0 /\ bot[b] # "PAUSED"

\* ... each is sold, when its bot is PAUSED and no order of it rests ...
ExitClose(b) ==
    /\ ExitAt("closing")
    /\ b \in exit.todo
    /\ exit' = [exit EXCEPT !.todo = @ \ {b},
                            !.refused = IF CloseRefused(b) THEN @ \cup {b} ELSE @]
    /\ \/ /\ books[b].resting = 0 /\ bot[b] = "PAUSED"
          /\ books' = [books EXCEPT ![b].cost = 0]
       \/ UNCHANGED books
    /\ UNCHANGED <<subscription, bot, profile, request, desk, operations>>

\* ... and all bots are stopped.
ExitStop(q) ==
    /\ RequestAt(q, "exiting")
    /\ ExitAt("closing")
    /\ exit.todo = {}
    /\ Answer(q)
    /\ bot' = [b \in Bots |-> "STOPPED"]
    /\ exit' = NoExit
    /\ UNCHANGED <<subscription, profile, books, desk, operations>>

\* The exit ends in an exception, or its process dies: the bots stay paused.
ExitAborts(q) ==
    /\ RequestAt(q, "exiting")
    /\ Answer(q)
    /\ exit' = NoExit
    /\ UNCHANGED <<service, desk, operations>>

RequestStep(q) ==
    \/ ConfirmRead(q) \/ ConfirmWrite(q)
    \/ \E p \in Packages : SubscribeRead(q, p)
    \/ SubscribeCommit(q)
    \/ \E i \in Subscriptions : SetBotStatusRead(q, i) \/ CancelRead(q, i)
    \/ SetBotStatusWrite(q) \/ CancelCount(q) \/ CancelCommit(q) \/ RequestFails(q)

PassStep(e) ==
    \/ StartPass(e)
    \/ \E b \in Bots : WantEntry(e, b) \/ PassBy(e, b) \/ TakeProfit(e, b)
    \/ ReadProfile(e) \/ ReadPositions(e) \/ ReadPending(e) \/ Admit(e) \/ RefuseEntry(e)
    \/ Begin(e) \/ PlaceEntry(e) \/ EntryFails(e)

ExitStep ==
    \/ \E q \in DeskRequests : ExitPause(q) \/ ExitStop(q) \/ ExitAborts(q)
    \/ ExitListOrders \/ ExitListPositions
    \/ \E b \in Bots : ExitCancel(b) \/ ExitClose(b)

DeskNext == \/ SetCapitalCeiling
            \/ \E b \in OwnBots : SetOwnStatus(b)
            \/ \E q \in DeskRequests : RequestStep(q)
            \/ \E e \in Passes : PassStep(e)
            \/ \E b \in Bots : SyncResting(b)
            \/ ExitStep

DeskSpec == DeskInit /\ [][DeskNext]_deskVars
----------------------------------------------------------------------------
BotStatuses == {"RUNNING", "PAUSED", "STOPPED"}
RequestPcs == {"idle", "confirming", "subscribing", "setting", "counting", "cancelling", "exiting"}
PassPcs == {"idle", "walking", "profile", "exposure", "begin", "placing"}

\* The type invariant of the rows behind the LIVE desk of a user.
DeskTypeOK ==
    /\ subscription \in [Subscriptions -> [package : Packages \cup {NoPackage},
                                           status : {"none", "ACTIVE", "CANCELLED"}]]
    /\ bot \in [Bots -> BotStatuses]
    /\ profile.ceiling \in Nat /\ profile.agreed \subseteq Nat \ {0}
    /\ \A b \in Bots : books[b].cost \in Nat /\ books[b].resting \in 0..1
    /\ \A q \in DeskRequests : request[q].pc \in RequestPcs /\ request[q].of \in Bots \cup {NoBot}
    /\ \A e \in Passes : desk[e].pc \in PassPcs /\ desk[e].todo \subseteq Bots
    /\ exit.todo \subseteq Bots /\ exit.refused \subseteq Bots

\* A user has one active subscription to a package at most, also when two of his
\* requests subscribe at once (packages.service.ts:117, a serializable transaction).
OneActivePerPackage ==
    \A i, j \in ActiveOnes : subscription[i].package = subscription[j].package => i = j

\* "The user-wide LIVE capital ceiling must cover every active package"
\* (packages.service.ts:130), unless the user has set one himself since.
CeilingCoversActive == profile.own \/ AmountOf(ActiveOnes) <= profile.ceiling

\* No entry goes on under a ceiling that the user has never confirmed, although
\* packages raise the ceiling while entries are being checked.
EntriesUnderConfirmedCeiling ==
    \A e \in Passes : desk[e].pc \in {"exposure", "begin", "placing"} => desk[e].ceiling \in profile.agreed

\* The emergency exit closes every open position it finds, but for failures of
\* the exchange: no rule of the platform is in its way.
ExitNeverBlocked == exit.refused = {}
=============================================================================
