---------------------------- MODULE PriceStreams ----------------------------
(***************************************************************************)
(* The live prices of one symbol: a browser's shared feed subscribes to the *)
(* stream and polls its last price, the backend keeps one Binance ticker    *)
(* socket for everybody and reconnects it.                                  *)
(***************************************************************************)
EXTENDS Naturals

CONSTANTS
    MaxStreams,     \* bound: StreamStates made
    MaxFeeds,       \* bound: FeedGroups made
    MaxListeners,   \* bound: widgets that listen at once
    MaxCuts         \* bound: closed sockets, unsubscriptions and restarts

ASSUME StreamsAssumption == MaxStreams \in Nat \ {0} /\ MaxFeeds \in Nat \ {0}

VARIABLES
    streams,   \* every StreamState the process has made
    entry,     \* streams: the one in the Map, 0 when there is none
    price,     \* latestPrices has a price
    feeds,     \* every FeedGroup the browser has made
    current,   \* groups: the one in the Map, 0 when there is none
    cuts,      \* sockets closed, unsubscriptions and restarts so far
    severed    \* the stream was ended without the browser's knowledge

streamVars == <<streams, entry, price, feeds, current, cuts, severed>>

NoStream == [socket |-> "none", timer |-> FALSE, stopped |-> TRUE]
NoFeed == [listeners |-> 0, subscribed |-> FALSE, timer |-> "unset", poll |-> "none", got |-> FALSE]

-----------------------------------------------------------------------------
(* BinanceWebsocketMarketDataService *)

Connected(st) == [st EXCEPT !.socket = "connecting", !.timer = FALSE]

\* subscribe: an entry that is not stopped is shared.
MayShare == entry # 0 /\ ~streams[entry].stopped

FirstUnused(rows, unused, most) ==
    CHOOSE i \in 1..most : rows[i] = unused /\ \A j \in 1..(i - 1) : rows[j] # unused

\* The effect of a subscribe request that reaches the backend.
StreamSubscribed ==
    IF MayShare THEN UNCHANGED <<streams, entry>>
    ELSE /\ streams[MaxStreams] = NoStream
         /\ entry' = FirstUnused(streams, NoStream, MaxStreams)
         /\ streams' = [streams EXCEPT ![entry'] = [socket |-> "connecting", timer |-> FALSE, stopped |-> FALSE]]

Cut == cuts < MaxCuts /\ cuts' = cuts + 1

StreamStopped(st) == [socket |-> IF st.socket = "none" THEN "gone" ELSE "closing", timer |-> FALSE, stopped |-> TRUE]

\* unsubscribe ends the stream of every user.
Unsubscribe ==
    /\ entry # 0 /\ Cut
    /\ streams' = [streams EXCEPT ![entry] = StreamStopped(@)]
    /\ entry' = 0 /\ severed' = TRUE
    /\ UNCHANGED <<price, feeds, current>>

\* A restart; nothing of the service is stored.
RestartBackend ==
    /\ entry # 0 /\ Cut
    /\ streams' = [s \in DOMAIN streams |->
                      IF streams[s] = NoStream THEN NoStream ELSE [NoStream EXCEPT !.socket = "gone"]]
    /\ entry' = 0 /\ price' = FALSE /\ severed' = TRUE
    /\ UNCHANGED <<feeds, current>>

SocketOpens(s) ==
    /\ streams[s].socket = "connecting"
    /\ streams' = [streams EXCEPT ![s].socket = "open"]
    /\ UNCHANGED <<entry, price, feeds, current, cuts, severed>>

\* A message, of a socket that may be closing by now.
TickerMessage(s) ==
    /\ streams[s].socket \in {"open", "closing"} /\ ~price
    /\ price' = TRUE
    /\ UNCHANGED <<streams, entry, feeds, current, cuts, severed>>

Reconnects(st) == ~st.stopped

\* close, after an error or not.
SocketCloses(s) ==
    /\ streams[s].socket \in {"connecting", "open", "closing"}
    /\ IF streams[s].socket = "closing" THEN UNCHANGED cuts ELSE Cut
    /\ streams' = [streams EXCEPT ![s].socket = IF @ = "closing" THEN "gone" ELSE "none",
                                  ![s].timer = Reconnects(streams[s])]
    /\ UNCHANGED <<entry, price, feeds, current, severed>>

ReconnectTimer(s) ==
    /\ streams[s].timer
    /\ streams' = [streams EXCEPT ![s] = Connected(@)]
    /\ UNCHANGED <<entry, price, feeds, current, cuts, severed>>

-----------------------------------------------------------------------------
(* sharedMarketPriceFeed *)

\* poll: the subscription first, unless the group has one.
Polling(g) == [g EXCEPT !.poll = IF g.subscribed THEN "asking" ELSE "subscribing"]

MustPoll(g) == g.poll = "none" /\ g.timer = "unset"

\* subscribeSharedMarketPrice
Listen ==
    LET f == IF current = 0 THEN FirstUnused(feeds, NoFeed, MaxFeeds) ELSE current
        g == [feeds[f] EXCEPT !.listeners = @ + 1]
    IN /\ current = 0 => feeds[MaxFeeds] = NoFeed
       /\ current # 0 => feeds[current].listeners < MaxListeners
       /\ current' = f
       /\ feeds' = [feeds EXCEPT ![f] = IF MustPoll(g) THEN Polling(g) ELSE g]
       /\ UNCHANGED <<streams, entry, price, cuts, severed>>

\* The function it returns; the last widget takes the group with it, and a poll
\* of that group that is still under way comes back to nobody.
Unlisten ==
    LET last == feeds[current].listeners = 1 IN
    /\ current # 0
    /\ feeds' = [feeds EXCEPT ![current].listeners = @ - 1,
                              ![current].timer = IF last THEN "gone" ELSE @]
    /\ current' = IF last THEN 0 ELSE current
    /\ UNCHANGED <<streams, entry, price, cuts, severed>>

\* The handle of a timer that fired stays in group.timer.
FeedTimer(f) ==
    /\ feeds[f].timer = "armed"
    /\ feeds' = [feeds EXCEPT ![f] = Polling([@ EXCEPT !.timer = "fired"])]
    /\ UNCHANGED <<streams, entry, price, current, cuts, severed>>

\* ensureSubscribed: the request may fail before or after it reaches the backend.
SubscribeEnds(f, reaches, answers) ==
    /\ feeds[f].poll = "subscribing" /\ (answers => reaches)
    /\ IF reaches THEN StreamSubscribed ELSE UNCHANGED <<streams, entry>>
    /\ feeds' = [feeds EXCEPT ![f].subscribed = answers, ![f].poll = "asking"]
    /\ severed' = (severed /\ ~answers)
    /\ UNCHANGED <<price, current, cuts>>

\* The prices, or the failure that tells the widgets there is none.
PricesAnswered(f, ok) ==
    /\ feeds[f].poll = "asking"
    /\ feeds' = [feeds EXCEPT ![f].poll = "none", ![f].got = ok /\ price,
                              ![f].timer = IF feeds[f].listeners > 0 THEN "armed" ELSE @]
    /\ UNCHANGED <<streams, entry, price, current, cuts, severed>>

-----------------------------------------------------------------------------
StreamsInit ==
    /\ streams = [s \in 1..MaxStreams |-> NoStream]
    /\ entry = 0 /\ price = FALSE
    /\ feeds = [f \in 1..MaxFeeds |-> NoFeed]
    /\ current = 0 /\ cuts = 0 /\ severed = FALSE

StreamsNext ==
    \/ \E s \in 1..MaxStreams :
           SocketOpens(s) \/ TickerMessage(s) \/ SocketCloses(s) \/ ReconnectTimer(s)
    \/ \E f \in 1..MaxFeeds :
           \/ FeedTimer(f)
           \/ \E reaches, answers \in BOOLEAN : SubscribeEnds(f, reaches, answers)
           \/ \E ok \in BOOLEAN : PricesAnswered(f, ok)
    \/ Unsubscribe \/ RestartBackend \/ Listen \/ Unlisten

StreamsSpec == StreamsInit /\ [][StreamsNext]_streamVars

-----------------------------------------------------------------------------
\* Prices keep coming: the stream in the Map has a socket or a timer that will open
\* one, and not both; a stream outside the Map opens none; a group with widgets
\* polls or is about to; and a group that counts itself as subscribed has a stream,
\* unless somebody unsubscribed or the backend restarted behind its back.
StreamsStayAlive ==
    /\ \A s \in 1..MaxStreams :
           /\ s = entry => /\ ~streams[s].stopped
                           /\ streams[s].timer <=> streams[s].socket = "none"
           /\ s # entry => ~streams[s].timer /\ streams[s].socket \in {"none", "closing", "gone"}
    /\ current # 0 => (feeds[current].poll # "none" \/ feeds[current].timer = "armed")
    /\ current # 0 /\ feeds[current].subscribed /\ ~severed => entry # 0
-----------------------------------------------------------------------------
(* Types *)

Sockets == {"none", "connecting", "open", "closing", "gone"}
StreamRow == [socket : Sockets, timer : BOOLEAN, stopped : BOOLEAN]
FeedRow == [listeners : Nat, subscribed : BOOLEAN, timer : {"unset", "armed", "fired", "gone"},
            poll : {"none", "subscribing", "asking"}, got : BOOLEAN]

StreamsTypeOK ==
    /\ streams \in [1..MaxStreams -> StreamRow] /\ entry \in 0..MaxStreams
    /\ feeds \in [1..MaxFeeds -> FeedRow] /\ current \in 0..MaxFeeds
    /\ price \in BOOLEAN /\ severed \in BOOLEAN
=============================================================================
