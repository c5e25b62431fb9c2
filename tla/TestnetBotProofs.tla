--------------------------- MODULE TestnetBotProofs ---------------------------
(***************************************************************************)
(* Proofs about a Testnet bot, for any number of instances, of keys and of   *)
(* passes, and whatever crashes and lost answers there are.                  *)
(***************************************************************************)
EXTENDS TestnetBot, TLAPS

-----------------------------------------------------------------------------
(* Types.  What plays no part in the proofs (quantities, views, links to a   *)
(* position) is left to any set S.                                           *)

RunnerPcs == {"idle", "loaded", "locked", "deciding", "begin", "claim", "insert", "place",
              "commit", "failing", "unlock"}
RetrierPcs == {"idle", "listed", "begin", "claimed", "lookup", "place", "commit", "failing", "remark"}
KeyedPcs == ExecutorPcs \ {"idle", "loaded", "locked", "deciding", "unlock"}
UserPcs == {"idle", "retrying", "cancelling", "stopping", "cancelOrders"}
OrderStatuses == {"NONE", "PENDING", "PARTIALLY_FILLED", "FILLED", "CANCELLED", "REJECTED", "FAILED"}

Answers == [status : ExchangeStatuses, executed : Nat]
ActionRows(S) == [status : ActionStatuses, attempts : Nat, due : BOOLEAN, position : S, quantity : S]
ExchangeRows(S) == [status : ExchangeStatuses, executed : Nat, wanted : S, placed : Nat]
OrderRows(S) == [status : OrderStatuses, filled : Nat, accounted : Nat, position : S, leg : S]
ExecutorRows(S) == [pc : ExecutorPcs, key : Keys \cup {NoKey}, quantity : S, view : S,
                    answer : Answers, retryable : BOOLEAN]
SyncerRows(S) == [pc : SyncerPcs, key : Keys \cup {NoKey}, row : OrderRows(S), view : S, leg : S,
                  answer : Answers]
UserRows == [pc : UserPcs, key : Keys \cup {NoKey}, cancel : SUBSET Keys, mark : SUBSET Keys]

ActionTypes == \E S : action \in [Keys -> ActionRows(S)]
ExchangeTypes == \E S : exchange \in [Keys -> ExchangeRows(S)]
OrderTypes == \E S : order \in [Keys -> OrderRows(S)]
ExecutorTypes ==
    /\ \E S : executor \in [Executors -> ExecutorRows(S)]
    /\ \A e \in Runners : executor[e].pc \in RunnerPcs
    /\ \A e \in Retriers : executor[e].pc \in RetrierPcs
    /\ \A e \in Executors : executor[e].pc \in KeyedPcs => executor[e].key \in Keys
SyncerTypes == /\ \E S : syncer \in [AllSyncers -> SyncerRows(S)]
               /\ \A s \in AllSyncers : syncer[s].pc # "idle" => syncer[s].key \in Keys
UserTypes == /\ user \in [Users -> UserRows]
             /\ \A u \in Users : user[u].pc \in {"retrying", "cancelling"} => user[u].key \in Keys

BotTypes == /\ ActionTypes /\ ExchangeTypes /\ OrderTypes
            /\ ExecutorTypes /\ SyncerTypes /\ UserTypes

LEMMA RowsGrow ==
    ASSUME NEW S, NEW T
    PROVE  /\ ActionRows(S) \subseteq ActionRows(S \cup T)
           /\ ExchangeRows(S) \subseteq ExchangeRows(S \cup T)
           /\ OrderRows(S) \subseteq OrderRows(S \cup T)
           /\ ExecutorRows(S) \subseteq ExecutorRows(S \cup T)
           /\ SyncerRows(S) \subseteq SyncerRows(S \cup T)
<1>1. /\ ActionRows(S) \subseteq ActionRows(S \cup T)
      /\ ExchangeRows(S) \subseteq ExchangeRows(S \cup T)
      /\ OrderRows(S) \subseteq OrderRows(S \cup T)
      /\ ExecutorRows(S) \subseteq ExecutorRows(S \cup T)
  BY DEF ActionRows, ExchangeRows, OrderRows, ExecutorRows
<1>2. SyncerRows(S) \subseteq SyncerRows(S \cup T)
  BY <1>1 DEF SyncerRows
<1> QED BY <1>1, <1>2

LEMMA KeysAreNoKey == NoKey \notin Keys
BY DEF NoKey, Keys, EntryKeys, ExitKeys

\* One executor gets a new row; the others keep theirs.
OnlyExecutor(e) == \A d \in Executors : d # e => executor'[d] = executor[d]

LEMMA ExecutorRowKeeps ==
    ASSUME ExecutorTypes, NEW e \in Executors, NEW T, NEW new \in ExecutorRows(T),
           executor' = [executor EXCEPT ![e] = new],
           e \in Runners => new.pc \in RunnerPcs, e \in Retriers => new.pc \in RetrierPcs,
           new.pc \in KeyedPcs => new.key \in Keys
    PROVE  ExecutorTypes' /\ OnlyExecutor(e) /\ executor'[e] = new
<1>1. PICK S : executor \in [Executors -> ExecutorRows(S)]
  BY DEF ExecutorTypes
<1>2. ExecutorRows(S) \subseteq ExecutorRows(S \cup T) /\ ExecutorRows(T) \subseteq ExecutorRows(T \cup S)
  BY RowsGrow
<1>3. T \cup S = S \cup T
  OBVIOUS
<1>4. executor' \in [Executors -> ExecutorRows(S \cup T)]
  BY <1>1, <1>2, <1>3
<1>5. OnlyExecutor(e) /\ executor'[e] = new
  BY <1>1 DEF OnlyExecutor
<1> QED BY <1>4, <1>5 DEF ExecutorTypes, OnlyExecutor, Executors

LEMMA RestsOK ==
    ASSUME ExecutorTypes, NEW e \in Executors, Rest(e)
    PROVE  ExecutorTypes' /\ OnlyExecutor(e) /\ executor'[e] = Resting /\ Resting.pc = "idle"
<1>1. Resting \in ExecutorRows({NoView, 0}) /\ Resting.pc = "idle"
  BY DEF Resting, ExecutorRows, ExecutorPcs, Answers, NoReport, ExchangeStatuses
<1> QED BY <1>1, ExecutorRowKeeps DEF Rest, RunnerPcs, RetrierPcs, KeyedPcs

\* An executor goes on to another place with the same key.
Moves(e, pc) == /\ OnlyExecutor(e)
                /\ executor'[e].pc = pc /\ executor'[e].key = executor[e].key

PcFits(e, pc) == pc \in ExecutorPcs /\ (e \in Runners => pc \in RunnerPcs) /\ (e \in Retriers => pc \in RetrierPcs)

LEMMA GoMoves ==
    ASSUME ExecutorTypes, NEW e \in Executors, NEW pc, PcFits(e, pc), Go(e, pc),
           pc \in KeyedPcs => executor[e].key \in Keys
    PROVE  ExecutorTypes' /\ Moves(e, pc) /\ executor'[e].answer = executor[e].answer
<1>1. PICK S : executor \in [Executors -> ExecutorRows(S)]
  BY DEF ExecutorTypes
<1> DEFINE new == [executor[e] EXCEPT !.pc = pc]
<1>2. executor[e] \in ExecutorRows(S)
  BY <1>1
<1>3. new \in ExecutorRows(S) /\ new.pc = pc /\ new.key = executor[e].key /\ new.answer = executor[e].answer
  BY <1>2 DEF ExecutorRows, PcFits
<1>4. executor' = [executor EXCEPT ![e] = new]
  BY DEF Go
<1> HIDE DEF new
<1>5. ExecutorTypes' /\ OnlyExecutor(e) /\ executor'[e] = new
  BY <1>3, <1>4, ExecutorRowKeeps DEF PcFits
<1> QED BY <1>3, <1>5 DEF Moves

LEMMA FailMoves ==
    ASSUME ExecutorTypes, NEW e \in Executors, executor[e].key \in Keys, NEW r \in BOOLEAN, Fail(e, r)
    PROVE  ExecutorTypes' /\ Moves(e, "failing")
<1>1. PICK S : executor \in [Executors -> ExecutorRows(S)]
  BY DEF ExecutorTypes
<1> DEFINE new == [executor[e] EXCEPT !.pc = "failing", !.retryable = r]
<1>2. executor[e] \in ExecutorRows(S)
  BY <1>1
<1>3. new \in ExecutorRows(S) /\ new.pc = "failing" /\ new.key = executor[e].key
  BY <1>2 DEF ExecutorRows, ExecutorPcs
<1>4. executor' = [executor EXCEPT ![e] = new]
  BY DEF Fail
<1> HIDE DEF new
<1>5. ExecutorTypes' /\ OnlyExecutor(e) /\ executor'[e] = new
  BY <1>3, <1>4, ExecutorRowKeeps DEF RunnerPcs, RetrierPcs
<1> QED BY <1>3, <1>5 DEF Moves

LEMMA ThrowMoves ==
    ASSUME ExecutorTypes, NEW e \in Executors, executor[e].key \in Keys, NEW r \in BOOLEAN, Throw(e, r)
    PROVE  /\ ExecutorTypes' /\ Moves(e, IF e \in Runners THEN "unlock" ELSE "remark")
           /\ e \notin Runners => executor'[e].retryable = r
<1>1. CASE e \in Runners
  <2>1. PcFits(e, "unlock") /\ Go(e, "unlock")
    BY <1>1, OrderExecutionAssumption DEF PcFits, Throw, RunnerPcs, ExecutorPcs
  <2> QED BY <2>1, <1>1, GoMoves
<1>2. CASE e \notin Runners
  <2>1. PICK S : executor \in [Executors -> ExecutorRows(S)]
    BY DEF ExecutorTypes
  <2> DEFINE new == [executor[e] EXCEPT !.pc = "remark", !.retryable = r]
  <2>2. executor[e] \in ExecutorRows(S)
    BY <2>1
  <2>3. new \in ExecutorRows(S) /\ new.pc = "remark" /\ new.key = executor[e].key /\ new.retryable = r
    BY <2>2 DEF ExecutorRows, ExecutorPcs
  <2>4. executor' = [executor EXCEPT ![e] = new]
    BY <1>2 DEF Throw
  <2> HIDE DEF new
  <2>5. ExecutorTypes' /\ OnlyExecutor(e) /\ executor'[e] = new
    BY <1>2, <2>3, <2>4, ExecutorRowKeeps DEF RetrierPcs
  <2> QED BY <1>2, <2>3, <2>5 DEF Moves
<1> QED BY <1>1, <1>2

\* The services' tables stay as they are.
TablesStay == UNCHANGED <<action, exchange, order>>

KeyedHasKey(e) == executor[e].pc \in KeyedPcs => executor[e].key \in Keys

LEMMA KeyedHaveKeys ==
    ASSUME ExecutorTypes, NEW e \in Executors, NEW pc \in KeyedPcs, At(e, pc)
    PROVE  executor[e].key \in Keys
BY DEF ExecutorTypes, At

\* A tick up to the order it wants placed.
LEMMA TickMoves ==
    ASSUME ExecutorTypes, NEW e \in Runners, TickStep(e)
    PROVE  /\ ExecutorTypes' /\ OnlyExecutor(e)
           /\ executor'[e].pc \in {"idle", "loaded", "locked", "deciding", "begin", "unlock"}
<1>1. e \in Executors /\ \A pc \in RunnerPcs : PcFits(e, pc)
  BY OrderExecutionAssumption DEF Executors, PcFits, RunnerPcs, ExecutorPcs
<1>2. PICK S : executor \in [Executors -> ExecutorRows(S)]
  BY DEF ExecutorTypes
<1>3. executor[e] \in ExecutorRows(S)
  BY <1>1, <1>2
<1>4. CASE LoadStrategies(e)
  <2>1. PICK v : executor' = [executor EXCEPT ![e] = [executor[e] EXCEPT !.pc = "loaded", !.view = v]]
    BY <1>4 DEF LoadStrategies
  <2> DEFINE new == [executor[e] EXCEPT !.pc = "loaded", !.view = v]
  <2>2. new \in ExecutorRows(S \cup {v}) /\ new.pc = "loaded"
    BY <1>3 DEF ExecutorRows, ExecutorPcs
  <2> HIDE DEF new
  <2>3. executor' = [executor EXCEPT ![e] = new]
    BY <2>1 DEF new
  <2> QED BY <1>1, <2>2, <2>3, ExecutorRowKeeps, OrderExecutionAssumption DEF RunnerPcs, KeyedPcs
<1>5. CASE TakeTickLock(e)
  <2>1. CASE Go(e, "locked")
    BY <1>1, <2>1, GoMoves DEF RunnerPcs, KeyedPcs, Moves
  <2>2. CASE Rest(e)
    BY <1>1, <2>2, RestsOK
  <2> QED BY <1>5, <2>1, <2>2 DEF TakeTickLock
<1>6. CASE CheckPending(e)
  <2>1. Go(e, "unlock") \/ Go(e, "deciding")
    BY <1>6 DEF CheckPending
  <2> QED BY <1>1, <2>1, GoMoves DEF RunnerPcs, KeyedPcs, Moves
<1>7. ASSUME NEW k, NEW q, Execute(e, k, q)
      PROVE  ExecutorTypes' /\ OnlyExecutor(e) /\ executor'[e].pc = "begin"
  <2> DEFINE new == [executor[e] EXCEPT !.pc = "begin", !.key = k, !.quantity = q]
  <2>1. executor' = [executor EXCEPT ![e] = new] /\ k \in Keys
    BY <1>7 DEF Execute
  <2>2. new \in ExecutorRows(S \cup {q}) /\ new.pc = "begin" /\ new.key = k
    BY <1>3, <2>1 DEF ExecutorRows, ExecutorPcs
  <2> HIDE DEF new
  <2> QED BY <1>1, <2>1, <2>2, ExecutorRowKeeps, OrderExecutionAssumption DEF RunnerPcs
<1>8. CASE DecideInitialEntry(e) \/ DecideLegExit(e) \/ DecideParentExit(e) \/ DecideNextEntry(e)
  <2>1. \E k, q : Execute(e, k, q)
    BY <1>8 DEF DecideInitialEntry, DecideLegExit, DecideParentExit, DecideNextEntry
  <2> QED BY <1>7, <2>1
<1>9. CASE Hold(e)
  BY <1>1, <1>9, GoMoves DEF Hold, RunnerPcs, KeyedPcs, Moves
<1>10. CASE Unlock(e)
  BY <1>1, <1>10, RestsOK DEF Unlock
<1> QED BY <1>4, <1>5, <1>6, <1>8, <1>9, <1>10 DEF TickStep

LEMMA BeginMoves ==
    ASSUME ExecutorTypes, NEW e \in Executors, Begin(e)
    PROVE  ExecutorTypes' /\ Moves(e, IF e \in Runners THEN "claim" ELSE "claimed")
<1>1. PICK S : executor \in [Executors -> ExecutorRows(S)]
  BY DEF ExecutorTypes
<1>2. PICK v : executor' = [executor EXCEPT ![e] = [executor[e] EXCEPT !.view = v,
                               !.pc = IF e \in Runners THEN "claim" ELSE "claimed"]]
  BY DEF Begin
<1> DEFINE pc == IF e \in Runners THEN "claim" ELSE "claimed"
           new == [executor[e] EXCEPT !.view = v, !.pc = pc]
<1>3. executor[e] \in ExecutorRows(S) /\ pc \in ExecutorPcs
  BY <1>1 DEF ExecutorPcs
<1>4. new \in ExecutorRows(S \cup {v}) /\ new.pc = pc /\ new.key = executor[e].key
  <2> HIDE DEF pc
  <2> QED BY <1>3 DEF ExecutorRows
<1>5. executor[e].key \in Keys
  BY KeyedHaveKeys DEF Begin, KeyedPcs, ExecutorPcs
<1>6. executor' = [executor EXCEPT ![e] = new]
  BY <1>2
<1> HIDE DEF new
<1>7. ExecutorTypes' /\ OnlyExecutor(e) /\ executor'[e] = new
  BY <1>4, <1>5, <1>6, ExecutorRowKeeps, OrderExecutionAssumption DEF RunnerPcs, RetrierPcs
<1> QED BY <1>4, <1>7 DEF Moves

LEMMA RefusedMoves ==
    ASSUME ExecutorTypes, NEW e \in Executors, BeginRefused(e)
    PROVE  /\ ExecutorTypes' /\ Moves(e, IF e \in Runners THEN "unlock" ELSE "remark")
           /\ e \notin Runners => executor'[e].retryable = FALSE
<1>1. executor[e].key \in Keys /\ Throw(e, FALSE)
  BY KeyedHaveKeys DEF BeginRefused, KeyedPcs, ExecutorPcs
<1> QED BY <1>1, ThrowMoves

\* Only ticks look for a free claim, and only retries are told to look an order up.
LEMMA WhoWorksWhere ==
    ASSUME ExecutorTypes, NEW e \in Executors
    PROVE  /\ At(e, "claim") \/ At(e, "insert") => e \in Runners
           /\ At(e, "claimed") \/ At(e, "lookup") \/ At(e, "remark") \/ At(e, "listed") => e \in Retriers
BY OrderExecutionAssumption DEF ExecutorTypes, At, Executors, RunnerPcs, RetrierPcs

LEMMA ClaimCheckMoves ==
    ASSUME ExecutorTypes, NEW e \in Executors, ClaimCheck(e)
    PROVE  ExecutorTypes' /\ (Moves(e, "unlock") \/ Moves(e, "insert")) /\ e \in Runners
<1>1. executor[e].key \in Keys /\ e \in Runners
  BY KeyedHaveKeys, WhoWorksWhere DEF ClaimCheck, KeyedPcs, ExecutorPcs
<1>2. PcFits(e, "unlock") /\ PcFits(e, "insert")
  BY <1>1, OrderExecutionAssumption DEF PcFits, RunnerPcs, ExecutorPcs
<1>3. Go(e, "unlock") \/ Go(e, "insert")
  BY DEF ClaimCheck
<1> QED BY <1>1, <1>2, <1>3, GoMoves

LEMMA ClaimInsertMoves ==
    ASSUME ExecutorTypes, NEW e \in Executors, ClaimInsert(e)
    PROVE  /\ ExecutorTypes' /\ e \in Runners /\ executor[e].key \in Keys
           /\ \/ Moves(e, "unlock") /\ UNCHANGED action
              \/ /\ Moves(e, "place") /\ ~Existing(executor[e].key)
                 /\ Create(executor[e].key, executor[e].view.cycle, executor[e].quantity)
<1>1. executor[e].key \in Keys /\ e \in Runners
  BY KeyedHaveKeys, WhoWorksWhere DEF ClaimInsert, KeyedPcs, ExecutorPcs
<1>2. PcFits(e, "unlock") /\ PcFits(e, "place")
  BY <1>1, OrderExecutionAssumption DEF PcFits, RunnerPcs, ExecutorPcs
<1>3. CASE Existing(executor[e].key)
  BY <1>1, <1>2, <1>3, GoMoves DEF ClaimInsert
<1>4. CASE ~Existing(executor[e].key)
  BY <1>1, <1>2, <1>4, GoMoves DEF ClaimInsert
<1> QED BY <1>3, <1>4

LEMMA ClaimedMoves ==
    ASSUME ExecutorTypes, NEW e \in Executors, GetClaimedRetry(e)
    PROVE  /\ ExecutorTypes' /\ e \in Retriers
           /\ IF action[executor[e].key].status = "PENDING" THEN Moves(e, "lookup")
              ELSE Moves(e, "remark") /\ executor'[e].retryable = FALSE
<1>1. executor[e].key \in Keys /\ e \in Retriers /\ e \notin Runners
  BY KeyedHaveKeys, WhoWorksWhere, OrderExecutionAssumption DEF GetClaimedRetry, KeyedPcs, ExecutorPcs
<1>2. PcFits(e, "lookup")
  BY <1>1, OrderExecutionAssumption DEF PcFits, RetrierPcs, ExecutorPcs
<1>3. CASE action[executor[e].key].status = "PENDING"
  BY <1>1, <1>2, <1>3, GoMoves DEF GetClaimedRetry
<1>4. CASE action[executor[e].key].status # "PENDING"
  BY <1>1, <1>4, ThrowMoves DEF GetClaimedRetry
<1> QED BY <1>1, <1>3, <1>4

\* One order of the exchange changes.
OnlyOrderOf(k) == \A j \in Keys : j # k => exchange'[j] = exchange[j]

LEMMA ExchangeRowKeeps ==
    ASSUME ExchangeTypes, NEW k \in Keys, NEW T, NEW new \in ExchangeRows(T),
           exchange' = [exchange EXCEPT ![k] = new]
    PROVE  ExchangeTypes' /\ OnlyOrderOf(k) /\ exchange'[k] = new
<1>1. PICK S : exchange \in [Keys -> ExchangeRows(S)]
  BY DEF ExchangeTypes
<1>2. ExchangeRows(S) \subseteq ExchangeRows(S \cup T) /\ ExchangeRows(T) \subseteq ExchangeRows(T \cup S)
  BY RowsGrow
<1>3. T \cup S = S \cup T
  OBVIOUS
<1>4. exchange' \in [Keys -> ExchangeRows(S \cup T)]
  BY <1>1, <1>2, <1>3
<1> QED BY <1>1, <1>4 DEF ExchangeTypes, OnlyOrderOf

LEMMA AcceptPlaces ==
    ASSUME ExchangeTypes, NEW k \in Keys, NEW q, Accept(k, q)
    PROVE  /\ ExchangeTypes' /\ OnlyOrderOf(k) /\ ~Live(k)
           /\ exchange'[k].status # "NONE" /\ exchange'[k].placed = exchange[k].placed + 1
<1>1. PICK S : exchange \in [Keys -> ExchangeRows(S)]
  BY DEF ExchangeTypes
<1>2. PICK e \in 0..q, s \in ExchangeStatuses \ {"NONE"} :
        exchange' = [exchange EXCEPT ![k] = [status |-> s, executed |-> e, wanted |-> q,
                                             placed |-> exchange[k].placed + 1]]
  <2>1. CASE AcceptLimit(k, q)
    <3>1. PICK e \in 0..q :
            exchange' = [exchange EXCEPT ![k] = [status |-> RestingStatus(e, q), executed |-> e,
                                                 wanted |-> q, placed |-> exchange[k].placed + 1]]
      BY <2>1 DEF AcceptLimit
    <3>2. RestingStatus(e, q) \in ExchangeStatuses \ {"NONE"}
      BY DEF RestingStatus, ExchangeStatuses
    <3> QED BY <3>1, <3>2
  <2>2. CASE AcceptMarket(k, q)
    <3>1. PICK e \in 0..q :
            exchange' = [exchange EXCEPT ![k] = [status |-> IF e = q THEN "FILLED" ELSE "EXPIRED",
                                                 executed |-> e, wanted |-> q,
                                                 placed |-> exchange[k].placed + 1]]
      BY <2>2 DEF AcceptMarket
    <3>2. (IF e = q THEN "FILLED" ELSE "EXPIRED") \in ExchangeStatuses \ {"NONE"}
      BY DEF ExchangeStatuses
    <3> QED BY <3>1, <3>2
  <2> QED BY <2>1, <2>2 DEF Accept
<1> DEFINE new == [status |-> s, executed |-> e, wanted |-> q, placed |-> exchange[k].placed + 1]
<1>3. exchange[k].placed \in Nat /\ e \in Nat
  BY <1>1 DEF ExchangeRows
<1>4. new \in ExchangeRows({q}) /\ new.status = s /\ new.placed = exchange[k].placed + 1
  BY <1>3 DEF ExchangeRows
<1>5. ~Live(k)
  BY DEF Accept
<1> HIDE DEF new
<1>6. exchange' = [exchange EXCEPT ![k] = new]
  BY <1>2 DEF new
<1> QED BY <1>4, <1>5, <1>6, ExchangeRowKeeps

\* An executor takes down what the exchange says of its order.
LEMMA AnswerMoves ==
    ASSUME ExecutorTypes, NEW e \in Executors, executor[e].key \in Keys, NEW a \in Answers,
           executor' = [executor EXCEPT ![e].pc = "commit", ![e].answer = a]
    PROVE  ExecutorTypes' /\ Moves(e, "commit") /\ executor'[e].answer = a
<1>1. PICK S : executor \in [Executors -> ExecutorRows(S)]
  BY DEF ExecutorTypes
<1> DEFINE new == [executor[e] EXCEPT !.pc = "commit", !.answer = a]
<1>2. executor[e] \in ExecutorRows(S)
  BY <1>1
<1>3. new \in ExecutorRows(S) /\ new.pc = "commit" /\ new.key = executor[e].key /\ new.answer = a
  BY <1>2 DEF ExecutorRows, ExecutorPcs
<1>4. executor' = [executor EXCEPT ![e] = new]
  OBVIOUS
<1> HIDE DEF new
<1>5. ExecutorTypes' /\ OnlyExecutor(e) /\ executor'[e] = new
  BY <1>3, <1>4, ExecutorRowKeeps DEF RunnerPcs, RetrierPcs
<1> QED BY <1>3, <1>5 DEF Moves

LEMMA ReportsAreAnswers ==
    ASSUME ExchangeTypes, NEW k \in Keys
    PROVE  /\ Report(k) \in Answers /\ Report(k).status = exchange[k].status
           /\ Report(k).executed = exchange[k].executed
           /\ exchange[k].status \in ExchangeStatuses /\ exchange[k].executed \in Nat /\ exchange[k].placed \in Nat
BY DEF ExchangeTypes, ExchangeRows, Report, Answer, Answers

LEMMA LookupMoves ==
    ASSUME ExecutorTypes, ExchangeTypes, NEW e \in Executors, Lookup(e)
    PROVE  /\ ExecutorTypes' /\ e \in Retriers
           /\ IF exchange[executor[e].key].status = "NONE" THEN Moves(e, "place")
              ELSE Moves(e, "commit") /\ executor'[e].answer = Report(executor[e].key)
<1>1. executor[e].key \in Keys /\ e \in Retriers
  BY KeyedHaveKeys, WhoWorksWhere DEF Lookup, KeyedPcs, ExecutorPcs
<1>2. CASE exchange[executor[e].key].status = "NONE"
  <2>1. PcFits(e, "place") /\ Go(e, "place")
    BY <1>1, <1>2, OrderExecutionAssumption DEF Lookup, Go, PcFits, RetrierPcs, ExecutorPcs, RunnerPcs
  <2> QED BY <1>1, <1>2, <2>1, GoMoves
<1>3. CASE exchange[executor[e].key].status # "NONE"
  <2>1. Report(executor[e].key) \in Answers
    BY <1>1, ReportsAreAnswers
  <2>2. executor' = [executor EXCEPT ![e].pc = "commit", ![e].answer = Report(executor[e].key)]
    BY <1>3 DEF Lookup
  <2> QED BY <1>1, <1>3, <2>1, <2>2, AnswerMoves
<1> QED BY <1>1, <1>2, <1>3

LEMMA TryFails ==
    ASSUME ExecutorTypes, NEW e \in Executors,
           LookupFails(e) \/ PlaceRefused(e) \/ CommitThrows(e)
    PROVE  ExecutorTypes' /\ Moves(e, "failing") /\ executor[e].pc \in {"lookup", "place", "commit"}
<1>1. executor[e].key \in Keys /\ executor[e].pc \in {"lookup", "place", "commit"}
  BY KeyedHaveKeys DEF LookupFails, PlaceRefused, CommitThrows, KeyedPcs, ExecutorPcs, At
<1>2. \E r \in BOOLEAN : Fail(e, r)
  BY DEF LookupFails, PlaceRefused, CommitThrows
<1> QED BY <1>1, <1>2, FailMoves

LEMMA PlaceMoves ==
    ASSUME ExecutorTypes, ExchangeTypes, NEW e \in Executors, NEW k \in Keys, k = executor[e].key,
           Place(e) \/ PlaceUnanswered(e)
    PROVE  /\ ExecutorTypes' /\ ExchangeTypes' /\ At(e, "place")
           /\ OnlyOrderOf(k) /\ ~Live(k)
           /\ exchange'[k].status # "NONE" /\ exchange'[k].placed = exchange[k].placed + 1
           /\ \/ Moves(e, "failing")
              \/ Moves(e, "commit") /\ executor'[e].answer = Answer(exchange'[k])
<1>1. At(e, "place") /\ Accept(k, OrderQuantity(e))
  BY DEF Place, PlaceUnanswered
<1>2. /\ ExchangeTypes' /\ OnlyOrderOf(k) /\ ~Live(k)
      /\ exchange'[k].status # "NONE" /\ exchange'[k].placed = exchange[k].placed + 1
  BY <1>1, AcceptPlaces
<1>3. CASE Place(e)
  <2>1. Answer(exchange'[k]) \in Answers
    BY <1>2 DEF ExchangeTypes, ExchangeRows, Answer, Answers
  <2>2. executor' = [executor EXCEPT ![e].pc = "commit", ![e].answer = Answer(exchange'[k])]
    BY <1>3 DEF Place
  <2> QED BY <1>1, <1>2, <2>1, <2>2, AnswerMoves
<1>4. CASE PlaceUnanswered(e)
  BY <1>1, <1>2, <1>4, FailMoves DEF PlaceUnanswered
<1> QED BY <1>3, <1>4

\* One action changes, to a given status, retries started and backoff.
OnlyAction(k) == \A j \in Keys : j # k => action'[j] = action[j]
Becomes(k, status, attempts, due) ==
    /\ ActionTypes' /\ OnlyAction(k)
    /\ action'[k].status = status /\ action'[k].attempts = attempts /\ action'[k].due = due

LEMMA ActionRowKeeps ==
    ASSUME ActionTypes, NEW k \in Keys, NEW T, NEW new \in ActionRows(T),
           action' = [action EXCEPT ![k] = new]
    PROVE  Becomes(k, new.status, new.attempts, new.due)
<1>1. PICK S : action \in [Keys -> ActionRows(S)]
  BY DEF ActionTypes
<1>2. ActionRows(S) \subseteq ActionRows(S \cup T) /\ ActionRows(T) \subseteq ActionRows(T \cup S)
  BY RowsGrow
<1>3. T \cup S = S \cup T
  OBVIOUS
<1>4. action' \in [Keys -> ActionRows(S \cup T)]
  BY <1>1, <1>2, <1>3
<1> QED BY <1>1, <1>4 DEF ActionTypes, OnlyAction, Becomes

LEMMA CreateWrites ==
    ASSUME ActionTypes, NEW k \in Keys, NEW c, NEW q, Create(k, c, q)
    PROVE  Becomes(k, "PENDING", 0, FALSE)
<1> DEFINE new == [status |-> "PENDING", attempts |-> 0, due |-> FALSE, position |-> c, quantity |-> q]
<1>1. /\ new \in ActionRows({c, q}) /\ new.status = "PENDING" /\ new.attempts = 0 /\ new.due = FALSE
  BY DEF ActionRows, ActionStatuses
<1>2. action' = [action EXCEPT ![k] = new]
  BY DEF Create
<1> HIDE DEF new
<1> QED BY <1>1, <1>2, ActionRowKeeps

LEMMA CompletedWrites ==
    ASSUME ActionTypes, NEW k \in Keys, MarkCompleted(k)
    PROVE  Becomes(k, "COMPLETED", action[k].attempts, FALSE)
<1>1. PICK S : action \in [Keys -> ActionRows(S)]
  BY DEF ActionTypes
<1> DEFINE new == [action[k] EXCEPT !.status = "COMPLETED", !.due = FALSE]
<1>2. action[k] \in ActionRows(S)
  BY <1>1
<1>3. /\ new \in ActionRows(S) /\ new.status = "COMPLETED"
      /\ new.attempts = action[k].attempts /\ new.due = FALSE
  BY <1>2 DEF ActionRows, ActionStatuses
<1>4. action' = [action EXCEPT ![k] = new]
  BY DEF MarkCompleted
<1> HIDE DEF new
<1> QED BY <1>3, <1>4, ActionRowKeeps

\* What is left of an action that failed.
AfterFailure(k, retryable) ==
    IF retryable /\ action[k].attempts < MaxAttempts THEN "FAILED" ELSE "PERMANENTLY_FAILED"

LEMMA FailedWrites ==
    ASSUME ActionTypes, NEW k \in Keys, NEW r \in BOOLEAN, MarkFailed(k, r)
    PROVE  Becomes(k, AfterFailure(k, r), action[k].attempts, FALSE)
<1>1. PICK S : action \in [Keys -> ActionRows(S)]
  BY DEF ActionTypes
<1> DEFINE new == Failed(action[k], r)
<1>2. action[k] \in ActionRows(S)
  BY <1>1
<1>3. /\ new \in ActionRows(S) /\ new.status = AfterFailure(k, r)
      /\ new.attempts = action[k].attempts /\ new.due = FALSE
  BY <1>2 DEF ActionRows, ActionStatuses, AfterFailure, Failed
<1>4. action' = [action EXCEPT ![k] = new]
  BY DEF MarkFailed
<1> HIDE DEF new
<1> QED BY <1>3, <1>4, ActionRowKeeps

LEMMA ResolveWrites ==
    ASSUME ActionTypes, NEW k \in Keys, NEW c, NEW status, NEW filled, Resolve(k, c, status, filled)
    PROVE  Becomes(k, Resolution(status, filled), action[k].attempts, action[k].due)
<1>1. PICK S : action \in [Keys -> ActionRows(S)]
  BY DEF ActionTypes
<1> DEFINE new == [action[k] EXCEPT !.status = Resolution(status, filled), !.position = c]
<1>2. action[k] \in ActionRows(S)
  BY <1>1
<1>3. /\ new \in ActionRows(S \cup {c}) /\ new.status = Resolution(status, filled)
      /\ new.attempts = action[k].attempts /\ new.due = action[k].due
  BY <1>2 DEF ActionRows, ActionStatuses, Resolution
<1>4. action' = [action EXCEPT ![k] = new]
  BY DEF Resolve
<1> HIDE DEF new
<1> QED BY <1>3, <1>4, ActionRowKeeps

LEMMA ClaimRetryWrites ==
    ASSUME ActionTypes, NEW k \in Keys, ClaimRetry(k)
    PROVE  Becomes(k, "PENDING", action[k].attempts + 1, FALSE)
<1>1. PICK S : action \in [Keys -> ActionRows(S)]
  BY DEF ActionTypes
<1> DEFINE n == action[k].attempts + 1
           new == [action[k] EXCEPT !.status = "PENDING", !.due = FALSE, !.attempts = n]
<1>2. action[k] \in ActionRows(S) /\ n \in Nat
  BY <1>1 DEF ActionRows
<1>3. /\ new \in ActionRows(S) /\ new.status = "PENDING"
      /\ new.attempts = action[k].attempts + 1 /\ new.due = FALSE
  <2>1. new \in ActionRows(S) /\ new.status = "PENDING" /\ new.attempts = n /\ new.due = FALSE
    <3> HIDE DEF n
    <3> QED BY <1>2 DEF ActionRows, ActionStatuses
  <2> QED BY <2>1
<1>4. action' = [action EXCEPT ![k] = new]
  BY DEF ClaimRetry
<1> HIDE DEF new
<1> QED BY <1>3, <1>4, ActionRowKeeps

LEMMA BackoffWrites ==
    ASSUME ActionTypes, NEW k \in Keys, BackoffElapses(k)
    PROVE  Becomes(k, action[k].status, action[k].attempts, TRUE)
<1>1. PICK S : action \in [Keys -> ActionRows(S)]
  BY DEF ActionTypes
<1> DEFINE new == [action[k] EXCEPT !.due = TRUE]
<1>2. action[k] \in ActionRows(S)
  BY <1>1
<1>3. /\ new \in ActionRows(S) /\ new.status = action[k].status
      /\ new.attempts = action[k].attempts /\ new.due = TRUE
  BY <1>2 DEF ActionRows, ActionStatuses
<1>4. action' = [action EXCEPT ![k] = new]
  BY DEF BackoffElapses
<1> HIDE DEF new
<1> QED BY <1>3, <1>4, ActionRowKeeps

LEMMA RetryManuallyWrites ==
    ASSUME ActionTypes, NEW k \in Keys, RetryManually(k)
    PROVE  Becomes(k, "FAILED", action[k].attempts, TRUE)
<1>1. PICK S : action \in [Keys -> ActionRows(S)]
  BY DEF ActionTypes
<1> DEFINE new == [action[k] EXCEPT !.status = "FAILED", !.due = TRUE]
<1>2. action[k] \in ActionRows(S)
  BY <1>1
<1>3. /\ new \in ActionRows(S) /\ new.status = "FAILED"
      /\ new.attempts = action[k].attempts /\ new.due = TRUE
  BY <1>2 DEF ActionRows, ActionStatuses
<1>4. action' = [action EXCEPT ![k] = new]
  BY DEF RetryManually
<1> HIDE DEF new
<1> QED BY <1>3, <1>4, ActionRowKeeps

LEMMA CancelRetryWrites ==
    ASSUME ActionTypes, NEW k \in Keys, CancelRetry(k)
    PROVE  Becomes(k, "CANCELLED", action[k].attempts, FALSE)
<1>1. PICK S : action \in [Keys -> ActionRows(S)]
  BY DEF ActionTypes
<1> DEFINE new == [action[k] EXCEPT !.status = "CANCELLED", !.due = FALSE]
<1>2. action[k] \in ActionRows(S)
  BY <1>1
<1>3. /\ new \in ActionRows(S) /\ new.status = "CANCELLED"
      /\ new.attempts = action[k].attempts /\ new.due = FALSE
  BY <1>2 DEF ActionRows, ActionStatuses
<1>4. action' = [action EXCEPT ![k] = new]
  BY DEF CancelRetry
<1> HIDE DEF new
<1> QED BY <1>3, <1>4, ActionRowKeeps

LEMMA CancelPendingWrites ==
    ASSUME ActionTypes, CancelPendingActions
    PROVE  /\ ActionTypes'
           /\ \A k \in Keys : IF action[k].status \in {"PENDING", "FAILED"}
                              THEN action'[k].status = "CANCELLED" ELSE action'[k] = action[k]
<1>1. PICK S : action \in [Keys -> ActionRows(S)]
  BY DEF ActionTypes
<1>2. \A k \in Keys : LET new == [action[k] EXCEPT !.status = "CANCELLED", !.due = FALSE]
                      IN new \in ActionRows(S) /\ new.status = "CANCELLED"
  BY <1>1 DEF ActionRows, ActionStatuses
<1>3. \A k \in Keys : action'[k] = IF action[k].status \in {"PENDING", "FAILED"}
                                   THEN [action[k] EXCEPT !.status = "CANCELLED", !.due = FALSE] ELSE action[k]
  BY DEF CancelPendingActions
<1>4. \A k \in Keys : action'[k] \in ActionRows(S)
  BY <1>1, <1>2, <1>3
<1>5. action' \in [Keys -> ActionRows(S)]
  BY <1>4 DEF CancelPendingActions
<1> QED BY <1>2, <1>3, <1>5 DEF ActionTypes

\* One order row changes.
OnlyRow(k) == \A j \in Keys : j # k => order'[j] = order[j]

LEMMA OrderRowKeeps ==
    ASSUME OrderTypes, NEW k \in Keys, NEW T, NEW new \in OrderRows(T),
           order' = [order EXCEPT ![k] = new]
    PROVE  OrderTypes' /\ OnlyRow(k) /\ order'[k] = new
<1>1. PICK S : order \in [Keys -> OrderRows(S)]
  BY DEF OrderTypes
<1>2. OrderRows(S) \subseteq OrderRows(S \cup T) /\ OrderRows(T) \subseteq OrderRows(T \cup S)
  BY RowsGrow
<1>3. T \cup S = S \cup T
  OBVIOUS
<1>4. order' \in [Keys -> OrderRows(S \cup T)]
  BY <1>1, <1>2, <1>3
<1> QED BY <1>1, <1>4 DEF OrderTypes, OnlyRow

\* The row an answer is written to.
Recorded(k, answer, accounted) ==
    /\ OrderTypes' /\ OnlyRow(k)
    /\ order'[k].status = MapOrderStatus(answer.status) /\ order'[k].status # "NONE"
    /\ order'[k].filled = answer.executed /\ order'[k].accounted = accounted

LEMMA RecordWrites ==
    ASSUME OrderTypes, NEW k \in Keys, NEW a \in Answers, NEW n \in Nat, NEW c, NEW l,
           order' = [order EXCEPT ![k] = [status |-> MapOrderStatus(a.status), filled |-> a.executed,
                                          accounted |-> n, position |-> c, leg |-> l]]
    PROVE  Recorded(k, a, n)
<1> DEFINE new == [status |-> MapOrderStatus(a.status), filled |-> a.executed,
                   accounted |-> n, position |-> c, leg |-> l]
<1>1. MapOrderStatus(a.status) \in OrderStatuses \ {"NONE"} /\ a.executed \in Nat
  BY DEF MapOrderStatus, OrderStatuses, Answers
<1>2. /\ new \in OrderRows({c, l}) /\ new.status = MapOrderStatus(a.status) /\ new.filled = a.executed
      /\ new.accounted = n /\ new.status # "NONE"
  BY <1>1 DEF OrderRows
<1> HIDE DEF new
<1>3. order' = [order EXCEPT ![k] = new]
  BY DEF new
<1>4. new \in OrderRows({c, l})
  BY <1>2
<1>5. OrderTypes' /\ OnlyRow(k) /\ order'[k] = new
  BY <1>3, <1>4, OrderRowKeeps
<1> QED BY <1>2, <1>5 DEF Recorded

LEMMA CommitMoves ==
    ASSUME ExecutorTypes, OrderTypes, ActionTypes, NEW e \in Executors, NEW k, k = executor[e].key, Commit(e)
    PROVE  /\ ExecutorTypes' /\ k \in Keys /\ OnlyExecutor(e) /\ executor'[e].pc \in {"idle", "unlock"}
           /\ executor[e].answer \in Answers /\ order[k].status = "NONE"
           /\ Recorded(k, executor[e].answer, executor[e].answer.executed)
           /\ Becomes(k, Resolution(order'[k].status, order'[k].accounted), action[k].attempts, action[k].due)
<1>1. k \in Keys
  BY KeyedHaveKeys DEF Commit, KeyedPcs, ExecutorPcs
<1>2. executor[e].answer \in Answers /\ executor[e].answer.executed \in Nat
  BY DEF ExecutorTypes, ExecutorRows, Answers
<1> DEFINE a == executor[e].answer
<1>3. Recorded(k, a, a.executed)
  <2>1. PICK c, l : order' = [order EXCEPT ![k] = [status |-> MapOrderStatus(a.status), filled |-> a.executed,
                                                   accounted |-> a.executed, position |-> c, leg |-> l]]
    BY DEF Commit
  <2> QED BY <1>1, <1>2, <2>1, RecordWrites
<1>4. Resolve(k, TargetCycle(e), MapOrderStatus(a.status), a.executed)
  BY DEF Commit
<1>5. Becomes(k, Resolution(order'[k].status, order'[k].accounted), action[k].attempts, action[k].due)
  BY <1>1, <1>3, <1>4, ResolveWrites DEF Recorded
<1>6. ExecutorTypes' /\ OnlyExecutor(e) /\ executor'[e].pc \in {"idle", "unlock"}
  <2>1. CASE e \in Runners
    <3>1. Go(e, "unlock") /\ PcFits(e, "unlock")
      BY <2>1, OrderExecutionAssumption DEF Commit, PcFits, RunnerPcs, ExecutorPcs
    <3> QED BY <1>1, <3>1, GoMoves DEF Moves
  <2>2. CASE e \notin Runners
    BY <2>2, RestsOK DEF Commit
  <2> QED BY <2>1, <2>2
<1> QED BY <1>1, <1>2, <1>3, <1>5, <1>6 DEF Commit

LEMMA MarkInsideMoves ==
    ASSUME ExecutorTypes, ActionTypes, NEW e \in Executors, NEW k, k = executor[e].key, MarkFailedInside(e)
    PROVE  /\ ExecutorTypes' /\ k \in Keys /\ Moves(e, IF e \in Runners THEN "unlock" ELSE "remark")
           /\ e \notin Runners => executor'[e].retryable = executor[e].retryable
           /\ executor[e].retryable \in BOOLEAN
           /\ Becomes(k, AfterFailure(k, executor[e].retryable), action[k].attempts, FALSE)
<1>1. k \in Keys
  BY KeyedHaveKeys DEF MarkFailedInside, KeyedPcs, ExecutorPcs
<1>2. executor[e].retryable \in BOOLEAN
  BY DEF ExecutorTypes, ExecutorRows
<1>3. MarkFailed(k, executor[e].retryable) /\ Throw(e, executor[e].retryable)
  BY DEF MarkFailedInside
<1> QED BY <1>1, <1>2, <1>3, FailedWrites, ThrowMoves

LEMMA MarkOutsideMoves ==
    ASSUME ExecutorTypes, ActionTypes, NEW e \in Executors, NEW k, k = executor[e].key, MarkFailedOutside(e)
    PROVE  /\ ExecutorTypes' /\ k \in Keys /\ OnlyExecutor(e) /\ executor'[e].pc = "idle" /\ e \in Retriers
           /\ executor[e].retryable \in BOOLEAN
           /\ Becomes(k, AfterFailure(k, executor[e].retryable), action[k].attempts, FALSE)
<1>1. k \in Keys /\ e \in Retriers
  BY KeyedHaveKeys, WhoWorksWhere DEF MarkFailedOutside, KeyedPcs, ExecutorPcs
<1>2. executor[e].retryable \in BOOLEAN
  BY DEF ExecutorTypes, ExecutorRows
<1>3. MarkFailed(k, executor[e].retryable) /\ Rest(e)
  BY DEF MarkFailedOutside
<1> QED BY <1>1, <1>2, <1>3, FailedWrites, RestsOK

LEMMA RetryListMoves ==
    ASSUME ExecutorTypes, NEW e \in Executors, NEW k \in Keys, RetryList(e, k)
    PROVE  /\ ExecutorTypes' /\ OnlyExecutor(e) /\ e \in Retriers
           /\ executor'[e].pc = "listed" /\ executor'[e].key = k
<1>1. PICK S : executor \in [Executors -> ExecutorRows(S)]
  BY DEF ExecutorTypes
<1>2. PICK q : executor' = [executor EXCEPT ![e] = [executor[e] EXCEPT !.pc = "listed", !.key = k, !.quantity = q]]
  BY DEF RetryList
<1> DEFINE new == [executor[e] EXCEPT !.pc = "listed", !.key = k, !.quantity = q]
<1>3. new \in ExecutorRows(S \cup {q}) /\ new.pc = "listed" /\ new.key = k
  BY <1>1 DEF ExecutorRows, ExecutorPcs
<1> HIDE DEF new
<1>4. executor' = [executor EXCEPT ![e] = new] /\ e \in Retriers /\ e \notin Runners
  BY <1>2, OrderExecutionAssumption DEF new, RetryList
<1>5. ExecutorTypes' /\ OnlyExecutor(e) /\ executor'[e] = new
  BY <1>3, <1>4, ExecutorRowKeeps DEF RetrierPcs
<1> QED BY <1>3, <1>4, <1>5

LEMMA RetryClaimMoves ==
    ASSUME ExecutorTypes, ActionTypes, NEW e \in Executors, NEW k, k = executor[e].key, RetryClaim(e)
    PROVE  /\ ExecutorTypes' /\ k \in Keys /\ e \in Retriers
           /\ \/ OnlyExecutor(e) /\ executor'[e].pc = "idle" /\ UNCHANGED action
              \/ /\ Moves(e, "begin") /\ DueForRetry(k)
                 /\ Becomes(k, "PENDING", action[k].attempts + 1, FALSE)
<1>1. k \in Keys /\ e \in Retriers /\ PcFits(e, "begin")
  BY KeyedHaveKeys, WhoWorksWhere, OrderExecutionAssumption
     DEF RetryClaim, KeyedPcs, ExecutorPcs, PcFits, RetrierPcs
<1>2. CASE Claimable(k)
  <2>1. ClaimRetry(k) /\ Go(e, "begin")
    BY <1>2 DEF RetryClaim
  <2> QED BY <1>1, <1>2, <2>1, GoMoves, ClaimRetryWrites DEF Claimable
<1>3. CASE ~Claimable(k)
  BY <1>1, <1>3, RestsOK DEF RetryClaim
<1> QED BY <1>2, <1>3

\* One sync gets a new row.
OnlySyncer(s) == \A t \in AllSyncers : t # s => syncer'[t] = syncer[t]

LEMMA SyncerRowKeeps ==
    ASSUME SyncerTypes, NEW s \in AllSyncers, NEW T, NEW new \in SyncerRows(T),
           syncer' = [syncer EXCEPT ![s] = new], new.pc # "idle" => new.key \in Keys
    PROVE  SyncerTypes' /\ OnlySyncer(s) /\ syncer'[s] = new
<1>1. PICK S : syncer \in [AllSyncers -> SyncerRows(S)]
  BY DEF SyncerTypes
<1>2. SyncerRows(S) \subseteq SyncerRows(S \cup T) /\ SyncerRows(T) \subseteq SyncerRows(T \cup S)
  BY RowsGrow
<1>3. T \cup S = S \cup T
  OBVIOUS
<1>4. syncer' \in [AllSyncers -> SyncerRows(S \cup T)]
  BY <1>1, <1>2, <1>3
<1>5. OnlySyncer(s) /\ syncer'[s] = new
  BY <1>1 DEF OnlySyncer
<1> QED BY <1>4, <1>5 DEF SyncerTypes, OnlySyncer

LEMMA WaitingRow ==
    /\ \A T : Waiting \in SyncerRows(T \cup {NoPosition, NoLeg, 0, FALSE}) /\ Waiting.pc = "idle"
    /\ NoOrder.status = "NONE"
<1>1. NoOrder \in OrderRows({0, FALSE}) /\ NoOrder.status = "NONE" /\ NoReport \in Answers
  BY DEF NoOrder, OrderRows, OrderStatuses, NoReport, Answers, ExchangeStatuses
<1> SUFFICES ASSUME NEW T
             PROVE  Waiting \in SyncerRows(T \cup {NoPosition, NoLeg, 0, FALSE}) /\ Waiting.pc = "idle"
  BY <1>1
<1> DEFINE U == T \cup {NoPosition, NoLeg, 0, FALSE}
<1>2. NoOrder \in OrderRows(U) /\ NoPosition \in U /\ NoLeg \in U
  BY <1>1 DEF OrderRows
<1> HIDE DEF U
<1>3. Waiting \in SyncerRows(U) /\ Waiting.pc = "idle"
  BY <1>1, <1>2 DEF Waiting, SyncerRows, SyncerPcs
<1> QED BY <1>3 DEF U

LEMMA SyncRests ==
    ASSUME SyncerTypes, NEW s \in AllSyncers, SyncRest(s)
    PROVE  SyncerTypes' /\ OnlySyncer(s) /\ syncer'[s].pc = "idle"
<1>1. syncer' = [syncer EXCEPT ![s] = Waiting]
  BY DEF SyncRest
<1> QED BY <1>1, WaitingRow, SyncerRowKeeps

\* A sync waits with a key at another place.
LEMMA SyncWaits ==
    ASSUME SyncerTypes, NEW s \in AllSyncers, NEW k \in Keys, NEW pc \in {"aging", "recover"},
           NEW S, NEW r \in OrderRows(S),
           syncer' = [syncer EXCEPT ![s] = [Waiting EXCEPT !.pc = pc, !.key = k, !.row = r]]
    PROVE  SyncerTypes' /\ OnlySyncer(s) /\ syncer'[s].pc = pc /\ syncer'[s].key = k /\ syncer'[s].row = r
<1> DEFINE new == [Waiting EXCEPT !.pc = pc, !.key = k, !.row = r]
           U == S \cup {NoPosition, NoLeg, 0, FALSE}
<1>1. Waiting \in SyncerRows(U) /\ r \in OrderRows(U)
  BY WaitingRow, RowsGrow
<1> HIDE DEF U
<1>2. new \in SyncerRows(U) /\ new.pc = pc /\ new.key = k /\ new.row = r
  <2> DEFINE there == [Waiting EXCEPT !.pc = pc]
             about == [there EXCEPT !.key = k]
  <2>1. there \in SyncerRows(U) /\ there.pc = pc
    BY <1>1 DEF SyncerRows, SyncerPcs
  <2>2. about \in SyncerRows(U) /\ about.pc = pc /\ about.key = k
    <3> HIDE DEF there
    <3> QED BY <2>1 DEF SyncerRows
  <2>3. [about EXCEPT !.row = r] = new
    OBVIOUS
  <2> HIDE DEF about, new
  <2> QED BY <1>1, <2>2, <2>3 DEF SyncerRows
<1> HIDE DEF new
<1>3. syncer' = [syncer EXCEPT ![s] = new]
  BY DEF new
<1>4. SyncerTypes' /\ OnlySyncer(s) /\ syncer'[s] = new
  BY <1>2, <1>3, SyncerRowKeeps
<1> QED BY <1>2, <1>4

LEMMA ReadRowMoves ==
    ASSUME SyncerTypes, OrderTypes, NEW s \in AllSyncers, NEW k \in Keys, ReadRow(s, k)
    PROVE  /\ SyncerTypes' /\ OnlySyncer(s)
           /\ syncer'[s].pc = "fetch" /\ syncer'[s].key = k /\ syncer'[s].row = order[k]
<1>1. PICK S : order \in [Keys -> OrderRows(S)]
  BY DEF OrderTypes
<1>2. PICK v, l : syncer' = [syncer EXCEPT ![s] = [pc |-> "fetch", key |-> k, row |-> order[k], view |-> v,
                                                   leg |-> l, answer |-> NoReport]]
  BY DEF ReadRow
<1> DEFINE new == [pc |-> "fetch", key |-> k, row |-> order[k], view |-> v, leg |-> l, answer |-> NoReport]
           U == S \cup {v, l}
<1>3. order[k] \in OrderRows(U) /\ v \in U /\ l \in U /\ NoReport \in Answers
  BY <1>1, RowsGrow DEF NoReport, Answers, ExchangeStatuses
<1> HIDE DEF U
<1>4. new \in SyncerRows(U) /\ new.pc = "fetch" /\ new.key = k /\ new.row = order[k]
  BY <1>3 DEF SyncerRows, SyncerPcs
<1> HIDE DEF new
<1>5. SyncerTypes' /\ OnlySyncer(s) /\ syncer'[s] = new
  BY <1>2, <1>4, SyncerRowKeeps DEF new
<1> QED BY <1>4, <1>5

LEMMA FetchMoves ==
    ASSUME SyncerTypes, ExchangeTypes, NEW s \in AllSyncers, NEW k, k = syncer[s].key, SyncFetch(s)
    PROVE  /\ SyncerTypes' /\ OnlySyncer(s) /\ k \in Keys
           /\ syncer'[s].pc = "commit" /\ syncer'[s].key = k /\ syncer'[s].row = syncer[s].row
           /\ syncer'[s].answer = Report(k)
<1>1. PICK S : syncer \in [AllSyncers -> SyncerRows(S)]
  BY DEF SyncerTypes
<1>2. k \in Keys /\ Report(k) \in Answers
  BY ReportsAreAnswers DEF SyncerTypes, SyncFetch, SyncAt
<1> DEFINE new == [syncer[s] EXCEPT !.pc = "commit", !.answer = Report(k)]
<1>3. syncer[s] \in SyncerRows(S)
  BY <1>1
<1>4. /\ new \in SyncerRows(S) /\ new.pc = "commit" /\ new.key = k /\ new.row = syncer[s].row
      /\ new.answer = Report(k)
  BY <1>2, <1>3 DEF SyncerRows, SyncerPcs
<1>5. syncer' = [syncer EXCEPT ![s] = new]
  BY DEF SyncFetch
<1> HIDE DEF new
<1>6. new.key \in Keys
  BY <1>2, <1>4
<1>7. SyncerTypes' /\ OnlySyncer(s) /\ syncer'[s] = new
  BY <1>4, <1>5, <1>6, SyncerRowKeeps
<1> QED BY <1>2, <1>4, <1>7

LEMMA RowsRead ==
    ASSUME SyncerTypes, NEW s \in AllSyncers
    PROVE  /\ syncer[s].row.filled \in Nat /\ syncer[s].row.accounted \in Nat
           /\ syncer[s].row.status \in OrderStatuses /\ syncer[s].answer \in Answers
           /\ Accounted(s) \in Nat
<1>1. PICK S : syncer[s] \in SyncerRows(S)
  BY DEF SyncerTypes
<1>2. /\ syncer[s].row.filled \in Nat /\ syncer[s].row.accounted \in Nat
      /\ syncer[s].row.status \in OrderStatuses /\ syncer[s].answer \in Answers
      /\ syncer[s].answer.executed \in Nat
  BY <1>1 DEF SyncerRows, OrderRows, Answers
<1> QED BY <1>2 DEF Accounted, Delta, Less

LEMMA SyncCommitMoves ==
    ASSUME SyncerTypes, OrderTypes, ActionTypes, NEW s \in AllSyncers, NEW k, k = syncer[s].key, SyncCommit(s)
    PROVE  /\ SyncerTypes' /\ OnlySyncer(s) /\ k \in Keys
           /\ syncer'[s].pc = "idle" \/ (syncer'[s].pc = "aging" /\ syncer'[s].key = k)
           /\ Recorded(k, syncer[s].answer, Accounted(s))
           /\ Becomes(k, Resolution(order'[k].status, order'[k].accounted), action[k].attempts, action[k].due)
<1>1. k \in Keys
  BY DEF SyncerTypes, SyncCommit, SyncAt
<1>2. syncer[s].answer \in Answers /\ Accounted(s) \in Nat
  BY RowsRead
<1> DEFINE a == syncer[s].answer
<1>3. Recorded(k, a, Accounted(s))
  <2>1. PICK c, l : order' = [order EXCEPT ![k] = [status |-> MapOrderStatus(a.status), filled |-> a.executed,
                                                   accounted |-> Accounted(s), position |-> c, leg |-> l]]
    BY DEF SyncCommit
  <2> QED BY <1>1, <1>2, <2>1, RecordWrites
<1>4. Resolve(k, syncer[s].row.position, MapOrderStatus(a.status), Accounted(s))
  BY DEF SyncCommit
<1>5. Becomes(k, Resolution(order'[k].status, order'[k].accounted), action[k].attempts, action[k].due)
  BY <1>1, <1>3, <1>4, ResolveWrites DEF Recorded
<1>6. /\ SyncerTypes' /\ OnlySyncer(s)
      /\ syncer'[s].pc = "idle" \/ (syncer'[s].pc = "aging" /\ syncer'[s].key = k)
  <2>1. CASE SyncRest(s)
    BY <2>1, SyncRests
  <2>2. CASE syncer' = [syncer EXCEPT ![s] = [Waiting EXCEPT !.pc = "aging", !.key = k]]
    <3> DEFINE new == [Waiting EXCEPT !.pc = "aging", !.key = k]
               U == {NoPosition, NoLeg, 0, FALSE}
    <3>1. Waiting \in SyncerRows(U \cup U)
      BY WaitingRow
    <3>2. new \in SyncerRows(U \cup U) /\ new.pc = "aging" /\ new.key = k
      BY <1>1, <3>1 DEF SyncerRows, SyncerPcs
    <3> HIDE DEF new, U
    <3>3. SyncerTypes' /\ OnlySyncer(s) /\ syncer'[s] = new
      BY <1>1, <2>2, <3>2, SyncerRowKeeps DEF new
    <3> QED BY <3>2, <3>3
  <2> QED BY <2>1, <2>2 DEF SyncCommit
<1> QED BY <1>1, <1>3, <1>5, <1>6

LEMMA CancelOnExchangeKeeps ==
    ASSUME ExchangeTypes, NEW k \in Keys, CancelOnExchange(k)
    PROVE  /\ ExchangeTypes' /\ OnlyOrderOf(k)
           /\ \/ exchange'[k] = exchange[k]
              \/ /\ Live(k) /\ exchange'[k].status = "CANCELED"
                 /\ exchange'[k].executed = exchange[k].executed /\ exchange'[k].placed = exchange[k].placed
<1>1. PICK S : exchange \in [Keys -> ExchangeRows(S)]
  BY DEF ExchangeTypes
<1>2. CASE Live(k)
  <2> DEFINE new == [exchange[k] EXCEPT !.status = "CANCELED"]
  <2>1. exchange[k] \in ExchangeRows(S)
    BY <1>1
  <2>2. /\ new \in ExchangeRows(S) /\ new.status = "CANCELED"
        /\ new.executed = exchange[k].executed /\ new.placed = exchange[k].placed
    BY <2>1 DEF ExchangeRows, ExchangeStatuses
  <2>3. exchange' = [exchange EXCEPT ![k] = new]
    BY <1>2 DEF CancelOnExchange
  <2> HIDE DEF new
  <2> QED BY <1>2, <2>2, <2>3, ExchangeRowKeeps
<1>3. CASE ~Live(k)
  BY <1>3 DEF CancelOnExchange, OnlyOrderOf, ExchangeTypes
<1> QED BY <1>2, <1>3

LEMMA MarketMoves ==
    ASSUME ExchangeTypes, NEW k \in Keys, Market(k)
    PROVE  /\ ExchangeTypes' /\ OnlyOrderOf(k) /\ Live(k)
           /\ exchange'[k].status # "NONE" /\ exchange'[k].placed = exchange[k].placed
           /\ exchange[k].executed <= exchange'[k].executed
<1>1. PICK S : exchange \in [Keys -> ExchangeRows(S)]
  BY DEF ExchangeTypes
<1>2. exchange[k] \in ExchangeRows(S) /\ exchange[k].executed \in Nat
  BY <1>1 DEF ExchangeRows
<1>3. CASE Fill(k)
  <2>1. PICK e \in exchange[k].executed + 1 .. exchange[k].wanted :
          exchange' = [exchange EXCEPT ![k] = [exchange[k] EXCEPT !.executed = e,
                                                 !.status = RestingStatus(e, exchange[k].wanted)]]
    BY <1>3 DEF Fill
  <2> DEFINE status == RestingStatus(e, exchange[k].wanted)
             new == [exchange[k] EXCEPT !.executed = e, !.status = status]
  <2>2. status \in ExchangeStatuses \ {"NONE"}
    BY DEF RestingStatus, ExchangeStatuses
  <2>3. e \in Nat /\ exchange[k].executed <= e
    BY <1>2
  <2> HIDE DEF status
  <2>4. /\ new \in ExchangeRows(S) /\ new.status = status
        /\ new.executed = e /\ new.placed = exchange[k].placed
    BY <1>2, <2>2, <2>3 DEF ExchangeRows
  <2>5. exchange' = [exchange EXCEPT ![k] = new] /\ Live(k)
    BY <1>3, <2>1 DEF Fill, status
  <2> HIDE DEF new
  <2>6. ExchangeTypes' /\ OnlyOrderOf(k) /\ exchange'[k] = new
    BY <2>4, <2>5, ExchangeRowKeeps
  <2> QED BY <2>2, <2>3, <2>4, <2>5, <2>6
<1>4. CASE Expire(k)
  <2> DEFINE new == [exchange[k] EXCEPT !.status = "EXPIRED"]
  <2>1. /\ new \in ExchangeRows(S) /\ new.status = "EXPIRED"
        /\ new.executed = exchange[k].executed /\ new.placed = exchange[k].placed
    BY <1>2 DEF ExchangeRows, ExchangeStatuses
  <2>2. exchange' = [exchange EXCEPT ![k] = new] /\ Live(k)
    BY <1>4 DEF Expire
  <2> HIDE DEF new
  <2>3. ExchangeTypes' /\ OnlyOrderOf(k) /\ exchange'[k] = new
    BY <2>1, <2>2, ExchangeRowKeeps
  <2> QED BY <1>2, <2>1, <2>2, <2>3
<1> QED BY <1>3, <1>4 DEF Market

\* One request of the owner gets a new row.
OnlyUser(u) == \A v \in Users : v # u => user'[v] = user[v]

LEMMA UserRowKeeps ==
    ASSUME UserTypes, NEW u \in Users, NEW new \in UserRows, user' = [user EXCEPT ![u] = new],
           new.pc \in {"retrying", "cancelling"} => new.key \in Keys
    PROVE  UserTypes' /\ OnlyUser(u) /\ user'[u] = new
BY DEF UserTypes, OnlyUser

LEMMA NoRequestRow == NoRequest \in UserRows /\ NoRequest.pc = "idle" /\ NoRequest.cancel = {} /\ NoRequest.mark = {}
BY DEF NoRequest, UserRows, UserPcs

LEMMA UserRests ==
    ASSUME UserTypes, NEW u \in Users, UserRest(u)
    PROVE  UserTypes' /\ OnlyUser(u) /\ user'[u] = NoRequest
BY NoRequestRow, UserRowKeeps DEF UserRest

\* A request that read an action it will write.
LEMMA UserReads ==
    ASSUME UserTypes, NEW u \in Users, NEW k \in Keys, NEW pc \in {"retrying", "cancelling"},
           user' = [user EXCEPT ![u] = [NoRequest EXCEPT !.pc = pc, !.key = k]]
    PROVE  /\ UserTypes' /\ OnlyUser(u) /\ user'[u].pc = pc /\ user'[u].key = k
           /\ user'[u].cancel = {} /\ user'[u].mark = {}
<1> DEFINE new == [NoRequest EXCEPT !.pc = pc, !.key = k]
<1>1. /\ new \in UserRows /\ new.pc = pc /\ new.key = k
      /\ new.cancel = {} /\ new.mark = {}
  BY DEF NoRequest, UserRows, UserPcs
<1>2. user' = [user EXCEPT ![u] = new]
  OBVIOUS
<1> HIDE DEF new
<1>3. UserTypes' /\ OnlyUser(u) /\ user'[u] = new
  BY <1>1, <1>2, UserRowKeeps
<1> QED BY <1>1, <1>3

\* The emergency stop of a request: it holds rows that were open when it listed them.
Emergency(u) == \/ StopStrategies(u) \/ ListOpenOrders(u) \/ EmergencyDone(u)
                \/ \E k \in user[u].cancel : EmergencyCancel(u, k) \/ EmergencyCancelFails(u, k)
                \/ \E k \in user[u].mark : EmergencyMark(u, k)

LEMMA EmergencyMoves ==
    ASSUME UserTypes, NEW u \in Users, Emergency(u)
    PROVE  /\ UserTypes' /\ OnlyUser(u) /\ user'[u].pc \in {"idle", "stopping", "cancelOrders"}
           /\ \A k \in user'[u].cancel \cup user'[u].mark :
                 k \in user[u].cancel \cup user[u].mark \/ order[k].status \in OpenStatuses
           /\ user'[u].mark \subseteq user[u].mark \cup user[u].cancel
<1>1. user[u] \in UserRows
  BY DEF UserTypes
<1>2. CASE StopStrategies(u)
  <2> DEFINE new == [user[u] EXCEPT !.pc = "stopping"]
  <2>1. /\ new \in UserRows /\ new.pc = "stopping"
        /\ new.cancel = user[u].cancel /\ new.mark = user[u].mark
    BY <1>1 DEF UserRows, UserPcs
  <2>2. user' = [user EXCEPT ![u] = new]
    BY <1>2 DEF StopStrategies
  <2> HIDE DEF new
  <2>3. UserTypes' /\ OnlyUser(u) /\ user'[u] = new
    BY <2>1, <2>2, UserRowKeeps
  <2> QED BY <2>1, <2>3
<1>3. CASE UserRest(u)
  BY <1>3, UserRests, NoRequestRow
<1>4. CASE ListOpenOrders(u) /\ ~UserRest(u)
  <2> DEFINE open == {k \in Keys : order[k].status \in OpenStatuses}
             new == [user[u] EXCEPT !.pc = "cancelOrders", !.cancel = open]
  <2>1. /\ new \in UserRows /\ new.pc = "cancelOrders"
        /\ new.cancel = open /\ new.mark = user[u].mark
    BY <1>1 DEF UserRows, UserPcs
  <2>2. user' = [user EXCEPT ![u] = new]
    BY <1>4 DEF ListOpenOrders
  <2> HIDE DEF new
  <2>3. UserTypes' /\ OnlyUser(u) /\ user'[u] = new
    BY <2>1, <2>2, UserRowKeeps
  <2> QED BY <2>1, <2>3
<1>5. ASSUME NEW k \in user[u].cancel, NEW m \in SUBSET (user[u].mark \cup {k}),
             user' = [user EXCEPT ![u].cancel = user[u].cancel \ {k}, ![u].mark = m], UserAt(u, "cancelOrders")
      PROVE  /\ UserTypes' /\ OnlyUser(u) /\ user'[u].pc = "cancelOrders"
             /\ user'[u].cancel = user[u].cancel \ {k} /\ user'[u].mark = m
  <2> DEFINE c == user[u].cancel \ {k}
             new == [user[u] EXCEPT !.cancel = c, !.mark = m]
  <2>0. c \in SUBSET Keys /\ m \in SUBSET Keys
    BY <1>1, <1>5 DEF UserRows
  <2>1. /\ new \in UserRows /\ new.pc = "cancelOrders"
        /\ new.cancel = c /\ new.mark = m
    <3> HIDE DEF c
    <3> QED BY <1>1, <1>5, <2>0 DEF UserRows, UserAt
  <2>2. user' = [user EXCEPT ![u] = new]
    BY <1>5
  <2> HIDE DEF new
  <2>3. UserTypes' /\ OnlyUser(u) /\ user'[u] = new
    BY <2>1, <2>2, UserRowKeeps
  <2> QED BY <2>1, <2>3
<1>6. ASSUME NEW k \in user[u].cancel, EmergencyCancel(u, k)
      PROVE  /\ UserTypes' /\ OnlyUser(u) /\ user'[u].pc = "cancelOrders"
             /\ user'[u].cancel = user[u].cancel \ {k} /\ user'[u].mark \subseteq user[u].mark \cup {k}
  <2> DEFINE m == IF Live(k) THEN user[u].mark \cup {k} ELSE user[u].mark
  <2>1. m \in SUBSET (user[u].mark \cup {k}) /\ UserAt(u, "cancelOrders")
    BY <1>6 DEF EmergencyCancel
  <2>2. user' = [user EXCEPT ![u].cancel = user[u].cancel \ {k}, ![u].mark = m]
    BY <1>6 DEF EmergencyCancel
  <2> HIDE DEF m
  <2>3. /\ UserTypes' /\ OnlyUser(u) /\ user'[u].pc = "cancelOrders"
        /\ user'[u].cancel = user[u].cancel \ {k} /\ user'[u].mark = m
    BY <1>5, <2>1, <2>2
  <2> QED BY <2>1, <2>3
<1>7. ASSUME NEW k \in user[u].cancel, EmergencyCancelFails(u, k)
      PROVE  /\ UserTypes' /\ OnlyUser(u) /\ user'[u].pc = "cancelOrders"
             /\ user'[u].cancel = user[u].cancel \ {k} /\ user'[u].mark = user[u].mark
  <2> DEFINE c == user[u].cancel \ {k}
             new == [user[u] EXCEPT !.cancel = c]
  <2>0. c \in SUBSET Keys
    BY <1>1 DEF UserRows
  <2>1. /\ new \in UserRows /\ new.pc = "cancelOrders"
        /\ new.cancel = c /\ new.mark = user[u].mark
    <3> HIDE DEF c
    <3> QED BY <1>1, <1>7, <2>0 DEF UserRows, UserAt, EmergencyCancelFails
  <2>2. user' = [user EXCEPT ![u] = new]
    BY <1>7 DEF EmergencyCancelFails
  <2> HIDE DEF new
  <2>3. UserTypes' /\ OnlyUser(u) /\ user'[u] = new
    BY <2>1, <2>2, UserRowKeeps
  <2> QED BY <2>1, <2>3
<1>8. ASSUME NEW k \in user[u].mark, EmergencyMark(u, k)
      PROVE  /\ UserTypes' /\ OnlyUser(u) /\ user'[u].pc = "cancelOrders"
             /\ user'[u].cancel = user[u].cancel /\ user'[u].mark = user[u].mark \ {k}
  <2> DEFINE m == user[u].mark \ {k}
             new == [user[u] EXCEPT !.mark = m]
  <2>0. m \in SUBSET Keys
    BY <1>1 DEF UserRows
  <2>1. /\ new \in UserRows /\ new.pc = "cancelOrders"
        /\ new.cancel = user[u].cancel /\ new.mark = m
    <3> HIDE DEF m
    <3> QED BY <1>1, <1>8, <2>0 DEF UserRows, UserAt, EmergencyMark
  <2>2. user' = [user EXCEPT ![u] = new]
    BY <1>8 DEF EmergencyMark
  <2> HIDE DEF new
  <2>3. UserTypes' /\ OnlyUser(u) /\ user'[u] = new
    BY <2>1, <2>2, UserRowKeeps
  <2> QED BY <2>1, <2>3
<1>9. EmergencyDone(u) => UserRest(u)
  BY DEF EmergencyDone
<1>10. CASE \E k \in user[u].cancel : EmergencyCancel(u, k) \/ EmergencyCancelFails(u, k)
  <2>1. PICK k \in user[u].cancel : EmergencyCancel(u, k) \/ EmergencyCancelFails(u, k)
    BY <1>10
  <2>2. CASE EmergencyCancel(u, k)
    BY <1>6, <2>2
  <2>3. CASE EmergencyCancelFails(u, k)
    BY <1>7, <2>3
  <2> QED BY <2>1, <2>2, <2>3
<1>11. CASE \E k \in user[u].mark : EmergencyMark(u, k)
  BY <1>8, <1>11
<1> QED BY <1>2, <1>3, <1>4, <1>9, <1>10, <1>11 DEF Emergency

LEMMA EmergencyMarkWrites ==
    ASSUME OrderTypes, NEW u \in Users, NEW k \in Keys, EmergencyMark(u, k)
    PROVE  /\ OrderTypes' /\ OnlyRow(k) /\ order'[k].status = "CANCELLED"
<1>1. PICK S : order \in [Keys -> OrderRows(S)]
  BY DEF OrderTypes
<1> DEFINE new == [order[k] EXCEPT !.status = "CANCELLED"]
<1>2. order[k] \in OrderRows(S)
  BY <1>1
<1>3. new \in OrderRows(S) /\ new.status = "CANCELLED"
  BY <1>2 DEF OrderRows, OrderStatuses
<1>4. order' = [order EXCEPT ![k] = new]
  BY DEF EmergencyMark
<1> HIDE DEF new
<1>5. OrderTypes' /\ OnlyRow(k) /\ order'[k] = new
  BY <1>3, <1>4, OrderRowKeeps
<1> QED BY <1>3, <1>5

LEMMA CrashMoves ==
    ASSUME ExecutorTypes, SyncerTypes, UserTypes, NEW p, Crash(p)
    PROVE  /\ ExecutorTypes' /\ SyncerTypes' /\ UserTypes'
           /\ \A e \in Executors : executor'[e] = executor[e] \/ executor'[e].pc = "idle"
           /\ \A s \in AllSyncers : syncer'[s] = syncer[s] \/ syncer'[s].pc = "idle"
           /\ \A u \in Users : \/ user'[u] = user[u]
                               \/ user'[u].pc = "idle" /\ user'[u].cancel = {} /\ user'[u].mark = {}
<1>1. /\ ExecutorTypes'
      /\ \A e \in Executors : executor'[e] = executor[e] \/ executor'[e].pc = "idle"
  <2>1. PICK S : executor \in [Executors -> ExecutorRows(S)]
    BY DEF ExecutorTypes
  <2>2. Resting \in ExecutorRows({NoView, 0}) /\ Resting.pc = "idle"
    BY DEF Resting, ExecutorRows, ExecutorPcs, Answers, NoReport, ExchangeStatuses
  <2>3. /\ ExecutorRows(S) \subseteq ExecutorRows(S \cup {NoView, 0})
        /\ ExecutorRows({NoView, 0}) \subseteq ExecutorRows({NoView, 0} \cup S)
        /\ {NoView, 0} \cup S = S \cup {NoView, 0}
    BY RowsGrow
  <2>4. \A e \in Executors : executor'[e] = Resting \/ executor'[e] = executor[e]
    BY DEF Crash
  <2>5. executor' \in [Executors -> ExecutorRows(S \cup {NoView, 0})]
    BY <2>1, <2>2, <2>3 DEF Crash
  <2>6. /\ \A e \in Runners : executor'[e].pc \in RunnerPcs
        /\ \A e \in Retriers : executor'[e].pc \in RetrierPcs
        /\ \A e \in Executors : executor'[e].pc \in KeyedPcs => executor'[e].key \in Keys
    BY <2>2, <2>4 DEF ExecutorTypes, Executors, RunnerPcs, RetrierPcs, KeyedPcs
  <2> QED BY <2>2, <2>4, <2>5, <2>6 DEF ExecutorTypes
<1>2. /\ SyncerTypes'
      /\ \A s \in AllSyncers : syncer'[s] = syncer[s] \/ syncer'[s].pc = "idle"
  <2>1. PICK S : syncer \in [AllSyncers -> SyncerRows(S)]
    BY DEF SyncerTypes
  <2> DEFINE U == S \cup {NoPosition, NoLeg, 0, FALSE}
  <2>2. Waiting \in SyncerRows(U) /\ Waiting.pc = "idle" /\ SyncerRows(S) \subseteq SyncerRows(U)
    BY WaitingRow, RowsGrow
  <2>3. \A s \in AllSyncers : syncer'[s] = Waiting \/ syncer'[s] = syncer[s]
    BY DEF Crash
  <2> HIDE DEF U
  <2>4. syncer' \in [AllSyncers -> SyncerRows(U)]
    BY <2>1, <2>2 DEF Crash
  <2> QED BY <2>2, <2>3, <2>4 DEF SyncerTypes
<1>3. /\ UserTypes'
      /\ \A u \in Users : \/ user'[u] = user[u]
                          \/ user'[u].pc = "idle" /\ user'[u].cancel = {} /\ user'[u].mark = {}
  BY NoRequestRow DEF Crash, UserTypes
<1> QED BY <1>1, <1>2, <1>3

LEMMA TypesSame ==
    /\ ActionTypes /\ UNCHANGED action => ActionTypes'
    /\ ExchangeTypes /\ UNCHANGED exchange => ExchangeTypes'
    /\ OrderTypes /\ UNCHANGED order => OrderTypes'
    /\ ExecutorTypes /\ UNCHANGED executor => ExecutorTypes'
    /\ SyncerTypes /\ UNCHANGED syncer => SyncerTypes'
    /\ UserTypes /\ UNCHANGED user => UserTypes'
BY DEF ActionTypes, ExchangeTypes, OrderTypes, ExecutorTypes, SyncerTypes, UserTypes

LEMMA BotTypesInit == Init => BotTypes
<1> SUFFICES ASSUME Init PROVE BotTypes
  OBVIOUS
<1>1. ActionTypes
  <2>1. NoAction \in ActionRows({0})
    BY DEF NoAction, ActionRows, ActionStatuses
  <2> QED BY <2>1 DEF Init, InitActions, ActionTypes
<1>2. ExchangeTypes
  <2>1. Absent \in ExchangeRows({0})
    BY DEF Absent, ExchangeRows, ExchangeStatuses
  <2> QED BY <2>1 DEF Init, InitExchange, ExchangeTypes
<1>3. OrderTypes
  <2>1. NoOrder \in OrderRows({0, FALSE})
    BY DEF NoOrder, OrderRows, OrderStatuses
  <2> QED BY <2>1 DEF Init, InitPositions, OrderTypes
<1>4. ExecutorTypes
  <2>1. Resting \in ExecutorRows({NoView, 0}) /\ Resting.pc = "idle"
    BY DEF Resting, ExecutorRows, ExecutorPcs, Answers, NoReport, ExchangeStatuses
  <2>2. executor = [e \in Executors |-> Resting]
    BY DEF Init, InitExecution
  <2> QED BY <2>1, <2>2 DEF ExecutorTypes, Executors, RunnerPcs, RetrierPcs, KeyedPcs
<1>5. SyncerTypes
  <2> DEFINE U == {} \cup {NoPosition, NoLeg, 0, FALSE}
  <2>1. Waiting \in SyncerRows(U) /\ Waiting.pc = "idle"
    BY WaitingRow
  <2> HIDE DEF U
  <2> QED BY <2>1 DEF Init, InitSync, SyncerTypes
<1>6. UserTypes
  BY NoRequestRow DEF Init, InitUsers, UserTypes
<1> QED BY <1>1, <1>2, <1>3, <1>4, <1>5, <1>6 DEF BotTypes

\* What a step that is not the exchange's business leaves alone.
LEMMA TickSame ==
    ASSUME NEW e \in Runners, RunnerNext(e)
    PROVE  UNCHANGED <<action, exchange, order, syncer, user>> /\ TickStep(e)
BY DEF RunnerNext, TickStep, LoadStrategies, TakeTickLock, CheckPending, DecideInitialEntry, DecideLegExit,
       DecideParentExit, DecideNextEntry, Hold, Unlock, Execute, serviceState, books, userState

LEMMA BotTypesNext == BotTypes /\ [Next]_vars => BotTypes'
<1> SUFFICES ASSUME BotTypes, [Next]_vars PROVE BotTypes'
  OBVIOUS
<1> USE DEF BotTypes
<1>1. ASSUME NEW e \in Runners, RunnerNext(e) PROVE BotTypes'
  BY <1>1, TickSame, TickMoves, TypesSame
<1>2. ASSUME NEW e \in Executors, ExecutorNext(e) PROVE BotTypes'
  <2> USE DEF ExecutorNext, quiet, userState, books
  <2> SUFFICES ASSUME ExecutionStep(e) PROVE ActionTypes' /\ ExchangeTypes' /\ OrderTypes' /\ ExecutorTypes'
    BY <1>2, TypesSame
  <2>1. CASE Begin(e)
    BY <2>1, BeginMoves, TypesSame DEF Begin
  <2>2. CASE BeginRefused(e)
    BY <2>2, RefusedMoves, TypesSame DEF BeginRefused
  <2>3. CASE ClaimCheck(e)
    BY <2>3, ClaimCheckMoves, TypesSame DEF ClaimCheck
  <2>4. CASE ClaimInsert(e)
    <3>1. ActionTypes'
      BY <2>4, ClaimInsertMoves, CreateWrites, TypesSame DEF Becomes
    <3> QED BY <2>4, <3>1, ClaimInsertMoves, TypesSame DEF ClaimInsert
  <2>5. CASE GetClaimedRetry(e)
    BY <2>5, ClaimedMoves, TypesSame DEF GetClaimedRetry
  <2>6. CASE Lookup(e)
    BY <2>6, LookupMoves, TypesSame DEF Lookup
  <2>7. CASE LookupFails(e) \/ PlaceRefused(e) \/ CommitThrows(e)
    BY <2>7, TryFails, TypesSame DEF LookupFails, PlaceRefused, CommitThrows
  <2>8. CASE Place(e) \/ PlaceUnanswered(e)
    <3>1. executor[e].key \in Keys
      BY <2>8, KeyedHaveKeys DEF Place, PlaceUnanswered, KeyedPcs, ExecutorPcs
    <3>2. ExecutorTypes' /\ ExchangeTypes'
      BY <2>8, <3>1, PlaceMoves
    <3> QED BY <2>8, <3>2, TypesSame DEF Place, PlaceUnanswered
  <2>9. CASE Commit(e)
    BY <2>9, CommitMoves, TypesSame DEF Commit, Recorded, Becomes
  <2>10. CASE MarkFailedInside(e)
    BY <2>10, MarkInsideMoves, TypesSame DEF MarkFailedInside, Becomes
  <2>11. CASE MarkFailedOutside(e)
    BY <2>11, MarkOutsideMoves, TypesSame DEF MarkFailedOutside, Becomes
  <2>12. CASE RetryClaim(e)
    BY <2>12, RetryClaimMoves, TypesSame DEF RetryClaim, Becomes
  <2> QED BY <2>1, <2>2, <2>3, <2>4, <2>5, <2>6, <2>7, <2>8, <2>9, <2>10, <2>11, <2>12 DEF ExecutionStep
<1>3. ASSUME NEW e \in Retriers, NEW k \in Keys, ListNext(e, k) PROVE BotTypes'
  <2>1. RetryList(e, k) /\ e \in Executors
    BY <1>3 DEF ListNext, Executors
  <2>2. ExecutorTypes'
    BY <2>1, RetryListMoves
  <2> QED BY <1>3, <2>1, <2>2, TypesSame DEF ListNext, RetryList, quiet, userState, books
<1>4. ASSUME NEW s \in AllSyncers, SyncNext(s) PROVE BotTypes'
  <2> USE DEF SyncNext, quiet, userState, books
  <2> SUFFICES ASSUME SyncStep(s) PROVE ActionTypes' /\ ExchangeTypes' /\ OrderTypes' /\ ExecutorTypes' /\ SyncerTypes'
    BY <1>4, TypesSame
  <2>0. syncer[s].pc # "idle" => syncer[s].key \in Keys
    BY DEF SyncerTypes
  <2>1. CASE SyncFetch(s)
    BY <2>1, FetchMoves, TypesSame DEF SyncFetch
  <2>2. CASE SyncFetchFails(s) \/ LeaveResting(s)
    BY <2>2, SyncRests, TypesSame DEF SyncFetchFails, LeaveResting
  <2>3. CASE SyncCommit(s)
    BY <2>3, SyncCommitMoves, TypesSame DEF SyncCommit, Recorded, Becomes
  <2>4. CASE CancelStale(s)
    <3>1. syncer[s].key \in Keys /\ SyncGo(s, "reread") /\ CancelOnExchange(syncer[s].key)
      BY <2>0, <2>4 DEF CancelStale, SyncAt
    <3>2. SyncerTypes'
      <4>1. PICK S : syncer \in [AllSyncers -> SyncerRows(S)]
        BY DEF SyncerTypes
      <4> DEFINE new == [syncer[s] EXCEPT !.pc = "reread"]
      <4>2. syncer[s] \in SyncerRows(S)
        BY <4>1
      <4>3. new \in SyncerRows(S) /\ new.key \in Keys
        BY <3>1, <4>2 DEF SyncerRows, SyncerPcs
      <4>4. syncer' = [syncer EXCEPT ![s] = new]
        BY <3>1 DEF SyncGo
      <4> HIDE DEF new
      <4> QED BY <4>3, <4>4, SyncerRowKeeps
    <3> QED BY <2>4, <3>1, <3>2, CancelOnExchangeKeeps, TypesSame DEF CancelStale
  <2>5. CASE SyncAgain(s)
    BY <2>0, <2>5, ReadRowMoves, TypesSame DEF SyncAgain, SyncAt
  <2>6. CASE RecoverWrite(s)
    <3>1. syncer[s].key \in Keys
      BY <2>0, <2>6 DEF RecoverWrite, SyncAt
    <3>2. ActionTypes'
      BY <2>6, <3>1, CompletedWrites, FailedWrites DEF RecoverWrite, Becomes
    <3> QED BY <2>6, <3>2, SyncRests, TypesSame DEF RecoverWrite
  <2> QED BY <2>1, <2>2, <2>3, <2>4, <2>5, <2>6 DEF SyncStep
<1>5. ASSUME NEW s \in AllSyncers, NEW k \in Keys, PickNext(s, k) PROVE BotTypes'
  <2>1. SyncerTypes'
    <3>1. CASE SyncRead(s, k)
      BY <3>1, ReadRowMoves DEF SyncRead
    <3>2. CASE RecoverRead(s, k)
      <4>1. PICK S : order[k] \in OrderRows(S)
        BY DEF OrderTypes
      <4> QED BY <3>2, <4>1, SyncWaits DEF RecoverRead
    <3> QED BY <1>5, <3>1, <3>2 DEF PickNext
  <2> QED BY <1>5, <2>1, TypesSame DEF PickNext, SyncRead, RecoverRead, quiet, userState, books
<1>6. ASSUME NEW u \in Users, UserNext(u) PROVE BotTypes'
  <2> USE DEF UserNext, botState, books
  <2>1. CASE SetStatus(u)
    BY <2>1, TypesSame DEF SetStatus
  <2>2. CASE \E k \in Keys : ManualRetryRead(u, k) \/ CancelRetryRead(u, k)
    <3>1. UserTypes'
      BY <2>2, UserReads DEF ManualRetryRead, CancelRetryRead
    <3> QED BY <2>2, <3>1, TypesSame DEF ManualRetryRead, CancelRetryRead
  <2>3. CASE ManualRetryWrite(u) \/ CancelRetryWrite(u)
    <3>1. user[u].key \in Keys
      BY <2>3 DEF ManualRetryWrite, CancelRetryWrite, UserAt, UserTypes
    <3>2. ActionTypes' /\ UserTypes'
      BY <2>3, <3>1, RetryManuallyWrites, CancelRetryWrites, UserRests
         DEF ManualRetryWrite, CancelRetryWrite, Becomes
    <3> QED BY <2>3, <3>2, TypesSame DEF ManualRetryWrite, CancelRetryWrite
  <2>4. CASE Emergency(u)
    <3>1. UserTypes'
      BY <2>4, EmergencyMoves
    <3>2. CASE StopStrategies(u)
      BY <3>1, <3>2, CancelPendingWrites, TypesSame DEF StopStrategies
    <3>3. CASE ListOpenOrders(u) \/ EmergencyDone(u)
      BY <3>1, <3>3, TypesSame DEF ListOpenOrders, EmergencyDone
    <3>4. CASE \E k \in user[u].cancel : EmergencyCancel(u, k) \/ EmergencyCancelFails(u, k)
      <4>1. PICK k \in user[u].cancel : EmergencyCancel(u, k) \/ EmergencyCancelFails(u, k)
        BY <3>4
      <4>2. k \in Keys
        BY <4>1 DEF UserTypes, UserRows
      <4>3. ExchangeTypes'
        BY <4>1, <4>2, CancelOnExchangeKeeps, TypesSame DEF EmergencyCancel, EmergencyCancelFails
      <4> QED BY <3>1, <4>1, <4>3, TypesSame DEF EmergencyCancel, EmergencyCancelFails
    <3>5. CASE \E k \in user[u].mark : EmergencyMark(u, k)
      <4>1. PICK k \in user[u].mark : EmergencyMark(u, k)
        BY <3>5
      <4>2. k \in Keys
        BY <4>1 DEF UserTypes, UserRows
      <4> QED BY <3>1, <4>1, <4>2, EmergencyMarkWrites, TypesSame DEF EmergencyMark
    <3> QED BY <2>4, <3>2, <3>3, <3>4, <3>5 DEF Emergency
  <2> QED BY <1>6, <2>1, <2>2, <2>3, <2>4 DEF UserStep, Emergency
<1>7. ASSUME NEW p \in Processes, Crash(p) PROVE BotTypes'
  BY <1>7, CrashMoves, TypesSame DEF Crash, serviceState, books
<1>8. ASSUME NEW k \in Keys, BackoffNext(k) PROVE BotTypes'
  BY <1>8, BackoffWrites, TypesSame DEF BackoffNext, Backoff, Becomes, quiet, userState, books
<1>9. ASSUME NEW k \in Keys, MarketNext(k) PROVE BotTypes'
  BY <1>9, MarketMoves, TypesSame DEF MarketNext, Market, quiet, userState, books
<1>10. ASSUME ExpiryNext PROVE BotTypes'
  BY <1>10, TypesSame DEF ExpiryNext, TickLockExpires, serviceState, books, userState
<1>11. CASE UNCHANGED vars
  BY <1>11, TypesSame DEF vars, serviceState, books, userState
<1> QED BY <1>1, <1>2, <1>3, <1>4, <1>5, <1>6, <1>7, <1>8, <1>9, <1>10, <1>11 DEF Next

\* Every row has its form, and whoever works on a key has one.
THEOREM BotTyped == Spec => []BotTypes
<1>1. Init => BotTypes
  BY BotTypesInit
<1>2. BotTypes /\ [Next]_vars => BotTypes'
  BY BotTypesNext
<1> QED BY <1>1, <1>2, PTL DEF Spec

-----------------------------------------------------------------------------
(* The kinds of steps.  An executor works on a key from the moment its row    *)
(* is his: a tick once it created the row, a retry pass once it listed it.    *)

WorkPcs(e) == IF e \in Runners THEN {"place", "commit", "failing"} ELSE RetrierPcs \ {"idle"}
Working(e) == executor[e].pc \in WorkPcs(e)
Works(e, k) == Working(e) /\ executor[e].key = k

\* The executor walks on, with no key to work on or with the one it had.
Goes(e) ==
    /\ e \in Executors
    /\ UNCHANGED <<action, exchange, order, syncer, user>> /\ OnlyExecutor(e)
    /\ \/ ~Working(e)'
       \/ /\ Working(e) /\ executor[e].pc \notin {"listed", "remark"}
          /\ executor'[e].key = executor[e].key
          /\ At(e, "place")' => e \in Retriers /\ exchange[executor[e].key].status = "NONE"
          /\ At(e, "commit")' => /\ executor'[e].answer = Report(executor[e].key)
                                 /\ exchange[executor[e].key].status # "NONE"
          /\ At(e, "listed")' => FALSE

Claims(e, k) ==
    /\ e \in Runners /\ k \in Keys /\ At(e, "insert") /\ executor[e].key = k /\ ~Existing(k)
    /\ UNCHANGED <<exchange, order, syncer, user>>
    /\ Moves(e, "place") /\ Becomes(k, "PENDING", 0, FALSE)

Places(e, k) ==
    /\ e \in Executors /\ k \in Keys /\ At(e, "place") /\ executor[e].key = k
    /\ UNCHANGED <<action, order, syncer, user>>
    /\ OnlyOrderOf(k) /\ ~Live(k)
    /\ exchange'[k].status # "NONE" /\ exchange'[k].placed = exchange[k].placed + 1
    /\ \/ Moves(e, "failing")
       \/ Moves(e, "commit") /\ executor'[e].answer = Answer(exchange'[k])

Records(e, k) ==
    /\ e \in Executors /\ k \in Keys /\ At(e, "commit") /\ executor[e].key = k /\ order[k].status = "NONE"
    /\ UNCHANGED <<exchange, syncer, user>>
    /\ OnlyExecutor(e) /\ executor'[e].pc \in {"idle", "unlock"} /\ executor[e].answer \in Answers
    /\ Recorded(k, executor[e].answer, executor[e].answer.executed)
    /\ Becomes(k, Resolution(order'[k].status, order'[k].accounted), action[k].attempts, action[k].due)

FailsInside(e, k) ==
    /\ e \in Executors /\ k \in Keys /\ At(e, "failing") /\ executor[e].key = k
    /\ UNCHANGED <<exchange, order, syncer, user>>
    /\ Moves(e, IF e \in Runners THEN "unlock" ELSE "remark")
    /\ e \notin Runners => executor'[e].retryable = executor[e].retryable
    /\ executor[e].retryable \in BOOLEAN
    /\ Becomes(k, AfterFailure(k, executor[e].retryable), action[k].attempts, FALSE)

FailsOutside(e, k) ==
    /\ e \in Retriers /\ k \in Keys /\ At(e, "remark") /\ executor[e].key = k
    /\ UNCHANGED <<exchange, order, syncer, user>>
    /\ OnlyExecutor(e) /\ executor'[e].pc = "idle"
    /\ executor[e].retryable \in BOOLEAN
    /\ Becomes(k, AfterFailure(k, executor[e].retryable), action[k].attempts, FALSE)

Lists(e, k) ==
    /\ e \in Retriers /\ k \in Keys /\ At(e, "idle") /\ DueForRetry(k)
    /\ UNCHANGED <<action, exchange, order, syncer, user>>
    /\ OnlyExecutor(e) /\ executor'[e].pc = "listed" /\ executor'[e].key = k

ClaimsRetry(e, k) ==
    /\ e \in Retriers /\ k \in Keys /\ At(e, "listed") /\ executor[e].key = k /\ DueForRetry(k)
    /\ UNCHANGED <<exchange, order, syncer, user>>
    /\ Moves(e, "begin") /\ Becomes(k, "PENDING", action[k].attempts + 1, FALSE)

\* A sync walks on: it ends, reads a row, is answered, or lists an action to recover.
SyncGoes(s) ==
    /\ s \in AllSyncers
    /\ UNCHANGED <<action, exchange, order, executor, user>> /\ OnlySyncer(s)
    /\ \/ syncer'[s].pc = "idle"
       \/ /\ syncer'[s].pc = "fetch" /\ syncer'[s].row = order[syncer'[s].key]
          /\ \/ order[syncer'[s].key].status # "NONE"
             \/ syncer[s].pc # "idle" /\ syncer'[s].key = syncer[s].key
       \/ /\ SyncAt(s, "fetch") /\ syncer'[s].pc = "commit" /\ syncer'[s].key = syncer[s].key
          /\ syncer'[s].row = syncer[s].row /\ syncer'[s].answer = Report(syncer[s].key)
       \/ /\ syncer'[s].pc = "recover" /\ Recoverable(syncer'[s].key)
          /\ order[syncer'[s].key].status \in {"FILLED", "FAILED"} \cup TerminalStatuses

SyncRecords(s, k) ==
    /\ s \in AllSyncers /\ k \in Keys /\ SyncAt(s, "commit") /\ syncer[s].key = k
    /\ UNCHANGED <<exchange, executor, user>> /\ OnlySyncer(s)
    /\ syncer'[s].pc = "idle" \/ (syncer'[s].pc = "aging" /\ syncer'[s].key = k)
    /\ Recorded(k, syncer[s].answer, Accounted(s))
    /\ Becomes(k, Resolution(order'[k].status, order'[k].accounted), action[k].attempts, action[k].due)

\* An order that rests ends; another stays as it is.
Cancelled(k) ==
    /\ OnlyOrderOf(k)
    /\ \/ exchange'[k] = exchange[k]
       \/ /\ Live(k) /\ exchange'[k].status = "CANCELED"
          /\ exchange'[k].executed = exchange[k].executed /\ exchange'[k].placed = exchange[k].placed

SyncCancels(s, k) ==
    /\ s \in AllSyncers /\ k \in Keys /\ SyncAt(s, "aging") /\ syncer[s].key = k
    /\ UNCHANGED <<action, order, executor, user>> /\ OnlySyncer(s)
    /\ syncer'[s].pc = "reread" /\ syncer'[s].key = k /\ Cancelled(k)

Recovers(s, k) ==
    /\ s \in AllSyncers /\ k \in Keys /\ SyncAt(s, "recover") /\ syncer[s].key = k
    /\ UNCHANGED <<exchange, order, executor, user>> /\ OnlySyncer(s) /\ syncer'[s].pc = "idle"
    /\ \/ Becomes(k, "COMPLETED", action[k].attempts, FALSE)
       \/ Becomes(k, "PERMANENTLY_FAILED", action[k].attempts, FALSE)

OwnerReads(u, k) ==
    /\ u \in Users /\ k \in Keys
    /\ UNCHANGED <<action, exchange, order, executor, syncer>> /\ OnlyUser(u)
    /\ \/ user'[u].pc = "retrying" /\ "retry" \in Operations /\ MayRetryManually(k)
       \/ user'[u].pc = "cancelling" /\ "cancelRetry" \in Operations /\ MayCancelRetry(k)
    /\ user'[u].key = k /\ user'[u].cancel = {} /\ user'[u].mark = {}

OwnerWrites(u, k) ==
    /\ u \in Users /\ k \in Keys /\ user[u].key = k
    /\ UNCHANGED <<exchange, order, executor, syncer>> /\ OnlyUser(u) /\ user'[u] = NoRequest
    /\ \/ UserAt(u, "retrying") /\ Becomes(k, "FAILED", action[k].attempts, TRUE)
       \/ UserAt(u, "cancelling") /\ Becomes(k, "CANCELLED", action[k].attempts, FALSE)

\* Part of an emergency stop: actions are cancelled, or orders, or rows marked.
Stops(u) ==
    /\ u \in Users
    /\ "emergencyStop" \in Operations \/ user[u].pc \in {"stopping", "cancelOrders"}
    /\ UNCHANGED <<executor, syncer>> /\ OnlyUser(u)
    /\ user'[u].pc \in {"idle", "stopping", "cancelOrders"}
    /\ \A k \in user'[u].cancel \cup user'[u].mark :
          k \in user[u].cancel \cup user[u].mark \/ order[k].status \in OpenStatuses
    /\ \/ UNCHANGED <<exchange, order>> /\ ActionTypes' /\
          \A k \in Keys : IF action[k].status \in {"PENDING", "FAILED"}
                          THEN action'[k].status = "CANCELLED" ELSE action'[k] = action[k]
       \/ UNCHANGED <<action, order>> /\ (UNCHANGED exchange \/ \E k \in Keys : Cancelled(k))
       \/ UNCHANGED <<action, exchange>> /\
          \E k \in user[u].mark : OnlyRow(k) /\ order'[k].status = "CANCELLED" /\ k \in Keys

Crashes ==
    /\ UNCHANGED <<action, exchange, order>>
    /\ \A e \in Executors : executor'[e] = executor[e] \/ executor'[e].pc = "idle"
    /\ \A s \in AllSyncers : syncer'[s] = syncer[s] \/ syncer'[s].pc = "idle"
    /\ \A u \in Users : \/ user'[u] = user[u]
                        \/ user'[u].pc = "idle" /\ user'[u].cancel = {} /\ user'[u].mark = {}

BacksOff(k) ==
    /\ k \in Keys /\ action[k].status = "FAILED" /\ ~action[k].due
    /\ UNCHANGED <<exchange, order, executor, syncer, user>>
    /\ \A e \in Executors : executor[e].key = k => ~At(e, "remark")
    /\ Becomes(k, "FAILED", action[k].attempts, TRUE)

Trades(k) ==
    /\ k \in Keys /\ Live(k)
    /\ UNCHANGED <<action, order, executor, syncer, user>>
    /\ OnlyOrderOf(k) /\ exchange'[k].status # "NONE" /\ exchange'[k].placed = exchange[k].placed
    /\ exchange[k].executed <= exchange'[k].executed

Nothing == UNCHANGED <<action, exchange, order, executor, syncer, user>>

Kinds ==
    \/ \E e \in Executors : Goes(e)
    \/ \E e \in Executors, k \in Keys :
         \/ Claims(e, k) \/ Places(e, k) \/ Records(e, k) \/ FailsInside(e, k) \/ FailsOutside(e, k)
         \/ Lists(e, k) \/ ClaimsRetry(e, k)
    \/ \E s \in AllSyncers : SyncGoes(s)
    \/ \E s \in AllSyncers, k \in Keys : SyncRecords(s, k) \/ SyncCancels(s, k) \/ Recovers(s, k)
    \/ \E u \in Users, k \in Keys : OwnerReads(u, k) \/ OwnerWrites(u, k)
    \/ \E u \in Users : Stops(u)
    \/ Crashes
    \/ \E k \in Keys : BacksOff(k) \/ Trades(k)
    \/ Nothing

LEMMA ExecutorKinds ==
    ASSUME BotTypes, NEW e \in Executors, ExecutorNext(e)
    PROVE  \/ Goes(e)
           \/ \E k \in Keys : \/ Claims(e, k) \/ Places(e, k) \/ Records(e, k) \/ FailsInside(e, k)
                              \/ FailsOutside(e, k) \/ ClaimsRetry(e, k)
<1> USE DEF BotTypes
<1> DEFINE k == executor[e].key
<1>0. /\ ExecutionStep(e) /\ UNCHANGED <<syncer, user>>
      /\ e \in Runners => e \notin Retriers
      /\ e \notin Runners => e \in Retriers
  BY OrderExecutionAssumption DEF ExecutorNext, quiet, userState, Executors
<1>1. CASE Begin(e)
  <2>1. UNCHANGED <<action, exchange, order>> /\ Moves(e, IF e \in Runners THEN "claim" ELSE "claimed") /\ At(e, "begin")
    BY <1>1, BeginMoves DEF Begin, books
  <2> QED BY <1>0, <2>1 DEF Goes, Moves, Working, WorkPcs, RetrierPcs, At
<1>2. CASE BeginRefused(e)
  <2>1. UNCHANGED <<action, exchange, order>> /\ Moves(e, IF e \in Runners THEN "unlock" ELSE "remark") /\ At(e, "begin")
    BY <1>2, RefusedMoves DEF BeginRefused, books
  <2> QED BY <1>0, <2>1 DEF Goes, Moves, Working, WorkPcs, RetrierPcs, At
<1>3. CASE ClaimCheck(e)
  <2>1. UNCHANGED <<action, exchange, order>> /\ (Moves(e, "unlock") \/ Moves(e, "insert")) /\ e \in Runners
    BY <1>3, ClaimCheckMoves DEF ClaimCheck, books
  <2> QED BY <1>0, <2>1 DEF Goes, Moves, Working, WorkPcs
<1>4. CASE ClaimInsert(e)
  <2>1. UNCHANGED <<exchange, order>> /\ At(e, "insert") /\ e \in Runners /\ k \in Keys
    BY <1>4, ClaimInsertMoves DEF ClaimInsert, books
  <2>2. CASE Moves(e, "unlock") /\ UNCHANGED action
    BY <1>0, <2>1, <2>2 DEF Goes, Moves, Working, WorkPcs
  <2>3. CASE Moves(e, "place") /\ ~Existing(k) /\ Create(k, executor[e].view.cycle, executor[e].quantity)
    <3>1. Becomes(k, "PENDING", 0, FALSE)
      BY <2>1, <2>3, CreateWrites
    <3> QED BY <1>0, <2>1, <2>3, <3>1 DEF Claims
  <2> QED BY <1>4, <2>2, <2>3, ClaimInsertMoves
<1>5. CASE GetClaimedRetry(e)
  <2>1. UNCHANGED <<action, exchange, order>> /\ (Moves(e, "lookup") \/ Moves(e, "remark")) /\ At(e, "claimed") /\ e \in Retriers
    BY <1>5, ClaimedMoves DEF GetClaimedRetry, books
  <2> QED BY <1>0, <2>1 DEF Goes, Moves, Working, WorkPcs, RetrierPcs, At
<1>6. CASE Lookup(e)
  <2>1. UNCHANGED <<action, exchange, order>> /\ At(e, "lookup") /\ e \in Retriers
    BY <1>6, LookupMoves DEF Lookup, books
  <2>2. IF exchange[k].status = "NONE" THEN Moves(e, "place")
        ELSE Moves(e, "commit") /\ executor'[e].answer = Report(k)
    BY <1>6, LookupMoves
  <2> QED BY <1>0, <2>1, <2>2 DEF Goes, Moves, Working, WorkPcs, RetrierPcs, At
<1>7. CASE LookupFails(e) \/ PlaceRefused(e) \/ CommitThrows(e)
  <2>1. UNCHANGED <<action, exchange, order>> /\ Moves(e, "failing") /\ executor[e].pc \in {"lookup", "place", "commit"}
    BY <1>7, TryFails DEF LookupFails, PlaceRefused, CommitThrows, books
  <2>2. executor[e].pc = "lookup" => e \in Retriers
    BY WhoWorksWhere DEF At
  <2> QED BY <1>0, <2>1, <2>2 DEF Goes, Moves, Working, WorkPcs, RetrierPcs, At
<1>8. CASE Place(e) \/ PlaceUnanswered(e)
  <2>1. UNCHANGED <<action, order>> /\ k \in Keys
    BY <1>8, KeyedHaveKeys DEF Place, PlaceUnanswered, KeyedPcs, ExecutorPcs, books
  <2> QED BY <1>0, <1>8, <2>1, PlaceMoves DEF Places
<1>9. CASE Commit(e)
  <2>1. UNCHANGED exchange /\ At(e, "commit")
    BY <1>9 DEF Commit
  <2> QED BY <1>0, <1>9, <2>1, CommitMoves DEF Records
<1>10. CASE MarkFailedInside(e)
  <2>1. UNCHANGED <<exchange, order>> /\ At(e, "failing")
    BY <1>10 DEF MarkFailedInside, books
  <2> QED BY <1>0, <1>10, <2>1, MarkInsideMoves DEF FailsInside
<1>11. CASE MarkFailedOutside(e)
  <2>1. UNCHANGED <<exchange, order>> /\ At(e, "remark")
    BY <1>11 DEF MarkFailedOutside, books
  <2> QED BY <1>0, <1>11, <2>1, MarkOutsideMoves DEF FailsOutside
<1>12. CASE RetryClaim(e)
  <2>1. UNCHANGED <<exchange, order>> /\ At(e, "listed") /\ k \in Keys /\ e \in Retriers
    BY <1>12, RetryClaimMoves DEF RetryClaim, books
  <2>2. \/ OnlyExecutor(e) /\ executor'[e].pc = "idle" /\ UNCHANGED action
        \/ Moves(e, "begin") /\ DueForRetry(k) /\ Becomes(k, "PENDING", action[k].attempts + 1, FALSE)
    BY <1>12, RetryClaimMoves
  <2> QED BY <1>0, <2>1, <2>2 DEF Goes, ClaimsRetry, Working, WorkPcs
<1> QED BY <1>0, <1>1, <1>2, <1>3, <1>4, <1>5, <1>6, <1>7, <1>8, <1>9, <1>10, <1>11, <1>12 DEF ExecutionStep

LEMMA SyncKinds ==
    ASSUME BotTypes, NEW s \in AllSyncers, SyncNext(s)
    PROVE  SyncGoes(s) \/ \E k \in Keys : SyncRecords(s, k) \/ SyncCancels(s, k) \/ Recovers(s, k)
<1> USE DEF BotTypes
<1> DEFINE k == syncer[s].key
<1>0. SyncStep(s) /\ UNCHANGED user /\ (syncer[s].pc # "idle" => k \in Keys)
  BY DEF SyncNext, quiet, userState, SyncerTypes
<1>1. CASE SyncFetch(s)
  <2>1. UNCHANGED <<action, exchange, order, executor>> /\ SyncAt(s, "fetch")
    BY <1>1 DEF SyncFetch, books
  <2> QED BY <1>0, <1>1, <2>1, FetchMoves DEF SyncGoes
<1>2. CASE SyncFetchFails(s) \/ LeaveResting(s)
  <2>1. UNCHANGED <<action, exchange, order, executor>> /\ SyncRest(s)
    BY <1>2 DEF SyncFetchFails, LeaveResting, books
  <2> QED BY <1>0, <2>1, SyncRests DEF SyncGoes
<1>3. CASE SyncCommit(s)
  <2>1. UNCHANGED <<exchange, executor>> /\ SyncAt(s, "commit")
    BY <1>3 DEF SyncCommit
  <2> QED BY <1>0, <1>3, <2>1, SyncCommitMoves DEF SyncRecords
<1>4. CASE CancelStale(s)
  <2>1. /\ UNCHANGED <<action, order, executor>> /\ SyncAt(s, "aging") /\ k \in Keys
        /\ CancelOnExchange(k) /\ SyncGo(s, "reread")
    BY <1>0, <1>4 DEF CancelStale, SyncAt, books
  <2>2. Cancelled(k)
    BY <2>1, CancelOnExchangeKeeps DEF Cancelled
  <2>3. OnlySyncer(s) /\ syncer'[s].pc = "reread" /\ syncer'[s].key = k
    BY <2>1 DEF SyncGo, SyncerTypes, SyncerRows, OnlySyncer
  <2> QED BY <1>0, <2>1, <2>2, <2>3 DEF SyncCancels
<1>5. CASE SyncAgain(s)
  <2>1. UNCHANGED <<action, exchange, order, executor>> /\ SyncAt(s, "reread") /\ ReadRow(s, k) /\ k \in Keys
    BY <1>0, <1>5 DEF SyncAgain, SyncAt, books
  <2> QED BY <1>0, <2>1, ReadRowMoves DEF SyncGoes, SyncAt
<1>6. CASE RecoverWrite(s)
  <2>1. UNCHANGED <<exchange, order, executor>> /\ SyncAt(s, "recover") /\ SyncRest(s) /\ k \in Keys
    BY <1>0, <1>6 DEF RecoverWrite, SyncAt, books
  <2>2. MarkCompleted(k) \/ MarkFailed(k, FALSE)
    BY <1>6 DEF RecoverWrite
  <2>3. Becomes(k, "COMPLETED", action[k].attempts, FALSE) \/ Becomes(k, "PERMANENTLY_FAILED", action[k].attempts, FALSE)
    BY <2>1, <2>2, CompletedWrites, FailedWrites DEF AfterFailure
  <2> QED BY <1>0, <2>1, <2>3, SyncRests DEF Recovers
<1> QED BY <1>0, <1>1, <1>2, <1>3, <1>4, <1>5, <1>6 DEF SyncStep

LEMMA OwnerKinds ==
    ASSUME BotTypes, NEW u \in Users, UserNext(u)
    PROVE  Nothing \/ Stops(u) \/ \E k \in Keys : OwnerReads(u, k) \/ OwnerWrites(u, k)
<1> USE DEF BotTypes
<1>1. CASE SetStatus(u)
  BY <1>1 DEF SetStatus, botState, books, Nothing
<1>2. ASSUME NEW k \in Keys, ManualRetryRead(u, k) PROVE OwnerReads(u, k)
  <2>1. /\ UNCHANGED <<action, exchange, order, executor, syncer>>
        /\ "retry" \in Operations /\ MayRetryManually(k)
        /\ user' = [user EXCEPT ![u] = [NoRequest EXCEPT !.pc = "retrying", !.key = k]]
    BY <1>2 DEF ManualRetryRead, Starts, botState, books
  <2> QED BY <2>1, UserReads DEF OwnerReads
<1>3. ASSUME NEW k \in Keys, CancelRetryRead(u, k) PROVE OwnerReads(u, k)
  <2>1. /\ UNCHANGED <<action, exchange, order, executor, syncer>>
        /\ "cancelRetry" \in Operations /\ MayCancelRetry(k)
        /\ user' = [user EXCEPT ![u] = [NoRequest EXCEPT !.pc = "cancelling", !.key = k]]
    BY <1>3 DEF CancelRetryRead, Starts, botState, books
  <2> QED BY <2>1, UserReads DEF OwnerReads
<1>4. CASE ManualRetryWrite(u) \/ CancelRetryWrite(u)
  <2> DEFINE k == user[u].key
  <2>1. /\ UNCHANGED <<exchange, order, executor, syncer>> /\ UserRest(u) /\ k \in Keys
        /\ \/ UserAt(u, "retrying") /\ RetryManually(k)
           \/ UserAt(u, "cancelling") /\ CancelRetry(k)
    BY <1>4 DEF ManualRetryWrite, CancelRetryWrite, UserAt, UserTypes, books
  <2>2. OnlyUser(u) /\ user'[u] = NoRequest
    BY <2>1, UserRests
  <2>3. \/ UserAt(u, "retrying") /\ Becomes(k, "FAILED", action[k].attempts, TRUE)
        \/ UserAt(u, "cancelling") /\ Becomes(k, "CANCELLED", action[k].attempts, FALSE)
    BY <2>1, RetryManuallyWrites, CancelRetryWrites
  <2>4. OwnerWrites(u, k)
    BY <2>1, <2>2, <2>3 DEF OwnerWrites
  <2> QED BY <2>1, <2>4
<1>5. CASE Emergency(u)
  <2>1. /\ OnlyUser(u) /\ user'[u].pc \in {"idle", "stopping", "cancelOrders"}
        /\ \A k \in user'[u].cancel \cup user'[u].mark :
              k \in user[u].cancel \cup user[u].mark \/ order[k].status \in OpenStatuses
    BY <1>5, EmergencyMoves
  <2>2. CASE StopStrategies(u)
    <3>1. UNCHANGED <<executor, syncer, exchange, order>> /\ "emergencyStop" \in Operations /\ CancelPendingActions
      BY <2>2 DEF StopStrategies, Starts, books
    <3> QED BY <2>1, <3>1, CancelPendingWrites DEF Stops
  <2>3. CASE ListOpenOrders(u) \/ EmergencyDone(u)
    <3>1. UNCHANGED <<executor, syncer, action, exchange, order>> /\ user[u].pc \in {"stopping", "cancelOrders"}
      BY <2>3 DEF ListOpenOrders, EmergencyDone, botState, books, UserAt
    <3> QED BY <2>1, <3>1 DEF Stops
  <2>4. ASSUME NEW k \in user[u].cancel, EmergencyCancel(u, k) \/ EmergencyCancelFails(u, k) PROVE Stops(u)
    <3>1. k \in Keys
      BY DEF UserTypes, UserRows
    <3>2. UNCHANGED <<executor, syncer, action, order>> /\ user[u].pc \in {"stopping", "cancelOrders"}
      BY <2>4 DEF EmergencyCancel, EmergencyCancelFails, botState, books, UserAt
    <3>3. UNCHANGED exchange \/ Cancelled(k)
      <4>1. CASE EmergencyCancel(u, k)
        BY <3>1, <4>1, CancelOnExchangeKeeps DEF EmergencyCancel, Cancelled
      <4>2. CASE EmergencyCancelFails(u, k)
        BY <4>2 DEF EmergencyCancelFails, botState
      <4> QED BY <2>4, <4>1, <4>2
    <3> QED BY <2>1, <3>1, <3>2, <3>3 DEF Stops
  <2>5. ASSUME NEW k \in user[u].mark, EmergencyMark(u, k) PROVE Stops(u)
    <3>1. k \in Keys
      BY DEF UserTypes, UserRows
    <3>2. UNCHANGED <<executor, syncer, action, exchange>> /\ user[u].pc \in {"stopping", "cancelOrders"}
      BY <2>5 DEF EmergencyMark, UserAt
    <3> QED BY <2>1, <2>5, <3>1, <3>2, EmergencyMarkWrites DEF Stops
  <2> QED BY <1>5, <2>2, <2>3, <2>4, <2>5 DEF Emergency
<1> QED BY <1>1, <1>2, <1>3, <1>4, <1>5 DEF UserNext, UserStep, Emergency

LEMMA StepKinds == BotTypes /\ [Next]_vars => Kinds
<1> SUFFICES ASSUME BotTypes, [Next]_vars PROVE Kinds
  OBVIOUS
<1>1. ASSUME NEW e \in Runners, RunnerNext(e) PROVE Goes(e) /\ e \in Executors
  <2>1. UNCHANGED <<action, exchange, order, syncer, user>> /\ TickStep(e) /\ e \in Executors
    BY <1>1, TickSame DEF Executors
  <2>2. OnlyExecutor(e) /\ executor'[e].pc \in {"idle", "loaded", "locked", "deciding", "begin", "unlock"}
    BY <2>1, TickMoves DEF BotTypes
  <2> QED BY <2>1, <2>2 DEF Goes, Working, WorkPcs
<1>2. ASSUME NEW e \in Executors, ExecutorNext(e) PROVE Kinds
  BY <1>2, ExecutorKinds DEF Kinds
<1>3. ASSUME NEW e \in Retriers, NEW k \in Keys, ListNext(e, k) PROVE Kinds
  <2>1. /\ RetryList(e, k) /\ e \in Executors /\ At(e, "idle") /\ DueForRetry(k)
        /\ UNCHANGED <<action, exchange, order, syncer, user>>
    BY <1>3 DEF ListNext, Executors, RetryList, quiet, userState, books
  <2>2. Lists(e, k)
    BY <2>1, RetryListMoves DEF Lists, BotTypes
  <2> QED BY <2>1, <2>2 DEF Kinds
<1>4. ASSUME NEW s \in AllSyncers, SyncNext(s) PROVE Kinds
  BY <1>4, SyncKinds DEF Kinds
<1>5. ASSUME NEW s \in AllSyncers, NEW k \in Keys, PickNext(s, k) PROVE SyncGoes(s)
  <2>0. UNCHANGED <<action, exchange, order, executor, user>>
    BY <1>5 DEF PickNext, SyncRead, RecoverRead, quiet, userState, books
  <2>1. CASE SyncRead(s, k)
    <3>1. order[k].status # "NONE" /\ ReadRow(s, k)
      BY <2>1 DEF SyncRead
    <3> QED BY <2>0, <3>1, ReadRowMoves DEF SyncGoes, BotTypes
  <2>2. CASE RecoverRead(s, k)
    <3>1. PICK S : order[k] \in OrderRows(S)
      BY DEF BotTypes, OrderTypes
    <3>2. OnlySyncer(s) /\ syncer'[s].pc = "recover" /\ syncer'[s].key = k
      BY <2>2, <3>1, SyncWaits DEF RecoverRead, BotTypes
    <3> QED BY <2>0, <2>2, <3>2 DEF SyncGoes, RecoverRead
  <2> QED BY <1>5, <2>1, <2>2 DEF PickNext
<1>6. ASSUME NEW u \in Users, UserNext(u) PROVE Kinds
  BY <1>6, OwnerKinds DEF Kinds
<1>7. ASSUME NEW p \in Processes, Crash(p) PROVE Crashes
  BY <1>7, CrashMoves DEF Crash, Crashes, BotTypes, serviceState, books
<1>8. ASSUME NEW k \in Keys, BackoffNext(k) PROVE BacksOff(k)
  <2>1. /\ BackoffElapses(k) /\ UNCHANGED <<exchange, order, executor, syncer, user>>
        /\ \A e \in Executors : executor[e].key = k => ~At(e, "remark")
        /\ action[k].status = "FAILED" /\ ~action[k].due
    BY <1>8 DEF BackoffNext, Backoff, BackoffElapses, quiet, userState, books
  <2> QED BY <2>1, BackoffWrites DEF BacksOff, BotTypes
<1>9. ASSUME NEW k \in Keys, MarketNext(k) PROVE Trades(k)
  <2>1. Market(k) /\ UNCHANGED <<action, order, executor, syncer, user>>
    BY <1>9 DEF MarketNext, Market, quiet, userState, books
  <2> QED BY <2>1, MarketMoves DEF Trades, BotTypes
<1>10. ExpiryNext => Nothing
  BY DEF ExpiryNext, TickLockExpires, serviceState, books, userState, Nothing
<1>11. UNCHANGED vars => Nothing
  BY DEF vars, serviceState, books, userState, Nothing
<1> QED BY <1>1, <1>2, <1>3, <1>4, <1>5, <1>6, <1>7, <1>8, <1>9, <1>10, <1>11 DEF Next, Kinds

-----------------------------------------------------------------------------
(* An order is placed once.  Whoever works on a key is alone with it: a tick  *)
(* because it created the row, a retry pass because it won the claim of a     *)
(* failed action; only a retry that the owner starts by hand can give one     *)
(* action to two passes.                                                     *)

Holds(e, k) == Works(e, k) /\ ~At(e, "listed")
Writes(u, k) == user[u].pc \in {"retrying", "cancelling"} /\ user[u].key = k

NoManualRetry == "retry" \notin Operations
OneRetryPass == \A q, r \in Retriers : q = r

\* Nobody works on an action, a row or an order that does not exist.
RowsExist ==
    /\ \A k \in Keys : order[k].status # "NONE" \/ exchange[k].status # "NONE" => Existing(k)
    /\ \A k \in Keys, e \in Executors : Works(e, k) => Existing(k)
    /\ \A k \in Keys, u \in Users : Writes(u, k) => Existing(k)
    /\ \A s \in AllSyncers : syncer[s].pc # "idle" => order[syncer[s].key].status # "NONE"
    /\ \A u \in Users : \A k \in user[u].cancel \cup user[u].mark : order[k].status # "NONE"

\* A tick that is about to place an order is the only one to know the action.
FirstAttempts ==
    \A e \in Runners, k \in Keys : At(e, "place") /\ executor[e].key = k =>
        /\ \A d \in Executors \ {e} : ~Works(d, k)
        /\ \A u \in Users : ~(UserAt(u, "retrying") /\ user[u].key = k)
        /\ action[k].status \notin {"FAILED", "PERMANENTLY_FAILED"}
        /\ order[k].status = "NONE"

\* Without manual retries one executor holds an action, and nobody can claim it.
OneHolder ==
    NoManualRetry =>
        /\ \A u \in Users : ~UserAt(u, "retrying")
        /\ \A k \in Keys, d, e \in Executors : Holds(d, k) /\ Holds(e, k) => d = e
        /\ \A k \in Keys, e \in Executors : Holds(e, k) =>
              IF At(e, "remark") THEN ~DueForRetry(k) ELSE action[k].status # "FAILED"

PlacedOnce ==
    /\ \A k \in Keys : exchange[k].placed = IF exchange[k].status = "NONE" THEN 0 ELSE 1
    /\ \A k \in Keys, e \in Executors : Works(e, k) /\ At(e, "place") => exchange[k].status = "NONE"

PlacedInv == RowsExist /\ FirstAttempts /\ OneHolder /\ PlacedOnce

LEMMA ResolutionsExist ==
    ASSUME NEW status, NEW n
    PROVE  Resolution(status, n) \in {"COMPLETED", "CANCELLED", "SUBMITTED"}
BY DEF Resolution

\* What exists never ceases to, whoever steps.
LEMMA ExistingStays ==
    ASSUME BotTypes, RowsExist, Kinds, NEW k \in Keys
    PROVE  /\ Existing(k) => Existing(k)'
           /\ order[k].status # "NONE" => order'[k].status # "NONE"
           /\ exchange[k].status # "NONE" => exchange'[k].status # "NONE"
<1>1. ASSUME NEW e \in Executors, Goes(e) PROVE UNCHANGED <<action, order, exchange>>
  BY <1>1 DEF Goes
<1>2. ASSUME NEW e \in Executors, NEW j \in Keys,
             \/ Claims(e, j) \/ Places(e, j) \/ Records(e, j) \/ FailsInside(e, j) \/ FailsOutside(e, j)
             \/ Lists(e, j) \/ ClaimsRetry(e, j)
      PROVE  /\ action'[k] # action[k] => action'[k].status # "NONE"
             /\ order'[k] # order[k] => order'[k].status # "NONE"
             /\ exchange'[k] # exchange[k] => exchange'[k].status # "NONE"
  BY <1>2, ResolutionsExist DEF Claims, Places, Records, FailsInside, FailsOutside, Lists, ClaimsRetry, Becomes,
     OnlyAction, Recorded, OnlyRow, OnlyOrderOf, AfterFailure
<1>3. ASSUME NEW s \in AllSyncers, SyncGoes(s) PROVE UNCHANGED <<action, order, exchange>>
  BY <1>3 DEF SyncGoes
<1>4. ASSUME NEW s \in AllSyncers, NEW j \in Keys, SyncRecords(s, j) \/ SyncCancels(s, j) \/ Recovers(s, j)
      PROVE  /\ action'[k] # action[k] => action'[k].status # "NONE"
             /\ order'[k] # order[k] => order'[k].status # "NONE"
             /\ exchange'[k] # exchange[k] => exchange'[k].status # "NONE"
  BY <1>4, ResolutionsExist DEF SyncRecords, SyncCancels, Recovers, Becomes, OnlyAction, Recorded, OnlyRow,
     Cancelled, OnlyOrderOf
<1>5. ASSUME NEW u \in Users, NEW j \in Keys, OwnerReads(u, j) \/ OwnerWrites(u, j)
      PROVE  UNCHANGED <<order, exchange>> /\ (action'[k] # action[k] => action'[k].status # "NONE")
  BY <1>5 DEF OwnerReads, OwnerWrites, Becomes, OnlyAction
<1>6. ASSUME NEW u \in Users, Stops(u)
      PROVE  /\ action'[k] # action[k] => action'[k].status # "NONE"
             /\ order'[k] # order[k] => order'[k].status # "NONE"
             /\ exchange'[k] # exchange[k] => exchange'[k].status # "NONE"
  BY <1>6 DEF Stops, OnlyRow, Cancelled, OnlyOrderOf
<1>7. ASSUME Crashes \/ Nothing PROVE UNCHANGED <<action, order, exchange>>
  BY <1>7 DEF Crashes, Nothing
<1>8. ASSUME NEW j \in Keys, BacksOff(j) \/ Trades(j)
      PROVE  /\ action'[k] # action[k] => action'[k].status # "NONE"
             /\ UNCHANGED order
             /\ exchange'[k] # exchange[k] => exchange'[k].status # "NONE"
  BY <1>8 DEF BacksOff, Trades, Becomes, OnlyAction, OnlyOrderOf
<1> QED BY <1>1, <1>2, <1>3, <1>4, <1>5, <1>6, <1>7, <1>8 DEF Kinds, Existing

\* What a step of an executor means for the keys that are worked on.
LEMMA OthersWork ==
    ASSUME NEW e \in Executors, OnlyExecutor(e), NEW d \in Executors \ {e}, NEW k
    PROVE  /\ Works(d, k)' = Works(d, k) /\ Holds(d, k)' = Holds(d, k)
           /\ \A pc : At(d, pc)' = At(d, pc)
BY DEF OnlyExecutor, Works, Working, Holds, At, WorkPcs

LEMMA RowsExistNext == BotTypes /\ BotTypes' /\ RowsExist /\ Kinds => RowsExist'
<1> SUFFICES ASSUME BotTypes, BotTypes', RowsExist, Kinds PROVE RowsExist'
  OBVIOUS
<1> DEFINE Same == UNCHANGED <<order, exchange, syncer, user>>
<1>0. /\ \A k \in Keys : /\ Existing(k) => Existing(k)'
                         /\ order[k].status # "NONE" => order'[k].status # "NONE"
      /\ \A s \in AllSyncers : syncer[s].pc # "idle" => syncer[s].key \in Keys
      /\ \A s \in AllSyncers : syncer'[s].pc # "idle" => syncer'[s].key \in Keys
      /\ \A u \in Users : user[u].cancel \subseteq Keys /\ user[u].mark \subseteq Keys
      /\ \A u \in Users : user'[u].cancel \subseteq Keys /\ user'[u].mark \subseteq Keys
  BY ExistingStays DEF BotTypes, SyncerTypes, UserTypes, UserRows
<1>1. ASSUME \A k \in Keys : order'[k].status # "NONE" \/ exchange'[k].status # "NONE" =>
                \/ Existing(k)' \/ order[k].status # "NONE" \/ exchange[k].status # "NONE",
             \A k \in Keys, e \in Executors : Works(e, k)' => Works(e, k) \/ Existing(k)',
             \A k \in Keys, u \in Users : Writes(u, k)' => Writes(u, k) \/ Existing(k)',
             \A s \in AllSyncers : syncer'[s].pc # "idle" =>
                \/ syncer[s].pc # "idle" /\ syncer[s].key = syncer'[s].key
                \/ order'[syncer'[s].key].status # "NONE",
             \A u \in Users : \A k \in user'[u].cancel \cup user'[u].mark :
                k \in user[u].cancel \cup user[u].mark \/ order[k].status # "NONE"
      PROVE  RowsExist'
  BY <1>0, <1>1 DEF RowsExist
<1>2. ASSUME UNCHANGED <<executor>> PROVE \A k, e : Works(e, k)' = Works(e, k)
  BY <1>2 DEF Works, Working, WorkPcs
<1>3. ASSUME UNCHANGED <<user>> PROVE \A k, u : Writes(u, k)' = Writes(u, k)
  BY <1>3 DEF Writes
<1>4. ASSUME NEW e \in Executors, Goes(e) PROVE RowsExist'
  BY <1>1, <1>3, <1>4, OthersWork DEF Goes, Works
<1>5. ASSUME NEW e \in Executors, NEW k \in Keys,
             \/ Claims(e, k) \/ Places(e, k) \/ Records(e, k) \/ FailsInside(e, k) \/ FailsOutside(e, k)
             \/ Lists(e, k) \/ ClaimsRetry(e, k)
      PROVE  RowsExist'
  <2>1. UNCHANGED <<syncer, user>> /\ OnlyExecutor(e) /\ OnlyRow(k) /\ OnlyOrderOf(k)
    BY <1>5 DEF Claims, Places, Records, FailsInside, FailsOutside, Lists, ClaimsRetry, Moves, Recorded,
       OnlyRow, OnlyOrderOf
  <2>5. Working(e)' => executor'[e].key = k
    BY <1>5 DEF Claims, Places, Records, FailsInside, FailsOutside, Lists, ClaimsRetry, Moves,
       Working, WorkPcs, RetrierPcs
  <2>2. Existing(k)'
    <3>1. CASE Claims(e, k) \/ FailsInside(e, k) \/ FailsOutside(e, k) \/ ClaimsRetry(e, k)
      BY <3>1 DEF Claims, FailsInside, FailsOutside, ClaimsRetry, Becomes, Existing, AfterFailure
    <3>2. CASE Places(e, k)
      <4>1. Works(e, k)
        BY <3>2 DEF Places, Works, Working, WorkPcs, At, RetrierPcs
      <4> QED BY <1>0, <4>1 DEF RowsExist
    <3>3. CASE Records(e, k)
      BY <3>3, ResolutionsExist DEF Records, Becomes, Existing
    <3>4. CASE Lists(e, k)
      BY <3>4 DEF Lists, DueForRetry, Existing
    <3> QED BY <1>5, <3>1, <3>2, <3>3, <3>4
  <2>3. \A j \in Keys : j # k => order'[j] = order[j] /\ exchange'[j] = exchange[j]
    BY <2>1 DEF OnlyRow, OnlyOrderOf
  <2>4. \A j \in Keys, d \in Executors : Works(d, j)' => Works(d, j) \/ j = k
    BY <2>1, <2>5, OthersWork DEF Works
  <2> QED BY <1>1, <1>3, <2>1, <2>2, <2>3, <2>4
<1>6. ASSUME NEW s \in AllSyncers, SyncGoes(s) PROVE RowsExist'
  <2>1. /\ UNCHANGED <<action, exchange, order, executor, user>> /\ OnlySyncer(s)
        /\ syncer'[s].pc # "idle" => \/ syncer[s].pc # "idle" /\ syncer[s].key = syncer'[s].key
                                     \/ order'[syncer'[s].key].status # "NONE"
    BY <1>6 DEF SyncGoes, SyncAt, TerminalStatuses
  <2> QED BY <1>1, <1>2, <1>3, <2>1 DEF OnlySyncer
<1>7. ASSUME NEW s \in AllSyncers, NEW k \in Keys, SyncRecords(s, k) \/ SyncCancels(s, k) \/ Recovers(s, k)
      PROVE  RowsExist'
  <2>1. /\ UNCHANGED <<executor, user>> /\ OnlySyncer(s)
        /\ syncer'[s].pc # "idle" => syncer'[s].key = k
        /\ syncer[s].pc # "idle" /\ syncer[s].key = k
        /\ OnlyRow(k) /\ OnlyOrderOf(k)
    BY <1>7 DEF SyncRecords, SyncCancels, Recovers, SyncAt, Cancelled, Recorded, OnlyRow, OnlyOrderOf
  <2>2. Existing(k)'
    BY <1>0, <2>1 DEF RowsExist
  <2>3. \A j \in Keys : j # k => order'[j] = order[j] /\ exchange'[j] = exchange[j]
    BY <2>1 DEF OnlyRow, OnlyOrderOf
  <2> QED BY <1>1, <1>2, <1>3, <2>1, <2>2, <2>3 DEF OnlySyncer
<1>8. ASSUME NEW u \in Users, NEW k \in Keys, OwnerReads(u, k) PROVE RowsExist'
  <2>1. /\ UNCHANGED <<exchange, order, executor, syncer>> /\ OnlyUser(u) /\ user'[u].key = k
        /\ user'[u].cancel = {} /\ user'[u].mark = {} /\ Existing(k)'
    BY <1>8 DEF OwnerReads, MayRetryManually, MayCancelRetry, Existing
  <2> QED BY <1>1, <1>2, <2>1 DEF OnlyUser, Writes
<1>9. ASSUME NEW u \in Users, NEW k \in Keys, OwnerWrites(u, k) PROVE RowsExist'
  <2>1. UNCHANGED <<exchange, order, executor, syncer>> /\ OnlyUser(u) /\ user'[u] = NoRequest
    BY <1>9 DEF OwnerWrites
  <2> QED BY <1>1, <1>2, <2>1, NoRequestRow DEF OnlyUser, Writes
<1>10. ASSUME NEW u \in Users, Stops(u) PROVE RowsExist'
  <2>1. /\ UNCHANGED <<executor, syncer>> /\ OnlyUser(u) /\ user'[u].pc \notin {"retrying", "cancelling"}
        /\ \A k \in user'[u].cancel \cup user'[u].mark :
              k \in user[u].cancel \cup user[u].mark \/ order[k].status # "NONE"
        /\ \A k \in Keys : exchange'[k].status # "NONE" => exchange[k].status # "NONE"
        /\ \A k \in Keys : order'[k].status # "NONE" => order[k].status # "NONE"
    BY <1>10 DEF Stops, OpenStatuses, Cancelled, OnlyOrderOf, Live, OnlyRow, RowsExist
  <2> QED BY <1>1, <1>2, <2>1 DEF OnlyUser, Writes
<1>11. CASE Crashes
  <2>1. \A k : \A e \in Executors : Works(e, k)' => Works(e, k)
    BY <1>11 DEF Crashes, Works, Working, WorkPcs
  <2>2. \A k : \A u \in Users : Writes(u, k)' => Writes(u, k)
    BY <1>11 DEF Crashes, Writes
  <2> QED BY <1>1, <1>11, <2>1, <2>2 DEF Crashes
<1>12. ASSUME NEW k \in Keys, BacksOff(k) \/ Trades(k) PROVE RowsExist'
  <2>1. /\ UNCHANGED <<order, executor, syncer, user>>
        /\ \A j \in Keys : exchange'[j].status # "NONE" => exchange[j].status # "NONE"
    BY <1>12 DEF BacksOff, Trades, OnlyOrderOf, Live
  <2> QED BY <1>1, <1>2, <1>3, <2>1
<1>13. CASE Nothing
  BY <1>1, <1>2, <1>3, <1>13 DEF Nothing
<1> QED BY <1>4, <1>5, <1>6, <1>7, <1>8, <1>9, <1>10, <1>11, <1>12, <1>13 DEF Kinds

\* The tick e is about to place the order of k.
Attempts(e, k) == e \in Runners /\ k \in Keys /\ At(e, "place") /\ executor[e].key = k

LEMMA AttemptsAlone ==
    ASSUME RowsExist, FirstAttempts, NEW e \in Executors, NEW k, Attempts(e, k)
    PROVE  /\ Works(e, k) /\ Existing(k) /\ order[k].status = "NONE"
           /\ \A d \in Executors : Works(d, k) => d = e
           /\ \A u \in Users : ~(UserAt(u, "retrying") /\ user[u].key = k)
           /\ action[k].status \notin {"FAILED", "PERMANENTLY_FAILED"}
<1>1. Works(e, k)
  BY DEF Attempts, Works, Working, WorkPcs, At
<1> QED BY <1>1 DEF Attempts, RowsExist, FirstAttempts

LEMMA FirstAttemptsNext ==
    BotTypes /\ RowsExist /\ FirstAttempts /\ Kinds => FirstAttempts'
<1> SUFFICES ASSUME BotTypes, RowsExist, FirstAttempts, Kinds,
                    NEW e \in Executors, NEW k \in Keys, Attempts(e, k)'
             PROVE  /\ \A d \in Executors \ {e} : ~Works(d, k)'
                    /\ \A u \in Users : ~(UserAt(u, "retrying") /\ user[u].key = k)'
                    /\ action'[k].status \notin {"FAILED", "PERMANENTLY_FAILED"}
                    /\ order'[k].status = "NONE"
  BY DEF FirstAttempts, Attempts, Executors
<1> DEFINE Alone == /\ \A d \in Executors \ {e} : ~Works(d, k)'
                    /\ \A u \in Users : ~(UserAt(u, "retrying") /\ user[u].key = k)'
                    /\ action'[k].status \notin {"FAILED", "PERMANENTLY_FAILED"}
                    /\ order'[k].status = "NONE"
<1>1. ASSUME Attempts(e, k),
             \A d \in Executors : Works(d, k)' => Works(d, k),
             \A u \in Users : (UserAt(u, "retrying") /\ user[u].key = k)' => UserAt(u, "retrying") /\ user[u].key = k,
             action'[k].status \in {"FAILED", "PERMANENTLY_FAILED"} => action[k].status \in {"FAILED", "PERMANENTLY_FAILED"},
             order[k].status = "NONE" => order'[k].status = "NONE"
      PROVE  Alone
  BY <1>1, AttemptsAlone
<1>2. ASSUME UNCHANGED executor PROVE Attempts(e, k) /\ \A d : Works(d, k)' = Works(d, k)
  BY <1>2 DEF Attempts, At, Works, Working, WorkPcs
<1>3. ASSUME UNCHANGED user
      PROVE  \A u : (UserAt(u, "retrying") /\ user[u].key = k)' = (UserAt(u, "retrying") /\ user[u].key = k)
  BY <1>3 DEF UserAt
<1>4. ASSUME NEW d \in Executors, OnlyExecutor(d), d # e PROVE Attempts(e, k)
  BY <1>4 DEF OnlyExecutor, Attempts, At
<1>5. ASSUME NEW d \in Executors, Goes(d)
      PROVE  /\ d # e
             /\ \A c \in Executors : Works(c, k)' => Works(c, k)
             /\ UNCHANGED <<action, order, user>> /\ OnlyExecutor(d)
  <2>1. d # e
    BY <1>5, OrderExecutionAssumption DEF Goes, Attempts, Working, WorkPcs, At
  <2> QED BY <1>5, <2>1, OthersWork DEF Goes, Works
<1>6. ASSUME NEW d \in Executors, Goes(d)
      PROVE  Alone
  BY <1>1, <1>3, <1>4, <1>5, <1>6
<1>7. ASSUME NEW d \in Executors, NEW j \in Keys, Claims(d, j), d = e
      PROVE  Alone
  <2>1. k = j /\ ~Existing(k) /\ UNCHANGED <<order, user>> /\ OnlyExecutor(d) /\ action'[k].status = "PENDING"
    BY <1>7 DEF Claims, Moves, Attempts, Becomes
  <2>2. \A c \in Executors : ~Works(c, k)
    BY <2>1 DEF RowsExist
  <2>3. \A c \in Executors \ {e} : ~Works(c, k)'
    BY <1>7, <2>1, <2>2, OthersWork
  <2>4. \A u \in Users : ~(UserAt(u, "retrying") /\ user[u].key = k)'
    BY <2>1 DEF RowsExist, Writes, UserAt
  <2>5. order'[k].status = "NONE"
    BY <2>1 DEF RowsExist
  <2> QED BY <2>1, <2>3, <2>4, <2>5
<1>8. ASSUME NEW d \in Executors, NEW j \in Keys,
             \/ Claims(d, j) \/ Places(d, j) \/ Records(d, j) \/ FailsInside(d, j) \/ FailsOutside(d, j)
             \/ Lists(d, j) \/ ClaimsRetry(d, j),
             ~(Claims(d, j) /\ d = e)
      PROVE  Alone
  <2>1. d # e
    BY <1>8 DEF Places, Records, FailsInside, FailsOutside, Lists, ClaimsRetry, Moves, Attempts, At
  <2>2. OnlyExecutor(d) /\ UNCHANGED user
    BY <1>8 DEF Claims, Places, Records, FailsInside, FailsOutside, Lists, ClaimsRetry, Moves
  <2>3. Attempts(e, k)
    BY <1>4, <2>1, <2>2
  <2>4. /\ Existing(k) /\ \A c \in Executors : Works(c, k) => c = e
        /\ action[k].status \notin {"FAILED", "PERMANENTLY_FAILED"}
    BY <2>3, AttemptsAlone
  <2>5. k # j
    <3>1. CASE Claims(d, j)
      BY <2>4, <3>1 DEF Claims
    <3>2. CASE Lists(d, j)
      BY <2>4, <3>2 DEF Lists, DueForRetry
    <3>3. CASE Places(d, j) \/ Records(d, j) \/ FailsInside(d, j) \/ FailsOutside(d, j) \/ ClaimsRetry(d, j)
      <4>1. Works(d, j)
        BY <3>3, OrderExecutionAssumption DEF Places, Records, FailsInside, FailsOutside, ClaimsRetry, Works, Working, WorkPcs, At, RetrierPcs
      <4> QED BY <2>1, <2>4, <4>1
    <3> QED BY <1>8, <3>1, <3>2, <3>3
  <2>6. OnlyRow(j) /\ OnlyAction(j) /\ (Working(d)' => executor'[d].key = j)
    <3>1. OnlyRow(j) /\ OnlyAction(j)
      BY <1>8 DEF Claims, Places, Records, FailsInside, FailsOutside, Lists, ClaimsRetry, Recorded, Becomes, OnlyRow, OnlyAction
    <3>2. Working(d)' => executor'[d].key = j
      BY <1>8 DEF Claims, Places, Records, FailsInside, FailsOutside, Lists, ClaimsRetry, Moves,
         Working, WorkPcs, RetrierPcs
    <3> QED BY <3>1, <3>2
  <2>7. \A c \in Executors : Works(c, k)' => Works(c, k)
    BY <2>2, <2>5, <2>6, OthersWork DEF Works
  <2>8. order'[k] = order[k] /\ action'[k] = action[k]
    BY <2>5, <2>6 DEF OnlyRow, OnlyAction
  <2> QED BY <1>1, <1>3, <2>2, <2>3, <2>7, <2>8
<1>9. ASSUME NEW s \in AllSyncers, SyncGoes(s)
      PROVE  UNCHANGED <<executor, user, action, order>>
  BY <1>9 DEF SyncGoes
<1>10. ASSUME NEW s \in AllSyncers, NEW j \in Keys, SyncRecords(s, j) \/ SyncCancels(s, j) \/ Recovers(s, j)
       PROVE  UNCHANGED <<executor, user>> /\ (Attempts(e, k) => order'[k] = order[k] /\ action'[k] = action[k])
  <2>1. UNCHANGED <<executor, user>> /\ OnlyRow(j) /\ OnlyAction(j)
    BY <1>10 DEF SyncRecords, SyncCancels, Recovers, Recorded, Becomes, OnlyRow, OnlyAction
  <2>2. order[j].status # "NONE"
    BY <1>10 DEF SyncRecords, SyncCancels, Recovers, SyncAt, RowsExist
  <2> QED BY <2>1, <2>2, AttemptsAlone DEF OnlyRow, OnlyAction
<1>11. ASSUME NEW u \in Users, NEW j \in Keys, OwnerReads(u, j)
       PROVE  Alone
  <2>1. /\ UNCHANGED <<executor, action, order>> /\ OnlyUser(u) /\ user'[u].key = j
        /\ user'[u].pc = "retrying" => action[j].status \in {"FAILED", "PERMANENTLY_FAILED"}
    BY <1>11 DEF OwnerReads, MayRetryManually
  <2>2. Attempts(e, k)
    BY <1>2, <2>1
  <2>3. \A v \in Users : (UserAt(v, "retrying") /\ user[v].key = k)' => UserAt(v, "retrying") /\ user[v].key = k
    BY <2>1, <2>2, AttemptsAlone DEF OnlyUser, UserAt
  <2> QED BY <1>1, <1>2, <2>1, <2>2, <2>3
<1>12. ASSUME NEW u \in Users, NEW j \in Keys, OwnerWrites(u, j)
       PROVE  Alone
  <2>1. UNCHANGED <<executor, order>> /\ OnlyUser(u) /\ user'[u].pc = "idle" /\ OnlyAction(j) /\ user[u].key = j
    BY <1>12, NoRequestRow DEF OwnerWrites, Becomes
  <2>2. Attempts(e, k)
    BY <1>2, <2>1
  <2>3. action'[k].status \in {"FAILED", "PERMANENTLY_FAILED"} => action[k].status \in {"FAILED", "PERMANENTLY_FAILED"}
    <3>1. CASE k = j
      BY <1>12, <2>1, <2>2, <3>1, AttemptsAlone DEF OwnerWrites, Becomes
    <3>2. CASE k # j
      BY <2>1, <3>2 DEF OnlyAction
    <3> QED BY <3>1, <3>2
  <2>4. \A v \in Users : (UserAt(v, "retrying") /\ user[v].key = k)' => UserAt(v, "retrying") /\ user[v].key = k
    BY <2>1 DEF OnlyUser, UserAt
  <2> QED BY <1>1, <1>2, <2>1, <2>2, <2>3, <2>4
<1>13. ASSUME NEW u \in Users, Stops(u)
       PROVE  Alone
  <2>1. UNCHANGED executor /\ OnlyUser(u) /\ user'[u].pc \in {"idle", "stopping", "cancelOrders"}
    BY <1>13 DEF Stops
  <2>2. Attempts(e, k)
    BY <1>2, <2>1
  <2>3. action'[k].status \in {"FAILED", "PERMANENTLY_FAILED"} => action[k].status \in {"FAILED", "PERMANENTLY_FAILED"}
    BY <1>13 DEF Stops
  <2>4. order[k].status = "NONE" => order'[k].status = "NONE"
    BY <1>13 DEF Stops, OnlyRow, RowsExist
  <2>5. \A v \in Users : (UserAt(v, "retrying") /\ user[v].key = k)' => UserAt(v, "retrying") /\ user[v].key = k
    BY <2>1 DEF OnlyUser, UserAt
  <2> QED BY <1>1, <1>2, <2>1, <2>2, <2>3, <2>4, <2>5
<1>14. CASE Crashes
  <2>1. Attempts(e, k)
    BY <1>14 DEF Crashes, Attempts, At
  <2>2. \A c \in Executors : Works(c, k)' => Works(c, k)
    BY <1>14 DEF Crashes, Works, Working, WorkPcs
  <2>3. \A v \in Users : (UserAt(v, "retrying") /\ user[v].key = k)' => UserAt(v, "retrying") /\ user[v].key = k
    BY <1>14 DEF Crashes, UserAt
  <2> QED BY <1>1, <1>14, <2>1, <2>2, <2>3 DEF Crashes
<1>15. ASSUME NEW j \in Keys, BacksOff(j) \/ Trades(j)
       PROVE  UNCHANGED <<executor, user, order>> /\ (Attempts(e, k) => action'[k] = action[k])
  <2>1. UNCHANGED <<executor, user, order>> /\ OnlyAction(j)
    BY <1>15 DEF BacksOff, Trades, Becomes, OnlyAction
  <2>2. UNCHANGED action \/ action[j].status = "FAILED"
    BY <1>15 DEF BacksOff, Trades
  <2> QED BY <2>1, <2>2, AttemptsAlone DEF OnlyAction
<1>16. Nothing => UNCHANGED <<executor, user, action, order>>
  BY DEF Nothing
<1>17. ASSUME UNCHANGED <<executor, user>>, Attempts(e, k) => order'[k] = order[k] /\ action'[k] = action[k]
       PROVE  Alone
  BY <1>1, <1>2, <1>3, <1>17
<1> QED BY <1>6, <1>7, <1>8, <1>9, <1>10, <1>11, <1>12, <1>13, <1>14, <1>15, <1>16, <1>17 DEF Kinds

\* Nobody can claim k while e holds it.
Unclaimable(e, k) == IF At(e, "remark") THEN ~DueForRetry(k) ELSE action[k].status # "FAILED"

LEMMA HoldersSame ==
    ASSUME UNCHANGED executor
    PROVE  \A e, k : Holds(e, k)' = Holds(e, k) /\ \A pc : At(e, pc)' = At(e, pc)
BY DEF Holds, Works, Working, WorkPcs, At

LEMMA OneHolderNext == BotTypes /\ RowsExist /\ OneHolder /\ Kinds => OneHolder'
<1> SUFFICES ASSUME BotTypes, RowsExist, OneHolder, Kinds, NoManualRetry
             PROVE  /\ \A u \in Users : ~UserAt(u, "retrying")'
                    /\ \A k \in Keys, d, e \in Executors : Holds(d, k)' /\ Holds(e, k)' => d = e
                    /\ \A k \in Keys, e \in Executors : Holds(e, k)' => Unclaimable(e, k)'
  BY DEF OneHolder, NoManualRetry, Unclaimable
<1> DEFINE NoRetry == \A u \in Users : ~UserAt(u, "retrying")'
           Sole(k) == /\ \A d, e \in Executors : Holds(d, k)' /\ Holds(e, k)' => d = e
                      /\ \A e \in Executors : Holds(e, k)' => Unclaimable(e, k)'
<1>1. /\ \A u \in Users : ~UserAt(u, "retrying")
      /\ \A k \in Keys, d, e \in Executors : Holds(d, k) /\ Holds(e, k) => d = e
      /\ \A k \in Keys, e \in Executors : Holds(e, k) => Unclaimable(e, k)
  BY DEF OneHolder, Unclaimable
<1>2. NoRetry
  <2>1. ASSUME NEW u \in Users, Stops(u) PROVE NoRetry
    BY <1>1, <2>1 DEF Stops, OnlyUser, UserAt
  <2>2. ASSUME NEW u \in Users, NEW k \in Keys, OwnerReads(u, k) PROVE NoRetry
    BY <1>1, <2>2 DEF OwnerReads, OnlyUser, UserAt, NoManualRetry
  <2>3. ASSUME NEW u \in Users, NEW k \in Keys, OwnerWrites(u, k) PROVE NoRetry
    BY <1>1, <2>3, NoRequestRow DEF OwnerWrites, OnlyUser, UserAt
  <2>4. Crashes => NoRetry
    BY <1>1 DEF Crashes, UserAt
  <2>5. UNCHANGED user => NoRetry
    BY <1>1 DEF UserAt
  <2>6. \A e \in Executors : Goes(e) => UNCHANGED user
    BY DEF Goes
  <2>7. ASSUME NEW e \in Executors, NEW k \in Keys,
               \/ Claims(e, k) \/ Places(e, k) \/ Records(e, k) \/ FailsInside(e, k) \/ FailsOutside(e, k)
               \/ Lists(e, k) \/ ClaimsRetry(e, k)
        PROVE  UNCHANGED user
    BY <2>7 DEF Claims, Places, Records, FailsInside, FailsOutside, Lists, ClaimsRetry
  <2>8. /\ \A s \in AllSyncers : SyncGoes(s) => UNCHANGED user
        /\ \A s \in AllSyncers, k \in Keys : SyncRecords(s, k) \/ SyncCancels(s, k) \/ Recovers(s, k) => UNCHANGED user
    BY DEF SyncGoes, SyncRecords, SyncCancels, Recovers
  <2>9. /\ \A k \in Keys : BacksOff(k) \/ Trades(k) => UNCHANGED user
        /\ Nothing => UNCHANGED user
    BY DEF BacksOff, Trades, Nothing
  <2> QED BY <2>1, <2>2, <2>3, <2>4, <2>5, <2>6, <2>7, <2>8, <2>9 DEF Kinds
<1> SUFFICES ASSUME NEW k \in Keys PROVE Sole(k)
  BY <1>2
\* Those who held k may hold it still, and it cannot be claimed.
<1>3. ASSUME \A e \in Executors : Holds(e, k)' => Holds(e, k) /\ Unclaimable(e, k)'
      PROVE  Sole(k)
  BY <1>1, <1>3
<1>4. ASSUME UNCHANGED executor, action'[k].status # "FAILED" \/ UNCHANGED action
      PROVE  Sole(k)
  <2>1. \A e \in Executors : Holds(e, k)' => Holds(e, k) /\ Unclaimable(e, k)'
    BY <1>1, <1>4, HoldersSame DEF Unclaimable, DueForRetry
  <2> QED BY <1>3, <2>1
<1>5. ASSUME NEW d \in Executors, Goes(d) PROVE Sole(k)
  <2>1. UNCHANGED action /\ OnlyExecutor(d)
    BY <1>5 DEF Goes
  <2>2. \A e \in Executors \ {d} : Holds(e, k)' => Holds(e, k) /\ Unclaimable(e, k)'
    BY <1>1, <2>1, OthersWork DEF Unclaimable, DueForRetry
  <2>3. Holds(d, k)' => Holds(d, k) /\ ~At(d, "remark")
    BY <1>5 DEF Goes, Holds, Works, At
  <2>4. Holds(d, k)' => Unclaimable(d, k)'
    BY <1>1, <2>1, <2>3 DEF Unclaimable, DueForRetry
  <2> QED BY <1>3, <2>2, <2>3, <2>4
<1>6. ASSUME NEW d \in Executors, NEW j \in Keys, j # k,
             \/ Claims(d, j) \/ Places(d, j) \/ Records(d, j) \/ FailsInside(d, j) \/ FailsOutside(d, j)
             \/ Lists(d, j) \/ ClaimsRetry(d, j)
      PROVE  Sole(k)
  <2>1. OnlyExecutor(d) /\ action'[k] = action[k] /\ (Working(d)' => executor'[d].key = j)
    <3>1. OnlyExecutor(d) /\ action'[k] = action[k]
      BY <1>6 DEF Claims, Places, Records, FailsInside, FailsOutside, Lists, ClaimsRetry, Moves, Becomes, OnlyAction
    <3>2. Working(d)' => executor'[d].key = j
      BY <1>6 DEF Claims, Places, Records, FailsInside, FailsOutside, Lists, ClaimsRetry, Moves,
         Working, WorkPcs, RetrierPcs
    <3> QED BY <3>1, <3>2
  <2>2. ~Holds(d, k)'
    BY <1>6, <2>1 DEF Holds, Works
  <2>3. \A e \in Executors : Holds(e, k)' => Holds(e, k) /\ Unclaimable(e, k)'
    BY <1>1, <2>1, <2>2, OthersWork DEF Unclaimable, DueForRetry
  <2> QED BY <1>3, <2>3
<1>7. ASSUME NEW d \in Executors, Claims(d, k) PROVE Sole(k)
  <2>1. OnlyExecutor(d) /\ action'[k].status = "PENDING" /\ ~Existing(k)
    BY <1>7 DEF Claims, Moves, Becomes
  <2>2. \A e \in Executors : Holds(e, k)' => e = d
    BY <2>1, OthersWork DEF RowsExist, Holds
  <2> QED BY <2>1, <2>2 DEF Unclaimable, DueForRetry
<1>8. ASSUME NEW d \in Executors, ClaimsRetry(d, k) PROVE Sole(k)
  <2>1. OnlyExecutor(d) /\ action'[k].status = "PENDING" /\ DueForRetry(k)
    BY <1>8 DEF ClaimsRetry, Moves, Becomes
  <2>2. \A e \in Executors : ~Holds(e, k)
    BY <1>1, <2>1 DEF Unclaimable, DueForRetry
  <2>3. \A e \in Executors : Holds(e, k)' => e = d
    BY <2>1, <2>2, OthersWork
  <2> QED BY <2>1, <2>3 DEF Unclaimable, DueForRetry
<1>9. ASSUME NEW d \in Executors, Places(d, k) PROVE Sole(k)
  <2>1. OnlyExecutor(d) /\ UNCHANGED action /\ Holds(d, k) /\ ~At(d, "remark")
    BY <1>9 DEF Places, Moves, Holds, Works, Working, WorkPcs, RetrierPcs, At
  <2>2. action[k].status # "FAILED"
    BY <1>1, <2>1 DEF Unclaimable
  <2>3. \A e \in Executors : Holds(e, k)' => Holds(e, k)
    BY <2>1, OthersWork
  <2> QED BY <1>3, <2>1, <2>2, <2>3 DEF Unclaimable, DueForRetry
<1>10. ASSUME NEW d \in Executors, Records(d, k) \/ FailsInside(d, k) \/ FailsOutside(d, k) PROVE Sole(k)
  <2>1. OnlyExecutor(d)
    BY <1>10 DEF Records, FailsInside, FailsOutside, Moves
  <2>2. Holds(d, k)
    BY <1>10, OrderExecutionAssumption
       DEF Records, FailsInside, FailsOutside, Holds, Works, Working, WorkPcs, RetrierPcs, At
  <2>3. \A e \in Executors : Holds(e, k)' => e = d
    BY <1>1, <2>1, <2>2, OthersWork
  <2>4. Holds(d, k)' => At(d, "remark")' /\ ~DueForRetry(k)'
    <3>1. CASE Records(d, k) \/ FailsOutside(d, k)
      BY <3>1, OrderExecutionAssumption DEF Records, FailsOutside, Holds, Works, Working, WorkPcs, RetrierPcs
    <3>2. CASE FailsInside(d, k)
      BY <3>2 DEF FailsInside, Moves, Holds, Works, Working, WorkPcs, At, Becomes, DueForRetry
    <3> QED BY <1>10, <3>1, <3>2
  <2> QED BY <2>3, <2>4 DEF Unclaimable
<1>11. ASSUME NEW d \in Executors, Lists(d, k) PROVE Sole(k)
  <2>1. OnlyExecutor(d) /\ UNCHANGED action /\ ~Holds(d, k)'
    BY <1>11 DEF Lists, Holds, At
  <2>2. \A e \in Executors : Holds(e, k)' => Holds(e, k) /\ Unclaimable(e, k)'
    BY <1>1, <2>1, OthersWork DEF Unclaimable, DueForRetry
  <2> QED BY <1>3, <2>2
<1>12. ASSUME NEW s \in AllSyncers, SyncGoes(s) PROVE Sole(k)
  BY <1>4, <1>12 DEF SyncGoes
<1>13. ASSUME NEW s \in AllSyncers, NEW j \in Keys, SyncRecords(s, j) \/ SyncCancels(s, j) \/ Recovers(s, j)
       PROVE  Sole(k)
  <2>1. UNCHANGED executor
    BY <1>13 DEF SyncRecords, SyncCancels, Recovers
  <2>2. action'[k].status # "FAILED" \/ action'[k] = action[k]
    BY <1>13, ResolutionsExist DEF SyncRecords, SyncCancels, Recovers, Becomes, OnlyAction
  <2>3. \A e \in Executors : Holds(e, k)' => Holds(e, k) /\ Unclaimable(e, k)'
    BY <1>1, <2>1, <2>2, HoldersSame DEF Unclaimable, DueForRetry
  <2> QED BY <1>3, <2>3
<1>14. ASSUME NEW u \in Users,
              Stops(u) \/ \E j \in Keys : OwnerReads(u, j) \/ OwnerWrites(u, j)
       PROVE  Sole(k)
  <2>1. UNCHANGED executor
    BY <1>14 DEF Stops, OwnerReads, OwnerWrites
  <2>2. action'[k].status # "FAILED" \/ action'[k] = action[k]
    BY <1>1, <1>14 DEF Stops, OwnerReads, OwnerWrites, Becomes, OnlyAction
  <2>3. \A e \in Executors : Holds(e, k)' => Holds(e, k) /\ Unclaimable(e, k)'
    BY <1>1, <2>1, <2>2, HoldersSame DEF Unclaimable, DueForRetry
  <2> QED BY <1>3, <2>3
<1>15. CASE Crashes
  <2>1. \A e \in Executors : Holds(e, k)' => Holds(e, k) /\ Unclaimable(e, k)'
    BY <1>1, <1>15 DEF Crashes, Holds, Works, Working, WorkPcs, At, Unclaimable, DueForRetry
  <2> QED BY <1>3, <2>1
<1>16. ASSUME NEW j \in Keys, BacksOff(j) PROVE Sole(k)
  <2>1. UNCHANGED executor /\ OnlyAction(j)
    BY <1>16 DEF BacksOff, Becomes
  <2>2. \A e \in Executors : ~Holds(e, j)
    BY <1>1, <1>16 DEF BacksOff, Unclaimable, Holds, Works
  <2>3. \A e \in Executors : Holds(e, k)' => Holds(e, k) /\ Unclaimable(e, k)'
    BY <1>1, <2>1, <2>2, HoldersSame DEF Unclaimable, DueForRetry, OnlyAction
  <2> QED BY <1>3, <2>3
<1>17. ASSUME NEW j \in Keys, Trades(j) PROVE Sole(k)
  BY <1>4, <1>17 DEF Trades
<1>18. CASE Nothing
  BY <1>4, <1>18 DEF Nothing
<1> QED BY <1>5, <1>6, <1>7, <1>8, <1>9, <1>10, <1>11, <1>12, <1>13, <1>14, <1>15, <1>16, <1>17, <1>18 DEF Kinds

\* Two executors are never about to place the order of one action.
CarefulRetries == OneRetryPass \/ NoManualRetry

LEMMA PlacesAlone ==
    ASSUME CarefulRetries, BotTypes, FirstAttempts, OneHolder, NEW k \in Keys,
           NEW d \in Executors, NEW e \in Executors,
           Works(d, k), At(d, "place"), Works(e, k), At(e, "place")
    PROVE  d = e
<1>1. CASE d \in Runners \/ e \in Runners
  BY <1>1 DEF FirstAttempts, Works
<1>2. CASE d \notin Runners /\ e \notin Runners
  <2>1. d \in Retriers /\ e \in Retriers
    BY <1>2 DEF Executors
  <2>2. Holds(d, k) /\ Holds(e, k)
    BY DEF Holds, At
  <2> QED BY <2>1, <2>2 DEF CarefulRetries, OneRetryPass, OneHolder
<1> QED BY <1>1, <1>2

LEMMA PlacedOnceNext ==
    ASSUME CarefulRetries, BotTypes, RowsExist, FirstAttempts, OneHolder, PlacedOnce, Kinds
    PROVE  PlacedOnce'
<1> DEFINE Once(k) == exchange[k].placed = IF exchange[k].status = "NONE" THEN 0 ELSE 1
           Fresh(k) == \A e \in Executors : Works(e, k) /\ At(e, "place") => exchange[k].status = "NONE"
<1>1. \A k \in Keys : Once(k) /\ Fresh(k)
  BY DEF PlacedOnce
<1> SUFFICES ASSUME NEW k \in Keys PROVE Once(k)' /\ Fresh(k)'
  BY DEF PlacedOnce
\* The order of k goes on, and who is about to place it was so before.
<1>2. ASSUME \/ exchange'[k] = exchange[k]
             \/ /\ exchange[k].status # "NONE" /\ exchange'[k].status # "NONE"
                /\ exchange'[k].placed = exchange[k].placed,
             \A e \in Executors : (Works(e, k) /\ At(e, "place"))' =>
                (Works(e, k) /\ At(e, "place")) \/ exchange[k].status = "NONE"
      PROVE  Once(k)' /\ Fresh(k)'
  BY <1>1, <1>2
<1>3. ASSUME UNCHANGED executor
      PROVE  \A e : (Works(e, k) /\ At(e, "place"))' = (Works(e, k) /\ At(e, "place"))
  BY <1>3 DEF Works, Working, WorkPcs, At
<1>4. ASSUME NEW d \in Executors, Goes(d) PROVE Once(k)' /\ Fresh(k)'
  <2>1. UNCHANGED exchange /\ OnlyExecutor(d)
    BY <1>4 DEF Goes
  <2>2. (Works(d, k) /\ At(d, "place"))' => exchange[k].status = "NONE"
    BY <1>4 DEF Goes, Works
  <2> QED BY <1>2, <2>1, <2>2, OthersWork
<1>5. ASSUME NEW d \in Executors, NEW j \in Keys, Places(d, j) PROVE Once(k)' /\ Fresh(k)'
  <2>1. /\ OnlyExecutor(d) /\ ~At(d, "place")' /\ Works(d, j) /\ At(d, "place") /\ OnlyOrderOf(j)
        /\ exchange'[j].status # "NONE" /\ exchange'[j].placed = exchange[j].placed + 1
    BY <1>5 DEF Places, Moves, Works, Working, WorkPcs, RetrierPcs, At
  <2>2. \A e \in Executors : (Works(e, k) /\ At(e, "place"))' => Works(e, k) /\ At(e, "place") /\ e # d
    BY <2>1, OthersWork
  <2>3. CASE j # k
    <3>1. exchange'[k] = exchange[k]
      BY <2>1, <2>3 DEF OnlyOrderOf
    <3> QED BY <1>2, <2>2, <3>1
  <2>4. CASE j = k
    <3>1. exchange[k].placed = 0
      BY <1>1, <2>1, <2>4
    <3>2. Once(k)'
      BY <2>1, <2>4, <3>1
    <3>3. Fresh(k)'
      BY <2>1, <2>2, <2>4, PlacesAlone
    <3> QED BY <3>2, <3>3
  <2> QED BY <2>3, <2>4
<1>6. ASSUME NEW d \in Executors, NEW j \in Keys,
             \/ Claims(d, j) \/ Records(d, j) \/ FailsInside(d, j) \/ FailsOutside(d, j)
             \/ Lists(d, j) \/ ClaimsRetry(d, j)
      PROVE  Once(k)' /\ Fresh(k)'
  <2>1. UNCHANGED exchange /\ OnlyExecutor(d)
    BY <1>6 DEF Claims, Records, FailsInside, FailsOutside, Lists, ClaimsRetry, Moves
  <2>2. (Works(d, k) /\ At(d, "place"))' => exchange[k].status = "NONE"
    <3>1. CASE Claims(d, j)
      BY <3>1 DEF Claims, Moves, Works, RowsExist
    <3>2. CASE ~Claims(d, j)
      BY <1>6, <3>2 DEF Records, FailsInside, FailsOutside, Lists, ClaimsRetry, Moves, At
    <3> QED BY <3>1, <3>2
  <2> QED BY <1>2, <2>1, <2>2, OthersWork
<1>7. ASSUME NEW j \in Keys, Cancelled(j)
      PROVE  \/ exchange'[k] = exchange[k]
             \/ /\ exchange[k].status # "NONE" /\ exchange'[k].status # "NONE"
                /\ exchange'[k].placed = exchange[k].placed
  BY <1>7 DEF Cancelled, OnlyOrderOf, Live
<1>8. ASSUME NEW s \in AllSyncers, SyncGoes(s) PROVE Once(k)' /\ Fresh(k)'
  BY <1>2, <1>3, <1>8 DEF SyncGoes
<1>9. ASSUME NEW s \in AllSyncers, NEW j \in Keys, SyncRecords(s, j) \/ SyncCancels(s, j) \/ Recovers(s, j)
      PROVE  Once(k)' /\ Fresh(k)'
  BY <1>2, <1>3, <1>7, <1>9 DEF SyncRecords, SyncCancels, Recovers
<1>10. ASSUME NEW u \in Users, Stops(u) \/ \E j \in Keys : OwnerReads(u, j) \/ OwnerWrites(u, j)
       PROVE  Once(k)' /\ Fresh(k)'
  BY <1>2, <1>3, <1>7, <1>10 DEF Stops, OwnerReads, OwnerWrites
<1>11. CASE Crashes
  <2>1. UNCHANGED exchange /\ \A e \in Executors : (Works(e, k) /\ At(e, "place"))' => Works(e, k) /\ At(e, "place")
    BY <1>11 DEF Crashes, Works, Working, WorkPcs, At
  <2> QED BY <1>2, <2>1
<1>12. ASSUME NEW j \in Keys, BacksOff(j) \/ Trades(j) PROVE Once(k)' /\ Fresh(k)'
  <2>1. /\ UNCHANGED executor
        /\ \/ exchange'[k] = exchange[k]
           \/ /\ exchange[k].status # "NONE" /\ exchange'[k].status # "NONE"
              /\ exchange'[k].placed = exchange[k].placed
    BY <1>12 DEF BacksOff, Trades, OnlyOrderOf, Live
  <2> QED BY <1>2, <1>3, <2>1
<1>13. CASE Nothing
  BY <1>2, <1>3, <1>13 DEF Nothing
<1> QED BY <1>4, <1>5, <1>6, <1>8, <1>9, <1>10, <1>11, <1>12, <1>13 DEF Kinds

LEMMA PlacedInvInit == Init => PlacedInv
<1> SUFFICES ASSUME Init PROVE PlacedInv
  OBVIOUS
<1>1. /\ \A k \in Keys : exchange[k].status = "NONE" /\ exchange[k].placed = 0 /\ order[k].status = "NONE"
      /\ \A e \in Executors : executor[e].pc = "idle"
      /\ \A s \in AllSyncers : syncer[s].pc = "idle"
      /\ \A u \in Users : user[u] = NoRequest
  BY DEF Init, InitExchange, Absent, InitPositions, NoOrder, InitExecution, Resting, InitSync, Waiting, InitUsers
<1>2. \A k : \A e \in Executors : ~Works(e, k) /\ ~Holds(e, k)
  BY <1>1 DEF Works, Working, WorkPcs, Holds
<1>3. RowsExist
  BY <1>1, <1>2, NoRequestRow DEF RowsExist, Writes
<1>4. FirstAttempts
  BY <1>1 DEF FirstAttempts, At, Executors
<1>5. OneHolder
  BY <1>1, <1>2, NoRequestRow DEF OneHolder, UserAt
<1>6. PlacedOnce
  BY <1>1, <1>2 DEF PlacedOnce
<1> QED BY <1>3, <1>4, <1>5, <1>6 DEF PlacedInv

LEMMA PlacedInvNext == CarefulRetries /\ BotTypes /\ BotTypes' /\ PlacedInv /\ [Next]_vars => PlacedInv'
<1> SUFFICES ASSUME CarefulRetries, BotTypes, BotTypes', PlacedInv, [Next]_vars PROVE PlacedInv'
  OBVIOUS
<1>1. Kinds
  BY StepKinds
<1> QED BY <1>1, RowsExistNext, FirstAttemptsNext, OneHolderNext, PlacedOnceNext DEF PlacedInv

LEMMA PlacedInvariant == CarefulRetries => (Spec => []PlacedInv)
<1> SUFFICES ASSUME CarefulRetries PROVE Spec => []PlacedInv
  OBVIOUS
<1>1. Init => PlacedInv
  BY PlacedInvInit
<1>2. BotTypes /\ BotTypes' /\ PlacedInv /\ [Next]_vars => PlacedInv'
  BY PlacedInvNext
<1> QED BY <1>1, <1>2, BotTyped, PTL DEF Spec

\* An order request is carried out once at most, whatever crashes, unanswered
\* requests, retries and emergency stops there are: unless the owner retries an
\* action by hand while two retry passes run.
THEOREM OrdersPlacedOnce == CarefulRetries => (Spec => []NeverPlacedTwice)
<1> SUFFICES ASSUME CarefulRetries PROVE Spec => []NeverPlacedTwice
  OBVIOUS
<1>1. PlacedInv => NeverPlacedTwice
  BY DEF PlacedInv, PlacedOnce, NeverPlacedTwice
<1>2. Spec => []PlacedInv
  BY PlacedInvariant
<1> QED BY <1>1, <1>2, PTL
=============================================================================
