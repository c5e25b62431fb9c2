---------------------- MODULE TestnetBotResultProofs ------------------------
(***************************************************************************)
(* Proofs about what comes of the orders of a Testnet bot: what has ended is *)
(* in the books, every action goes through the lifecycle of ActionLifecycle, *)
(* and the bot buys one level after the other, each of them once.           *)
(***************************************************************************)
EXTENDS TestnetBotProofs, FiniteSetTheorems

-----------------------------------------------------------------------------
(* Orders that have ended are in the books.  A sync writes totals, computed  *)
(* from a row and an answer that may both be stale when it writes them; they  *)
(* are true all the same once they say that the order ended, since an order   *)
(* that has ended executes nothing more.                                     *)

EndStatuses == {"FILLED", "CANCELED", "EXPIRED"}
FinalStatuses == {"FILLED"} \cup TerminalStatuses

\* What an answer, or a row, says of an order of the exchange; it stays true.
Truthful(a, k) == /\ exchange[k].status # "NONE"
                  /\ a.status # "NONE" /\ a.executed <= exchange[k].executed
                  /\ a.status \in EndStatuses => /\ a.status = exchange[k].status
                                                 /\ a.executed = exchange[k].executed
Counted(row, k) == /\ exchange[k].status # "NONE"
                   /\ row.accounted = row.filled /\ row.filled <= exchange[k].executed
Settled(row, k) == row.status \in FinalStatuses => /\ Done(k) /\ row.status = MapOrderStatus(exchange[k].status)
                                                   /\ row.filled = exchange[k].executed

NoEmergencyStop == "emergencyStop" \notin Operations

SettledInv ==
    /\ \A k \in Keys : order[k].status # "NONE" => Counted(order[k], k) /\ Settled(order[k], k)
    /\ \A s \in AllSyncers : /\ syncer[s].pc \in {"fetch", "commit"} => Counted(syncer[s].row, syncer[s].key)
                             /\ SyncAt(s, "commit") => /\ Truthful(syncer[s].answer, syncer[s].key)
                                                       /\ syncer[s].row.filled <= syncer[s].answer.executed
    /\ \A e \in Executors : At(e, "commit") => Truthful(executor[e].answer, executor[e].key)
    /\ \A u \in Users : user[u].pc \notin {"stopping", "cancelOrders"} /\ user[u].mark = {}

\* An order that is known to the exchange executes more, until it ends.
LEMMA ExchangeGrows ==
    ASSUME BotTypes, PlacedOnce, Kinds, NEW k \in Keys, exchange[k].status # "NONE"
    PROVE  /\ exchange'[k].status # "NONE" /\ exchange[k].executed <= exchange'[k].executed
           /\ Done(k) => exchange'[k] = exchange[k]
<1>1. exchange[k].executed \in Nat
  BY ReportsAreAnswers DEF BotTypes
<1>2. ASSUME exchange'[k] = exchange[k]
      PROVE  /\ exchange'[k].status # "NONE" /\ exchange[k].executed <= exchange'[k].executed
             /\ Done(k) => exchange'[k] = exchange[k]
  BY <1>1, <1>2
<1>3. ASSUME NEW j \in Keys, Cancelled(j)
      PROVE  /\ exchange'[k].status # "NONE" /\ exchange[k].executed <= exchange'[k].executed
             /\ Done(k) => exchange'[k] = exchange[k]
  BY <1>1, <1>2, <1>3 DEF Cancelled, OnlyOrderOf, Live, Done
<1>4. ASSUME NEW e \in Executors, NEW j \in Keys, Places(e, j) PROVE exchange'[k] = exchange[k]
  <2>1. Works(e, j) /\ At(e, "place")
    BY <1>4 DEF Places, Works, Working, WorkPcs, RetrierPcs, At
  <2>2. j # k
    BY <2>1 DEF PlacedOnce
  <2> QED BY <1>4, <2>2 DEF Places, OnlyOrderOf
<1>5. ASSUME NEW j \in Keys, Trades(j)
      PROVE  /\ exchange'[k].status # "NONE" /\ exchange[k].executed <= exchange'[k].executed
             /\ Done(k) => exchange'[k] = exchange[k]
  BY <1>1, <1>5 DEF Trades, OnlyOrderOf, Live, Done
<1>6. ASSUME NEW e \in Executors, NEW j \in Keys,
             \/ Claims(e, j) \/ Records(e, j) \/ FailsInside(e, j) \/ FailsOutside(e, j)
             \/ Lists(e, j) \/ ClaimsRetry(e, j)
      PROVE  exchange'[k] = exchange[k]
  BY <1>6 DEF Claims, Records, FailsInside, FailsOutside, Lists, ClaimsRetry
<1>7. ASSUME Nothing \/ Crashes \/ (\E e \in Executors : Goes(e)) \/ (\E s \in AllSyncers : SyncGoes(s))
      PROVE  exchange'[k] = exchange[k]
  BY <1>7 DEF Nothing, Crashes, Goes, SyncGoes
<1>8. ASSUME NEW s \in AllSyncers, NEW j \in Keys, SyncRecords(s, j) \/ SyncCancels(s, j) \/ Recovers(s, j)
      PROVE  exchange'[k] = exchange[k] \/ Cancelled(j)
  BY <1>8 DEF SyncRecords, SyncCancels, Recovers
<1>9. ASSUME NEW u \in Users, Stops(u) \/ \E j \in Keys : OwnerReads(u, j) \/ OwnerWrites(u, j)
      PROVE  exchange'[k] = exchange[k] \/ \E j \in Keys : Cancelled(j)
  BY <1>9 DEF Stops, OwnerReads, OwnerWrites
<1>10. ASSUME NEW j \in Keys, BacksOff(j) PROVE exchange'[k] = exchange[k]
  BY <1>10 DEF BacksOff
<1> QED BY <1>2, <1>3, <1>4, <1>5, <1>6, <1>7, <1>8, <1>9, <1>10 DEF Kinds

\* What was true of an order stays true.
LEMMA TruthStays ==
    ASSUME BotTypes, BotTypes', PlacedOnce, Kinds, NEW k \in Keys
    PROVE  /\ \A a : Truthful(a, k) /\ a.executed \in Nat => Truthful(a, k)'
           /\ \A row : Counted(row, k) /\ row.filled \in Nat => Counted(row, k)'
           /\ \A row : Settled(row, k) /\ exchange[k].status # "NONE" => Settled(row, k)'
<1> USE DEF BotTypes
<1>1. exchange[k].executed \in Nat /\ exchange'[k].executed \in Nat
  BY ReportsAreAnswers DEF ExchangeTypes, ExchangeRows
<1>2. exchange[k].status # "NONE" =>
        /\ exchange'[k].status # "NONE" /\ exchange[k].executed <= exchange'[k].executed
        /\ Done(k) => exchange'[k] = exchange[k] /\ Done(k)'
  BY ExchangeGrows DEF Done
<1> QED BY <1>1, <1>2 DEF Truthful, Counted, Settled, EndStatuses, Done

\* A row that is written from a truthful answer tells the truth.
LEMMA RecordedTruth ==
    ASSUME NEW k \in Keys, NEW a \in Answers, Truthful(a, k), UNCHANGED exchange, Recorded(k, a, a.executed)
    PROVE  Counted(order[k], k)' /\ Settled(order[k], k)'
<1>1. MapOrderStatus(a.status) \in FinalStatuses => a.status \in EndStatuses
  BY DEF MapOrderStatus, FinalStatuses, TerminalStatuses, EndStatuses, Truthful
<1> QED BY <1>1 DEF Recorded, Counted, Settled, Truthful, Done, EndStatuses

\* A sync adds what is new to what was in the books.
LEMMA AccountedIsExecuted ==
    ASSUME SyncerTypes, NEW s \in AllSyncers, Counted(syncer[s].row, syncer[s].key),
           syncer[s].row.filled <= syncer[s].answer.executed
    PROVE  Accounted(s) = syncer[s].answer.executed
<1>1. syncer[s].row.filled \in Nat /\ syncer[s].answer.executed \in Nat
  BY RowsRead DEF Answers
<1> QED BY <1>1 DEF Accounted, Delta, Less, Counted

LEMMA SettledNext ==
    ASSUME NoEmergencyStop, BotTypes, BotTypes', RowsExist, PlacedOnce, SettledInv, Kinds
    PROVE  SettledInv'
<1> USE DEF BotTypes
<1>1. /\ \A s \in AllSyncers : /\ syncer[s].row.filled \in Nat /\ syncer[s].answer.executed \in Nat
                               /\ syncer[s].answer \in Answers
                               /\ syncer[s].pc # "idle" => syncer[s].key \in Keys
      /\ \A e \in Executors : /\ executor[e].answer.executed \in Nat
                              /\ At(e, "commit") => executor[e].key \in Keys
      /\ \A k \in Keys : order[k].filled \in Nat
  <2>1. \A s \in AllSyncers : syncer[s].pc # "idle" => syncer[s].key \in Keys
    BY DEF SyncerTypes
  <2>2. \A s \in AllSyncers : /\ syncer[s].row.filled \in Nat /\ syncer[s].answer.executed \in Nat
                              /\ syncer[s].answer \in Answers
    BY RowsRead DEF Answers
  <2>3. \A e \in Executors : executor[e].answer.executed \in Nat
    BY DEF ExecutorTypes, ExecutorRows, Answers
  <2>4. \A e \in Executors : At(e, "commit") => executor[e].key \in Keys
    BY KeyedHaveKeys DEF KeyedPcs, ExecutorPcs
  <2>5. \A k \in Keys : order[k].filled \in Nat
    BY DEF OrderTypes, OrderRows
  <2> QED BY <2>1, <2>2, <2>3, <2>4, <2>5
<1>2. /\ \A s \in AllSyncers : syncer'[s].pc # "idle" => syncer'[s].key \in Keys
      /\ \A e \in Executors : At(e, "commit")' => executor'[e].key \in Keys
  <2>1. \A s \in AllSyncers : syncer'[s].pc # "idle" => syncer'[s].key \in Keys
    BY DEF SyncerTypes
  <2>2. "commit" \in KeyedPcs
    BY DEF KeyedPcs, ExecutorPcs
  <2>3. \A e \in Executors : executor'[e].pc \in KeyedPcs => executor'[e].key \in Keys
    BY DEF ExecutorTypes
  <2> QED BY <2>1, <2>2, <2>3 DEF At
\* The parts of the invariant, and what keeps each of them.
<1> DEFINE
      RowOK(k) == order[k].status # "NONE" => Counted(order[k], k) /\ Settled(order[k], k)
      SyncOK(s) == /\ syncer[s].pc \in {"fetch", "commit"} => Counted(syncer[s].row, syncer[s].key)
                   /\ SyncAt(s, "commit") => /\ Truthful(syncer[s].answer, syncer[s].key)
                                             /\ syncer[s].row.filled <= syncer[s].answer.executed
      CallOK(e) == At(e, "commit") => Truthful(executor[e].answer, executor[e].key)
      OwnerOK(u) == user[u].pc \notin {"stopping", "cancelOrders"} /\ user[u].mark = {}
<1>3. /\ \A k \in Keys : RowOK(k)
      /\ \A s \in AllSyncers : SyncOK(s)
      /\ \A e \in Executors : CallOK(e)
      /\ \A u \in Users : OwnerOK(u)
  BY DEF SettledInv
<1>4. ASSUME NEW k \in Keys, order'[k] = order[k] PROVE RowOK(k)'
  <2>1. order[k].status # "NONE" => /\ Counted(order[k], k) /\ order[k].filled \in Nat
                                    /\ Settled(order[k], k) /\ exchange[k].status # "NONE"
    BY <1>1, <1>3 DEF Counted
  <2> DEFINE row == order[k]
  <2>2. row.status # "NONE" => Counted(row, k) /\ row.filled \in Nat /\ Settled(row, k) /\ exchange[k].status # "NONE"
    BY <2>1
  <2> QED BY <1>4, <2>2, TruthStays DEF Counted, Settled, Done
<1>5. ASSUME NEW s \in AllSyncers, syncer'[s] = syncer[s] PROVE SyncOK(s)'
  <2>1. SyncOK(s)
    BY <1>3
  <2>2. syncer[s].pc \in {"fetch", "commit"} => syncer[s].key \in Keys
    BY <1>1
  <2> QED BY <1>1, <1>5, <2>1, <2>2, TruthStays DEF SyncAt, Counted, Truthful, Done
<1>6. ASSUME NEW e \in Executors, executor'[e] = executor[e] PROVE CallOK(e)'
  BY <1>1, <1>3, <1>6, TruthStays DEF At, Truthful, Done
<1>7. ASSUME NEW u \in Users, user'[u] = user[u] PROVE OwnerOK(u)'
  BY <1>3, <1>7
<1>8. ASSUME \A k \in Keys : RowOK(k)', \A s \in AllSyncers : SyncOK(s)',
             \A e \in Executors : CallOK(e)', \A u \in Users : OwnerOK(u)'
      PROVE  SettledInv'
  BY <1>8 DEF SettledInv
<1> HIDE DEF RowOK, SyncOK, CallOK, OwnerOK
<1>9. ASSUME NEW k \in Keys, Report(k).status # "NONE" PROVE Truthful(Report(k), k)
  BY <1>9, ReportsAreAnswers DEF Truthful, EndStatuses, Done
<1>10. ASSUME NEW e \in Executors, Goes(e) PROVE SettledInv'
  <2>1. UNCHANGED <<exchange, order, syncer, user>> /\ OnlyExecutor(e)
    BY <1>10 DEF Goes
  <2>2. At(e, "commit")' => /\ executor'[e].key = executor[e].key /\ executor'[e].answer = Report(executor[e].key)
                            /\ exchange[executor[e].key].status # "NONE"
    BY <1>10 DEF Goes, Working, WorkPcs, RetrierPcs, At
  <2>3. CallOK(e)'
    <3>1. SUFFICES ASSUME At(e, "commit")' PROVE Truthful(executor[e].answer, executor[e].key)'
      BY DEF CallOK
    <3>2. executor[e].key \in Keys
      BY <1>2, <2>2, <3>1
    <3>3. Truthful(Report(executor[e].key), executor[e].key)
      BY <1>9, <2>2, <3>1, <3>2, ReportsAreAnswers
    <3> QED BY <2>1, <2>2, <3>1, <3>3 DEF Truthful, Done
  <2>4. \A d \in Executors : CallOK(d)'
    BY <1>6, <2>1, <2>3 DEF OnlyExecutor
  <2> QED BY <1>4, <1>5, <1>7, <1>8, <2>1, <2>4
<1>11. ASSUME NEW e \in Executors, NEW k \in Keys,
              \/ Claims(e, k) \/ FailsInside(e, k) \/ FailsOutside(e, k) \/ Lists(e, k) \/ ClaimsRetry(e, k)
       PROVE  SettledInv'
  <2>1. UNCHANGED <<exchange, order, syncer, user>> /\ OnlyExecutor(e) /\ ~At(e, "commit")'
    BY <1>11 DEF Claims, FailsInside, FailsOutside, Lists, ClaimsRetry, Moves, At
  <2>2. \A d \in Executors : CallOK(d)'
    BY <1>6, <2>1 DEF OnlyExecutor, CallOK
  <2> QED BY <1>4, <1>5, <1>7, <1>8, <2>1, <2>2
<1>12. ASSUME NEW e \in Executors, NEW k \in Keys, Places(e, k) PROVE SettledInv'
  <2>1. UNCHANGED <<order, syncer, user>> /\ OnlyExecutor(e) /\ exchange'[k].status # "NONE"
    BY <1>12 DEF Places, Moves
  <2>2. At(e, "commit")' => executor'[e].key = k /\ executor'[e].answer = Answer(exchange'[k])
    BY <1>12 DEF Places, Moves, At
  <2>3. exchange'[k].executed \in Nat
    BY DEF ExchangeTypes, ExchangeRows
  <2>4. CallOK(e)'
    BY <2>1, <2>2, <2>3 DEF CallOK, Truthful, Answer, EndStatuses, Done
  <2>5. \A d \in Executors : CallOK(d)'
    BY <1>6, <2>1, <2>4 DEF OnlyExecutor
  <2> QED BY <1>4, <1>5, <1>7, <1>8, <2>1, <2>5
<1>13. ASSUME NEW e \in Executors, NEW k \in Keys, Records(e, k) PROVE SettledInv'
  <2>1. /\ UNCHANGED <<exchange, syncer, user>> /\ OnlyExecutor(e) /\ ~At(e, "commit")'
        /\ executor[e].answer \in Answers /\ Recorded(k, executor[e].answer, executor[e].answer.executed)
        /\ At(e, "commit") /\ executor[e].key = k
    BY <1>13 DEF Records, At
  <2>2. Truthful(executor[e].answer, k)
    BY <1>3, <2>1 DEF CallOK
  <2>3. RowOK(k)'
    BY <2>1, <2>2, RecordedTruth DEF RowOK
  <2>4. \A j \in Keys : RowOK(j)'
    BY <1>4, <2>1, <2>3 DEF Recorded, OnlyRow
  <2>5. \A d \in Executors : CallOK(d)'
    BY <1>6, <2>1 DEF OnlyExecutor, CallOK
  <2> QED BY <1>5, <1>7, <1>8, <2>1, <2>4, <2>5
<1>14. ASSUME NEW s \in AllSyncers, SyncGoes(s) PROVE SettledInv'
  <2>1. UNCHANGED <<exchange, order, executor, user>> /\ OnlySyncer(s)
    BY <1>14 DEF SyncGoes
  <2> DEFINE k == syncer'[s].key
  <2>2. ASSUME syncer'[s].pc \in {"idle", "recover"} PROVE SyncOK(s)'
    BY <2>2 DEF SyncOK, SyncAt
  <2>3. ASSUME syncer'[s].pc = "fetch", syncer'[s].row = order[k],
               order[k].status # "NONE" \/ (syncer[s].pc # "idle" /\ k = syncer[s].key)
        PROVE  SyncOK(s)'
    <3>1. order[k].status # "NONE" /\ k \in Keys
      BY <1>2, <2>3 DEF RowsExist
    <3>2. Counted(order[k], k)
      BY <1>3, <3>1 DEF RowOK
    <3> QED BY <2>1, <2>3, <3>2 DEF SyncOK, SyncAt, Counted
  <2>4. ASSUME SyncAt(s, "fetch"), syncer'[s].pc = "commit", k = syncer[s].key,
               syncer'[s].row = syncer[s].row, syncer'[s].answer = Report(syncer[s].key)
        PROVE  SyncOK(s)'
    <3>1. Counted(syncer[s].row, syncer[s].key) /\ k \in Keys
      BY <1>2, <1>3, <2>4 DEF SyncOK, SyncAt
    <3>2. Truthful(Report(k), k) /\ Report(k).executed = exchange[k].executed
      BY <1>9, <2>4, <3>1, ReportsAreAnswers DEF Counted
    <3> QED BY <2>1, <2>4, <3>1, <3>2 DEF SyncOK, SyncAt, Counted, Truthful, Done
  <2>5. SyncOK(s)'
    BY <1>14, <2>2, <2>3, <2>4 DEF SyncGoes
  <2>6. \A t \in AllSyncers : SyncOK(t)'
    BY <1>5, <2>1, <2>5 DEF OnlySyncer
  <2> QED BY <1>4, <1>6, <1>7, <1>8, <2>1, <2>6
<1>15. ASSUME NEW s \in AllSyncers, NEW k \in Keys, SyncRecords(s, k) PROVE SettledInv'
  <2>1. /\ UNCHANGED <<exchange, executor, user>> /\ OnlySyncer(s) /\ syncer'[s].pc \in {"idle", "aging"}
        /\ SyncAt(s, "commit") /\ syncer[s].key = k /\ Recorded(k, syncer[s].answer, Accounted(s))
    BY <1>15 DEF SyncRecords
  <2>2. /\ Truthful(syncer[s].answer, k) /\ Counted(syncer[s].row, k)
        /\ syncer[s].row.filled <= syncer[s].answer.executed
    BY <1>3, <2>1 DEF SyncOK, SyncAt
  <2>3. Accounted(s) = syncer[s].answer.executed
    BY <2>1, <2>2, AccountedIsExecuted
  <2>4. RowOK(k)'
    BY <1>1, <2>1, <2>2, <2>3, RecordedTruth DEF RowOK
  <2>5. \A j \in Keys : RowOK(j)'
    BY <1>4, <2>1, <2>4 DEF Recorded, OnlyRow
  <2>6. \A t \in AllSyncers : SyncOK(t)'
    BY <1>5, <2>1 DEF OnlySyncer, SyncOK, SyncAt
  <2> QED BY <1>6, <1>7, <1>8, <2>1, <2>5, <2>6
<1>16. ASSUME NEW s \in AllSyncers, NEW k \in Keys, SyncCancels(s, k) \/ Recovers(s, k) PROVE SettledInv'
  <2>1. UNCHANGED <<order, executor, user>> /\ OnlySyncer(s) /\ syncer'[s].pc \in {"idle", "reread"}
    BY <1>16 DEF SyncCancels, Recovers
  <2>2. \A t \in AllSyncers : SyncOK(t)'
    BY <1>5, <2>1 DEF OnlySyncer, SyncOK, SyncAt
  <2> QED BY <1>4, <1>6, <1>7, <1>8, <2>1, <2>2
<1>17. ASSUME NEW u \in Users, NEW k \in Keys, OwnerReads(u, k) \/ OwnerWrites(u, k) PROVE SettledInv'
  <2>1. UNCHANGED <<order, executor, syncer>> /\ OnlyUser(u) /\ user'[u].pc \notin {"stopping", "cancelOrders"} /\ user'[u].mark = {}
    BY <1>17, NoRequestRow DEF OwnerReads, OwnerWrites
  <2>2. \A v \in Users : OwnerOK(v)'
    BY <1>7, <2>1 DEF OnlyUser, OwnerOK
  <2> QED BY <1>4, <1>5, <1>6, <1>8, <2>1, <2>2
<1>18. ASSUME NEW u \in Users, Stops(u) PROVE FALSE
  BY <1>3, <1>18 DEF Stops, NoEmergencyStop, OwnerOK
<1>19. CASE Crashes
  <2>1. \A e \in Executors : CallOK(e)'
    BY <1>6, <1>19 DEF Crashes, CallOK, At
  <2>2. \A s \in AllSyncers : SyncOK(s)'
    BY <1>5, <1>19 DEF Crashes, SyncOK, SyncAt
  <2>3. \A u \in Users : OwnerOK(u)'
    BY <1>7, <1>19 DEF Crashes, OwnerOK
  <2> QED BY <1>4, <1>8, <1>19, <2>1, <2>2, <2>3 DEF Crashes
<1>20. ASSUME NEW k \in Keys, BacksOff(k) \/ Trades(k) PROVE SettledInv'
  <2>1. UNCHANGED <<order, executor, syncer, user>>
    BY <1>20 DEF BacksOff, Trades
  <2> QED BY <1>4, <1>5, <1>6, <1>7, <1>8, <2>1
<1>21. CASE Nothing
  BY <1>4, <1>5, <1>6, <1>7, <1>8, <1>21 DEF Nothing
<1> QED BY <1>10, <1>11, <1>12, <1>13, <1>14, <1>15, <1>16, <1>17, <1>18, <1>19, <1>20, <1>21 DEF Kinds

LEMMA SettledInvariant == CarefulRetries /\ NoEmergencyStop => (Spec => []SettledInv)
<1> SUFFICES ASSUME CarefulRetries, NoEmergencyStop PROVE Spec => []SettledInv
  OBVIOUS
<1>1. Init => SettledInv
  BY DEF Init, InitPositions, NoOrder, InitExecution, Resting, InitSync, Waiting, InitUsers, NoRequest, At, SyncAt, SettledInv
<1>2. BotTypes /\ BotTypes' /\ PlacedInv /\ SettledInv /\ [Next]_vars => SettledInv'
  BY StepKinds, SettledNext DEF PlacedInv
<1>3. Spec => []PlacedInv
  BY PlacedInvariant
<1> QED BY <1>1, <1>2, <1>3, BotTyped, PTL DEF Spec

\* An order whose row is final is in the books with all that it executed, however
\* many passes and requests sync it at the same time with whatever they read; an
\* emergency stop, which marks rows without looking at their fills, breaks it.
THEOREM SettledOrdersAreAccounted == CarefulRetries /\ NoEmergencyStop => (Spec => []SettledOrdersAccounted)
<1> SUFFICES ASSUME CarefulRetries, NoEmergencyStop PROVE Spec => []SettledOrdersAccounted
  OBVIOUS
<1>1. SettledInv => SettledOrdersAccounted
  BY DEF SettledInv, Counted, Settled, FinalStatuses, TerminalStatuses, SettledOrdersAccounted
<1>2. Spec => []SettledInv
  BY SettledInvariant
<1> QED BY <1>1, <1>2, PTL

-----------------------------------------------------------------------------
(* Every action goes through its lifecycle.  What an executor holds is on its *)
(* way, and its order is not recorded; what is recorded agrees with its order. *)

QuietOwner == {"retry", "cancelRetry", "emergencyStop"} \cap Operations = {}
OneSync == \A s, t \in AllSyncers : s = t

LifecycleInv ==
    /\ \A u \in Users : user[u].pc = "idle"
    /\ \A k \in Keys : ~Existing(k) => action[k].attempts = 0
    /\ \A k \in Keys, e \in Executors : Holds(e, k) =>
          \/ action[k].status = "PENDING"
          \/ At(e, "remark") /\ action[k].status = "FAILED"
          \/ /\ At(e, "remark") /\ action[k].status = "PERMANENTLY_FAILED"
             /\ ~(executor[e].retryable /\ action[k].attempts < MaxAttempts)
    /\ \A k \in Keys : order[k].status # "NONE" =>
          action[k].status = Resolution(order[k].status, order[k].accounted) /\ order[k].status # "FAILED"
    /\ \A s \in AllSyncers :
          /\ ~SyncAt(s, "recover")
          /\ SyncAt(s, "commit") /\ order[syncer[s].key].status \in FinalStatuses =>
                syncer[s].answer.status \in EndStatuses

\* A holder keeps everybody else away from the row.
LEMMA HeldAction ==
    ASSUME LifecycleInv, NEW k \in Keys, NEW e \in Executors, Holds(e, k)
    PROVE  /\ order[k].status = "NONE"
           /\ action[k].status \in {"PENDING", "FAILED", "PERMANENTLY_FAILED"}
           /\ ~At(e, "remark") => action[k].status = "PENDING"
<1>1. action[k].status \in {"PENDING", "FAILED", "PERMANENTLY_FAILED"} /\ (~At(e, "remark") => action[k].status = "PENDING")
  BY DEF LifecycleInv
<1> QED BY <1>1, ResolutionsExist DEF LifecycleInv

\* A final row says what the exchange says, and so does the row a sync makes of it.
LEMMA FinalRowsStay ==
    ASSUME BotTypes, SettledInv, LifecycleInv, NEW s \in AllSyncers, NEW k \in Keys, SyncRecords(s, k),
           order[k].status \in FinalStatuses
    PROVE  order'[k].status = order[k].status /\ order'[k].accounted = order[k].accounted
<1>1. SyncAt(s, "commit") /\ syncer[s].key = k /\ Recorded(k, syncer[s].answer, Accounted(s))
  BY DEF SyncRecords
<1>2. /\ Truthful(syncer[s].answer, k) /\ Counted(syncer[s].row, k)
      /\ syncer[s].row.filled <= syncer[s].answer.executed
  BY <1>1 DEF SettledInv, SyncAt
<1>3. Accounted(s) = syncer[s].answer.executed
  BY <1>1, <1>2, AccountedIsExecuted DEF BotTypes
<1>4. syncer[s].answer.status = exchange[k].status /\ syncer[s].answer.executed = exchange[k].executed
  BY <1>1, <1>2 DEF LifecycleInv, Truthful
<1>5. order[k].status # "NONE"
  BY DEF FinalStatuses, TerminalStatuses
<1>6. /\ order[k].status = MapOrderStatus(exchange[k].status)
      /\ order[k].filled = exchange[k].executed /\ order[k].accounted = order[k].filled
  BY <1>5 DEF SettledInv, Settled, Counted
<1> QED BY <1>1, <1>3, <1>4, <1>6 DEF Recorded

LEMMA LifecycleNext ==
    ASSUME QuietOwner, OneSync, BotTypes, BotTypes', RowsExist, OneHolder, SettledInv, LifecycleInv, Kinds
    PROVE  LifecycleInv'
<1> USE DEF BotTypes
<1>0. NoManualRetry
  BY DEF QuietOwner, NoManualRetry
<1> DEFINE
      OwnerOK(u) == user[u].pc = "idle"
      NewOK(k) == ~Existing(k) => action[k].attempts = 0
      HeldOK(e, k) == Holds(e, k) =>
          \/ action[k].status = "PENDING"
          \/ At(e, "remark") /\ action[k].status = "FAILED"
          \/ /\ At(e, "remark") /\ action[k].status = "PERMANENTLY_FAILED"
             /\ ~(executor[e].retryable /\ action[k].attempts < MaxAttempts)
      RowOK(k) == order[k].status # "NONE" =>
          action[k].status = Resolution(order[k].status, order[k].accounted) /\ order[k].status # "FAILED"
      SyncOK(s) == /\ ~SyncAt(s, "recover")
                   /\ SyncAt(s, "commit") /\ order[syncer[s].key].status \in FinalStatuses =>
                         syncer[s].answer.status \in EndStatuses
<1>1. /\ \A u \in Users : OwnerOK(u)
      /\ \A k \in Keys : NewOK(k) /\ RowOK(k)
      /\ \A e \in Executors, k \in Keys : HeldOK(e, k)
      /\ \A s \in AllSyncers : SyncOK(s)
  BY DEF LifecycleInv
<1>2. ASSUME \A u \in Users : OwnerOK(u)', \A k \in Keys : NewOK(k)' /\ RowOK(k)',
             \A e \in Executors, k \in Keys : HeldOK(e, k)', \A s \in AllSyncers : SyncOK(s)'
      PROVE  LifecycleInv'
  BY <1>2 DEF LifecycleInv
\* What keeps each part.
<1>3. ASSUME UNCHANGED user PROVE \A u \in Users : OwnerOK(u)'
  BY <1>1, <1>3
<1>4. ASSUME NEW k \in Keys, action'[k] = action[k], order'[k] = order[k] PROVE NewOK(k)' /\ RowOK(k)'
  BY <1>1, <1>4 DEF Existing
<1>5. ASSUME NEW k \in Keys, NEW e \in Executors, action'[k] = action[k], executor'[e] = executor[e]
      PROVE  HeldOK(e, k)'
  BY <1>1, <1>5 DEF Holds, Works, Working, WorkPcs, At
<1>6. ASSUME NEW s \in AllSyncers, UNCHANGED order, syncer'[s] = syncer[s] PROVE SyncOK(s)'
  BY <1>1, <1>6 DEF SyncAt
<1> HIDE DEF OwnerOK, NewOK, HeldOK, RowOK, SyncOK
<1>7. \A e \in Executors, k \in Keys : Holds(e, k) => Existing(k)
  BY DEF Holds, RowsExist
\* A step on an action that is held is a step of its holder.
<1>8. ASSUME NEW e \in Executors, NEW k \in Keys, OnlyExecutor(e), OnlyAction(k),
             \A d \in Executors \ {e} : ~Holds(d, k),
             \A j \in Keys : j # k => ~Holds(e, j)', HeldOK(e, k)'
      PROVE  \A d \in Executors, j \in Keys : HeldOK(d, j)'
  <2> SUFFICES ASSUME NEW d \in Executors, NEW j \in Keys PROVE HeldOK(d, j)'
    OBVIOUS
  <2>1. CASE d = e
    BY <1>8, <2>1 DEF HeldOK
  <2>2. CASE d # e /\ j # k
    BY <1>5, <1>8, <2>2 DEF OnlyExecutor, OnlyAction
  <2>3. CASE d # e /\ j = k
    BY <1>8, <2>3, OthersWork DEF HeldOK
  <2> QED BY <2>1, <2>2, <2>3
<1>9. ASSUME NEW e \in Executors, Goes(e) PROVE LifecycleInv'
  <2>1. UNCHANGED <<action, order, syncer, user>> /\ OnlyExecutor(e)
    BY <1>9 DEF Goes
  <2>2. \A k \in Keys : HeldOK(e, k)'
    <3> SUFFICES ASSUME NEW k \in Keys, Holds(e, k)' PROVE action[k].status = "PENDING"
      BY <2>1 DEF HeldOK
    <3>1. Holds(e, k) /\ ~At(e, "remark")
      BY <1>9 DEF Goes, Holds, Works, At
    <3> QED BY <3>1, HeldAction
  <2>3. \A d \in Executors, k \in Keys : HeldOK(d, k)'
    BY <1>5, <2>1, <2>2 DEF OnlyExecutor
  <2> QED BY <1>2, <1>3, <1>4, <1>6, <2>1, <2>3
<1>10. ASSUME NEW e \in Executors, NEW k \in Keys, Claims(e, k) PROVE LifecycleInv'
  <2>1. /\ UNCHANGED <<order, syncer, user>> /\ OnlyExecutor(e) /\ ~Existing(k) /\ Moves(e, "place")
        /\ Becomes(k, "PENDING", 0, FALSE) /\ executor[e].key = k
    BY <1>10 DEF Claims, Moves
  <2>2. \A d \in Executors, j \in Keys : HeldOK(d, j)'
    BY <1>7, <1>8, <2>1 DEF HeldOK, Holds, Works, Moves, Becomes
  <2>3. order[k].status = "NONE"
    BY <2>1 DEF RowsExist
  <2>4. \A j \in Keys : NewOK(j)' /\ RowOK(j)'
    BY <1>4, <2>1, <2>3 DEF NewOK, RowOK, Existing, Becomes, OnlyAction
  <2> QED BY <1>2, <1>3, <1>6, <2>1, <2>2, <2>4
<1>11. ASSUME NEW e \in Executors, NEW k \in Keys, Places(e, k) PROVE LifecycleInv'
  <2>1. /\ UNCHANGED <<action, order, syncer, user>> /\ OnlyExecutor(e) /\ Holds(e, k) /\ ~At(e, "remark")
        /\ executor'[e].key = k
    BY <1>11 DEF Places, Moves, Holds, Works, Working, WorkPcs, RetrierPcs, At
  <2>2. \A j \in Keys : HeldOK(e, j)'
    BY <2>1, HeldAction DEF HeldOK, Holds, Works
  <2>3. \A d \in Executors, j \in Keys : HeldOK(d, j)'
    BY <1>5, <2>1, <2>2 DEF OnlyExecutor
  <2> QED BY <1>2, <1>3, <1>4, <1>6, <2>1, <2>3
<1>12. ASSUME NEW e \in Executors, NEW k \in Keys, Records(e, k) PROVE LifecycleInv'
  <2>1. /\ UNCHANGED <<syncer, user>> /\ OnlyExecutor(e) /\ At(e, "commit") /\ Holds(e, k) /\ ~Working(e)'
        /\ Recorded(k, executor[e].answer, executor[e].answer.executed) /\ order[k].status = "NONE"
        /\ Becomes(k, Resolution(order'[k].status, order'[k].accounted), action[k].attempts, action[k].due)
    BY <1>12 DEF Records, Holds, Works, Working, WorkPcs, RetrierPcs, At
  <2>2. \A d \in Executors, j \in Keys : HeldOK(d, j)'
    BY <1>0, <1>8, <2>1 DEF HeldOK, Holds, Works, OneHolder, Becomes
  <2>3. Truthful(executor[e].answer, k)
    BY <1>12, <2>1 DEF SettledInv, Records
  <2>4. order'[k].status # "FAILED"
    <3>1. executor[e].answer.status \in ExchangeStatuses
      BY <1>12 DEF Records, Answers
    <3> QED BY <2>1, <2>3, <3>1 DEF Recorded, Truthful, MapOrderStatus, ExchangeStatuses
  <2>5. RowOK(k)' /\ NewOK(k)'
    BY <2>1, <2>4, ResolutionsExist DEF RowOK, NewOK, Existing, Becomes
  <2>6. \A j \in Keys : NewOK(j)' /\ RowOK(j)'
    BY <1>4, <2>1, <2>5 DEF Becomes, OnlyAction, Recorded, OnlyRow
  <2>7. \A s \in AllSyncers : SyncOK(s)'
    <3> SUFFICES ASSUME NEW s \in AllSyncers, SyncAt(s, "commit") PROVE order'[syncer[s].key] = order[syncer[s].key]
      BY <1>1, <2>1 DEF SyncOK, SyncAt
    <3>1. order[syncer[s].key].status # "NONE" /\ syncer[s].key \in Keys
      BY DEF RowsExist, SyncerTypes, SyncAt
    <3> QED BY <2>1, <3>1 DEF Recorded, OnlyRow
  <2> QED BY <1>2, <1>3, <2>1, <2>2, <2>6, <2>7
<1>13. ASSUME NEW e \in Executors, NEW k \in Keys, FailsInside(e, k) \/ FailsOutside(e, k) PROVE LifecycleInv'
  <2>1. /\ UNCHANGED <<order, syncer, user>> /\ OnlyExecutor(e) /\ Holds(e, k) /\ executor[e].retryable \in BOOLEAN
        /\ Becomes(k, AfterFailure(k, executor[e].retryable), action[k].attempts, FALSE)
    BY <1>13, OrderExecutionAssumption DEF FailsInside, FailsOutside, Moves, Holds, Works, Working, WorkPcs,
       RetrierPcs, At, Executors
  <2>2. HeldOK(e, k)' /\ \A j \in Keys : j # k => ~Holds(e, j)'
    <3>1. CASE FailsInside(e, k) /\ e \notin Runners
      BY <2>1, <3>1 DEF FailsInside, HeldOK, Moves, AfterFailure, Becomes, At, Holds, Works
    <3>2. CASE FailsOutside(e, k) \/ e \in Runners
      <4>1. ~Working(e)'
        BY <1>13, <3>2, OrderExecutionAssumption DEF FailsInside, FailsOutside, Moves, Working, WorkPcs
      <4> QED BY <4>1 DEF HeldOK, Holds, Works
    <3> QED BY <1>13, <3>1, <3>2
  <2>3. \A d \in Executors, j \in Keys : HeldOK(d, j)'
    BY <1>0, <1>8, <2>1, <2>2 DEF OneHolder, Becomes
  <2>4. order[k].status = "NONE"
    BY <2>1, HeldAction
  <2>5. \A j \in Keys : NewOK(j)' /\ RowOK(j)'
    BY <1>4, <2>1, <2>4 DEF NewOK, RowOK, Existing, Becomes, OnlyAction, AfterFailure
  <2> QED BY <1>2, <1>3, <1>6, <2>1, <2>3, <2>5
<1>14. ASSUME NEW e \in Executors, NEW k \in Keys, Lists(e, k) PROVE LifecycleInv'
  <2>1. /\ UNCHANGED <<action, order, syncer, user>> /\ OnlyExecutor(e) /\ At(e, "listed")'
    BY <1>14 DEF Lists, At
  <2>2. \A d \in Executors, j \in Keys : HeldOK(d, j)'
    BY <1>5, <2>1 DEF OnlyExecutor, HeldOK, Holds
  <2> QED BY <1>2, <1>3, <1>4, <1>6, <2>1, <2>2
<1>15. ASSUME NEW e \in Executors, NEW k \in Keys, ClaimsRetry(e, k) PROVE LifecycleInv'
  <2>1. /\ UNCHANGED <<order, syncer, user>> /\ OnlyExecutor(e) /\ executor'[e].key = k
        /\ action[k].status = "FAILED" /\ DueForRetry(k)
        /\ Becomes(k, "PENDING", action[k].attempts + 1, FALSE)
    BY <1>15 DEF ClaimsRetry, Moves, DueForRetry
  <2>2. \A d \in Executors : ~Holds(d, k)
    BY <1>0, <2>1 DEF OneHolder
  <2>3. \A d \in Executors, j \in Keys : HeldOK(d, j)'
    BY <1>8, <2>1, <2>2 DEF HeldOK, Holds, Works, Becomes
  <2>4. order[k].status = "NONE"
    BY <1>1, <2>1, ResolutionsExist DEF RowOK
  <2>5. \A j \in Keys : NewOK(j)' /\ RowOK(j)'
    BY <1>4, <2>1, <2>4 DEF NewOK, RowOK, Existing, Becomes, OnlyAction
  <2> QED BY <1>2, <1>3, <1>6, <2>1, <2>3, <2>5
<1>16. ASSUME NEW s \in AllSyncers, SyncGoes(s) PROVE LifecycleInv'
  <2>1. UNCHANGED <<action, exchange, order, executor, user>> /\ OnlySyncer(s)
    BY <1>16 DEF SyncGoes
  <2> DEFINE k == syncer'[s].key
  <2>2. ASSUME syncer'[s].pc \in {"idle", "fetch"} PROVE SyncOK(s)'
    BY <2>2 DEF SyncOK, SyncAt
  <2>3. ASSUME SyncAt(s, "fetch"), syncer'[s].pc = "commit", k = syncer[s].key,
               syncer'[s].answer = Report(syncer[s].key)
        PROVE  SyncOK(s)'
    <3>1. k \in Keys
      BY <2>3 DEF SyncerTypes, SyncAt
    <3>2. order[k].status \in FinalStatuses => exchange[k].status \in EndStatuses
      BY <3>1 DEF SettledInv, Settled, FinalStatuses, TerminalStatuses, EndStatuses, Done
    <3> QED BY <2>1, <2>3, <3>1, <3>2, ReportsAreAnswers DEF SyncOK, SyncAt
  <2>4. ~(syncer'[s].pc = "recover" /\ Recoverable(k) /\ order[k].status \in {"FILLED", "FAILED"} \cup TerminalStatuses)
    <3> SUFFICES ASSUME syncer'[s].pc = "recover", order[k].status \in {"FILLED", "FAILED"} \cup TerminalStatuses, Recoverable(k)
                 PROVE FALSE
      OBVIOUS
    <3>1. k \in Keys /\ order[k].status # "NONE"
      BY DEF SyncerTypes, TerminalStatuses
    <3>2. action[k].status = Resolution(order[k].status, order[k].accounted) /\ order[k].status # "FAILED"
      BY <1>1, <3>1 DEF RowOK
    <3>3. Resolution(order[k].status, order[k].accounted) \in {"COMPLETED", "CANCELLED"}
      BY <3>1, <3>2 DEF Resolution, OrderTypes, OrderRows
    <3> QED BY <3>2, <3>3 DEF Recoverable, UnresolvedStatuses, DueForRetry
  <2>5. SyncOK(s)'
    BY <1>16, <2>2, <2>3, <2>4 DEF SyncGoes
  <2>6. \A t \in AllSyncers : SyncOK(t)'
    BY <1>6, <2>1, <2>5 DEF OnlySyncer
  <2> QED BY <1>2, <1>3, <1>4, <1>5, <2>1, <2>6
<1>17. ASSUME NEW s \in AllSyncers, NEW k \in Keys, SyncRecords(s, k) PROVE LifecycleInv'
  <2>1. /\ UNCHANGED <<executor, user>> /\ syncer'[s].pc \in {"idle", "aging"}
        /\ SyncAt(s, "commit") /\ syncer[s].key = k /\ Recorded(k, syncer[s].answer, Accounted(s))
        /\ Becomes(k, Resolution(order'[k].status, order'[k].accounted), action[k].attempts, action[k].due)
    BY <1>17 DEF SyncRecords
  <2>2. order[k].status # "NONE"
    BY <2>1 DEF RowsExist, SyncAt
  <2>3. \A e \in Executors : ~Holds(e, k)
    BY <2>2, HeldAction
  <2>4. \A e \in Executors, j \in Keys : HeldOK(e, j)'
    <3> SUFFICES ASSUME NEW e \in Executors, NEW j \in Keys PROVE HeldOK(e, j)'
      OBVIOUS
    <3>1. CASE j = k
      BY <2>1, <2>3, <3>1, HoldersSame DEF HeldOK
    <3>2. CASE j # k
      BY <1>5, <2>1, <3>2 DEF Becomes, OnlyAction
    <3> QED BY <3>1, <3>2
  <2>5. order'[k].status # "FAILED"
    <3>1. Truthful(syncer[s].answer, k)
      BY <2>1 DEF SettledInv
    <3>2. syncer[s].answer.status \in ExchangeStatuses
      BY RowsRead DEF Answers
    <3> QED BY <2>1, <3>1, <3>2 DEF Recorded, Truthful, MapOrderStatus, ExchangeStatuses
  <2>6. RowOK(k)' /\ NewOK(k)'
    BY <2>1, <2>5, ResolutionsExist DEF RowOK, NewOK, Existing, Becomes
  <2>7. \A j \in Keys : NewOK(j)' /\ RowOK(j)'
    BY <1>4, <2>1, <2>6 DEF Becomes, OnlyAction, Recorded, OnlyRow
  <2>8. \A t \in AllSyncers : SyncOK(t)'
    BY <2>1 DEF OneSync, SyncOK, SyncAt
  <2> QED BY <1>2, <1>3, <2>1, <2>4, <2>7, <2>8
<1>18. ASSUME NEW s \in AllSyncers, NEW k \in Keys, SyncCancels(s, k) PROVE LifecycleInv'
  <2>1. UNCHANGED <<action, order, executor, user>> /\ OnlySyncer(s) /\ syncer'[s].pc = "reread"
    BY <1>18 DEF SyncCancels
  <2>2. \A t \in AllSyncers : SyncOK(t)'
    BY <1>6, <2>1 DEF OnlySyncer, SyncOK, SyncAt
  <2> QED BY <1>2, <1>3, <1>4, <1>5, <2>1, <2>2
<1>19. ASSUME NEW s \in AllSyncers, NEW k \in Keys, Recovers(s, k) PROVE FALSE
  BY <1>1, <1>19 DEF Recovers, SyncOK
<1>20. ASSUME NEW u \in Users, NEW k \in Keys, OwnerReads(u, k) \/ OwnerWrites(u, k) PROVE FALSE
  BY <1>1, <1>20 DEF OwnerReads, OwnerWrites, QuietOwner, OwnerOK, UserAt
<1>21. ASSUME NEW u \in Users, Stops(u) PROVE FALSE
  BY <1>1, <1>21 DEF Stops, QuietOwner, OwnerOK
<1>22. CASE Crashes
  <2>1. \A e \in Executors, k \in Keys : HeldOK(e, k)'
    <3> SUFFICES ASSUME NEW e \in Executors, NEW k \in Keys PROVE HeldOK(e, k)'
      OBVIOUS
    <3>1. CASE executor'[e] = executor[e]
      BY <1>5, <1>22, <3>1 DEF Crashes
    <3>2. CASE executor'[e].pc = "idle"
      BY <3>2 DEF HeldOK, Holds, Works, Working, WorkPcs
    <3> QED BY <1>22, <3>1, <3>2 DEF Crashes
  <2>2. \A s \in AllSyncers : SyncOK(s)'
    BY <1>6, <1>22 DEF Crashes, SyncOK, SyncAt
  <2>3. \A u \in Users : OwnerOK(u)'
    BY <1>1, <1>22 DEF Crashes, OwnerOK
  <2> QED BY <1>2, <1>4, <1>22, <2>1, <2>2, <2>3 DEF Crashes
<1>23. ASSUME NEW k \in Keys, BacksOff(k) PROVE LifecycleInv'
  <2>1. /\ UNCHANGED <<order, executor, syncer, user>> /\ action[k].status = "FAILED"
        /\ Becomes(k, "FAILED", action[k].attempts, TRUE)
    BY <1>23 DEF BacksOff
  <2>2. \A e \in Executors : ~Holds(e, k)
    <3>1. \A e \in Executors : executor[e].key = k => ~At(e, "remark")
      BY <1>23 DEF BacksOff
    <3> QED BY <2>1, <3>1, HeldAction DEF Holds, Works
  <2>3. \A e \in Executors, j \in Keys : HeldOK(e, j)'
    <3> SUFFICES ASSUME NEW e \in Executors, NEW j \in Keys PROVE HeldOK(e, j)'
      OBVIOUS
    <3>1. CASE j = k
      BY <2>1, <2>2, <3>1, HoldersSame DEF HeldOK
    <3>2. CASE j # k
      BY <1>5, <2>1, <3>2 DEF Becomes, OnlyAction
    <3> QED BY <3>1, <3>2
  <2>4. \A j \in Keys : NewOK(j)' /\ RowOK(j)'
    <3>1. order[k].status = "NONE"
      BY <1>1, <2>1, ResolutionsExist DEF RowOK
    <3> QED BY <1>4, <2>1, <3>1 DEF NewOK, RowOK, Existing, Becomes, OnlyAction
  <2> QED BY <1>2, <1>3, <1>6, <2>1, <2>3, <2>4
<1>24. ASSUME NEW k \in Keys, Trades(k) PROVE LifecycleInv'
  BY <1>2, <1>3, <1>4, <1>5, <1>6, <1>24 DEF Trades
<1>25. CASE Nothing
  BY <1>2, <1>3, <1>4, <1>5, <1>6, <1>25 DEF Nothing
<1> QED BY <1>9, <1>10, <1>11, <1>12, <1>13, <1>14, <1>15, <1>16, <1>17, <1>18, <1>19, <1>20, <1>21, <1>22,
           <1>23, <1>24, <1>25 DEF Kinds

LEMMA LifecycleInvariant == QuietOwner /\ OneSync => (Spec => []LifecycleInv)
<1> SUFFICES ASSUME QuietOwner, OneSync PROVE Spec => []LifecycleInv
  OBVIOUS
<1>1. Init => LifecycleInv
  <2> SUFFICES ASSUME Init PROVE LifecycleInv
    OBVIOUS
  <2>1. /\ \A k \in Keys : action[k].attempts = 0 /\ order[k].status = "NONE"
        /\ \A e \in Executors : executor[e].pc = "idle"
        /\ \A s \in AllSyncers : syncer[s].pc = "idle"
        /\ \A u \in Users : user[u].pc = "idle"
    BY DEF Init, InitActions, NoAction, InitPositions, NoOrder, InitExecution, Resting, InitSync, Waiting, InitUsers, NoRequest
  <2>2. \A k : \A e \in Executors : ~Holds(e, k)
    BY <2>1 DEF Holds, Works, Working, WorkPcs
  <2> QED BY <2>1, <2>2 DEF LifecycleInv, SyncAt
<1>2. BotTypes /\ BotTypes' /\ PlacedInv /\ SettledInv /\ LifecycleInv /\ [Next]_vars => LifecycleInv'
  BY StepKinds, LifecycleNext DEF PlacedInv
<1>3. CarefulRetries /\ NoEmergencyStop
  BY DEF QuietOwner, CarefulRetries, NoManualRetry, NoEmergencyStop
<1>4. Spec => []PlacedInv
  BY <1>3, PlacedInvariant
<1>5. Spec => []SettledInv
  BY <1>3, SettledInvariant
<1> QED BY <1>1, <1>2, <1>4, <1>5, BotTyped, PTL DEF Spec

\* The status and the attempts of the actions, as the lifecycle sees them.
Statuses == [k \in Keys |-> action[k].status]
Tries == [k \in Keys |-> action[k].attempts]

LEMMA LifecycleRow ==
    ASSUME NEW k \in Keys, NEW s, NEW n, NEW d, Becomes(k, s, n, d)
    PROVE  /\ Statuses' = [Statuses EXCEPT ![k] = s] /\ Tries' = [Tries EXCEPT ![k] = n]
           /\ Statuses[k] = action[k].status /\ Tries[k] = action[k].attempts
           /\ s = action[k].status => UNCHANGED Statuses
           /\ n = action[k].attempts => UNCHANGED Tries
BY DEF Becomes, OnlyAction, Statuses, Tries

LEMMA LifecycleStep ==
    ASSUME QuietOwner, OneSync, BotTypes, RowsExist, SettledInv, LifecycleInv, Kinds
    PROVE  [Lifecycle!Next]_<<Statuses, Tries>>
<1> USE DEF BotTypes
<1>1. UNCHANGED action => UNCHANGED <<Statuses, Tries>>
  BY DEF Statuses, Tries
<1>2. ASSUME NEW k \in Keys, NEW s, NEW d, Becomes(k, s, action[k].attempts, d), s = action[k].status
      PROVE  UNCHANGED <<Statuses, Tries>>
  BY <1>2, LifecycleRow
<1>3. ASSUME NEW e \in Executors, NEW k \in Keys, Claims(e, k) PROVE Lifecycle!Claim(k)
  <2>1. action[k].status = "NONE" /\ action[k].attempts = 0 /\ Becomes(k, "PENDING", 0, FALSE)
    BY <1>3 DEF Claims, LifecycleInv, Existing
  <2> QED BY <2>1, LifecycleRow DEF Lifecycle!Claim, Lifecycle!Step, Statuses, Tries
<1>4. ASSUME NEW e \in Executors, NEW k \in Keys, Records(e, k) PROVE Lifecycle!Record(k)
  <2>1. Holds(e, k) /\ ~At(e, "remark")
    BY <1>4 DEF Records, Holds, Works, Working, WorkPcs, RetrierPcs, At
  <2>2. action[k].status = "PENDING"
    BY <2>1, HeldAction
  <2>3. PICK s \in {"SUBMITTED", "COMPLETED", "CANCELLED"} : Becomes(k, s, action[k].attempts, action[k].due)
    BY <1>4, ResolutionsExist DEF Records
  <2> QED BY <2>2, <2>3, LifecycleRow DEF Lifecycle!Record, Lifecycle!Step, Statuses, Tries
<1>5. ASSUME NEW e \in Executors, NEW k \in Keys, FailsInside(e, k) \/ FailsOutside(e, k)
      PROVE  \/ Lifecycle!Fail(k) \/ Lifecycle!FailForNow(k) \/ Lifecycle!FailAfterAll(k)
             \/ UNCHANGED <<Statuses, Tries>>
  <2> DEFINE r == executor[e].retryable
             s == AfterFailure(k, r)
  <2>1. Holds(e, k) /\ r \in BOOLEAN /\ Becomes(k, s, action[k].attempts, FALSE)
    BY <1>5, OrderExecutionAssumption DEF FailsInside, FailsOutside, Holds, Works, Working, WorkPcs, RetrierPcs,
       At, Executors
  <2>2. action[k].status \in {"PENDING", "FAILED", "PERMANENTLY_FAILED"}
    BY <2>1, HeldAction
  <2>3. s = IF r /\ Tries[k] < MaxAttempts THEN "FAILED" ELSE "PERMANENTLY_FAILED"
    BY DEF AfterFailure, Tries
  <2>4. /\ Statuses' = [Statuses EXCEPT ![k] = s] /\ UNCHANGED Tries
        /\ Statuses[k] = action[k].status
    BY <2>1, LifecycleRow
  <2> HIDE DEF r, s
  <2>5. CASE action[k].status = "PENDING"
    BY <2>3, <2>4, <2>5 DEF Lifecycle!Fail, Lifecycle!FailForNow, Lifecycle!Step, Statuses, Tries
  <2>6. CASE action[k].status = "FAILED" /\ s = "PERMANENTLY_FAILED"
    BY <2>4, <2>6 DEF Lifecycle!FailAfterAll, Lifecycle!Step, Statuses, Tries
  <2>7. CASE action[k].status = "PERMANENTLY_FAILED"
    <3>1. ~(r /\ action[k].attempts < MaxAttempts)
      BY <2>1, <2>7 DEF LifecycleInv, r
    <3>2. s = action[k].status
      BY <2>3, <2>7, <3>1 DEF Tries
    <3> QED BY <1>2, <2>1, <3>2
  <2>8. CASE action[k].status = "FAILED" /\ s = "FAILED"
    BY <1>2, <2>1, <2>8
  <2> QED BY <2>2, <2>3, <2>5, <2>6, <2>7, <2>8
<1>6. ASSUME NEW e \in Executors, NEW k \in Keys, ClaimsRetry(e, k) PROVE Lifecycle!Retry(k)
  <2>1. action[k].status = "FAILED" /\ Becomes(k, "PENDING", action[k].attempts + 1, FALSE)
    BY <1>6 DEF ClaimsRetry, DueForRetry
  <2>2. /\ Statuses' = [Statuses EXCEPT ![k] = "PENDING"] /\ Tries' = [Tries EXCEPT ![k] = Tries[k] + 1]
        /\ Statuses[k] = "FAILED"
    BY <2>1, LifecycleRow
  <2> QED BY <2>2 DEF Lifecycle!Retry, Lifecycle!Step, Statuses, Tries
<1>7. ASSUME NEW s \in AllSyncers, NEW k \in Keys, SyncRecords(s, k)
      PROVE  Lifecycle!End(k) \/ UNCHANGED <<Statuses, Tries>>
  <2>1. /\ order[k].status # "NONE" /\ SyncAt(s, "commit")
        /\ Becomes(k, Resolution(order'[k].status, order'[k].accounted), action[k].attempts, action[k].due)
    BY <1>7 DEF SyncRecords, RowsExist, SyncAt
  <2>2. action[k].status = Resolution(order[k].status, order[k].accounted)
    BY <2>1 DEF LifecycleInv
  <2>3. CASE order[k].status \in FinalStatuses
    <3>1. Resolution(order'[k].status, order'[k].accounted) = action[k].status
      BY <1>7, <2>2, <2>3, FinalRowsStay
    <3> QED BY <1>2, <2>1, <3>1
  <2>4. CASE order[k].status \notin FinalStatuses
    <3>1. action[k].status = "SUBMITTED"
      BY <2>2, <2>4 DEF Resolution, FinalStatuses, TerminalStatuses
    <3>2. PICK t \in {"SUBMITTED", "COMPLETED", "CANCELLED"} : Becomes(k, t, action[k].attempts, action[k].due)
      BY <2>1, ResolutionsExist
    <3>3. CASE t = "SUBMITTED"
      BY <1>2, <3>1, <3>2, <3>3
    <3>4. CASE t \in {"COMPLETED", "CANCELLED"}
      BY <3>1, <3>2, <3>4, LifecycleRow DEF Lifecycle!End, Lifecycle!Step, Statuses, Tries
    <3> QED BY <3>3, <3>4
  <2> QED BY <2>3, <2>4
<1>8. ASSUME NEW k \in Keys, BacksOff(k) PROVE UNCHANGED <<Statuses, Tries>>
  BY <1>2, <1>8 DEF BacksOff
<1>9. ASSUME \/ \E e \in Executors : Goes(e) \/ \E k \in Keys : Places(e, k) \/ Lists(e, k)
             \/ \E s \in AllSyncers : SyncGoes(s) \/ \E k \in Keys : SyncCancels(s, k)
             \/ Crashes \/ Nothing \/ \E k \in Keys : Trades(k)
      PROVE  UNCHANGED <<Statuses, Tries>>
  BY <1>1, <1>9 DEF Goes, Places, Lists, SyncGoes, SyncCancels, Crashes, Nothing, Trades
\* The owner does not touch the actions, and nothing is left to recover.
<1>10. ~ \E s \in AllSyncers, k \in Keys : Recovers(s, k)
  BY DEF Recovers, LifecycleInv
<1>11. ~ \E u \in Users : Stops(u) \/ \E k \in Keys : OwnerReads(u, k) \/ OwnerWrites(u, k)
  BY DEF Stops, OwnerReads, OwnerWrites, QuietOwner, LifecycleInv, UserAt
<1>12. \/ \E k \in Keys : \/ Lifecycle!Claim(k) \/ Lifecycle!Record(k) \/ Lifecycle!End(k) \/ Lifecycle!Fail(k)
                           \/ Lifecycle!FailForNow(k) \/ Lifecycle!Retry(k) \/ Lifecycle!FailAfterAll(k)
       \/ UNCHANGED <<Statuses, Tries>>
  BY <1>3, <1>4, <1>5, <1>6, <1>7, <1>8, <1>9, <1>10, <1>11 DEF Kinds
<1> QED BY <1>12 DEF Lifecycle!Next

\* Whatever ticks, retries, one pass or request at a time that syncs the orders,
\* crashes and lost answers do to an action, it goes through the lifecycle of its
\* record: what has ended stays so, and it is tried again MaxAttempts times at most.
THEOREM ActionsHaveALifecycle == QuietOwner /\ OneSync => (Spec => ImplementsLifecycle)
<1> SUFFICES ASSUME QuietOwner, OneSync PROVE Spec => ImplementsLifecycle
  OBVIOUS
<1>1. Init => Lifecycle!Init
  BY DEF Init, InitActions, NoAction, Lifecycle!Init
<1>2. BotTypes /\ PlacedInv /\ SettledInv /\ LifecycleInv /\ [Next]_vars => [Lifecycle!Next]_<<Statuses, Tries>>
  BY StepKinds, LifecycleStep DEF PlacedInv
<1>3. CarefulRetries /\ NoEmergencyStop
  BY DEF QuietOwner, CarefulRetries, NoManualRetry, NoEmergencyStop
<1>4. Spec => []PlacedInv
  BY <1>3, PlacedInvariant
<1>5. Spec => []SettledInv
  BY <1>3, SettledInvariant
<1>6. Spec => []LifecycleInv
  BY LifecycleInvariant
<1> QED BY <1>1, <1>2, <1>4, <1>5, <1>6, BotTyped, PTL DEF Spec, ImplementsLifecycle, Lifecycle!Spec, Statuses, Tries

-----------------------------------------------------------------------------
(* No level is bought twice.  A tick aims at the attempt that follows the    *)
(* cancelled ones; those ended without a fill, and that never changes again,  *)
(* even when a stale sync writes something else over the cancelled action.    *)

Active(k) == action[k].status \in {"PENDING", "SUBMITTED", "FAILED"}

\* A tick before it has an action of its own.
BeforePcs == {"deciding", "begin", "claim", "insert"}
AimedPcs == {"begin", "claim", "insert"}
Aims(e, k) == executor[e].pc \in AimedPcs /\ executor[e].key = k

\* The next attempt of an entry follows the cancelled ones.
NextAttempt(k) == k.side = "BUY" /\ k.level # 1 => k.attempt = CancelledAttempts(k) + 1

\* The order has ended and bought nothing.
BoughtNothing(k) == exchange[k].status # "NONE" /\ Done(k) /\ exchange[k].executed = 0

\* The owner gives up no action whose order may have been placed.
NoCancelledRetry == "cancelRetry" \notin Operations

LadderInv ==
    /\ \A k \in Keys : exchange[k].status = "NONE" => exchange[k].executed = 0
    /\ \A k \in Keys : action[k].status = "CANCELLED" => BoughtNothing(k)
    /\ \A k, j \in EntryKeys :
          SameEntry(k, j) /\ j.attempt < k.attempt /\ (Existing(k) \/ \E e \in Runners : Aims(e, k)) =>
             BoughtNothing(j)
    /\ \A u \in Users : ~UserAt(u, "cancelling")

\* Whom a step of the bot leaves where it is.
LEMMA RunnersMove ==
    ASSUME BotTypes, [Next]_vars, NEW e \in Runners
    PROVE  RunnerNext(e) \/ ExecutorNext(e) \/ executor'[e] = executor[e] \/ executor'[e].pc = "idle"
<1> USE DEF BotTypes
<1>0. e \in Executors
  BY DEF Executors
<1>1. ASSUME NEW d \in Runners, RunnerNext(d), d # e PROVE executor'[e] = executor[e]
  BY <1>0, <1>1, TickMoves DEF RunnerNext, OnlyExecutor
<1>2. ASSUME NEW d \in Executors, ExecutorNext(d), d # e PROVE executor'[e] = executor[e]
  <2>1. OnlyExecutor(d)
    BY <1>2, ExecutorKinds DEF Goes, Claims, Places, Records, FailsInside, FailsOutside, ClaimsRetry, Moves
  <2> QED BY <1>0, <1>2, <2>1 DEF OnlyExecutor
<1>3. ASSUME NEW d \in Retriers, NEW k \in Keys, ListNext(d, k) PROVE executor'[e] = executor[e]
  <2>1. d \in Executors /\ d # e /\ RetryList(d, k)
    BY <1>3, OrderExecutionAssumption DEF ListNext, Executors
  <2>2. OnlyExecutor(d)
    BY <1>3, <2>1, RetryListMoves
  <2> QED BY <1>0, <2>1, <2>2 DEF OnlyExecutor
<1>4. ASSUME NEW s \in AllSyncers, SyncNext(s) \/ \E k \in Keys : PickNext(s, k) PROVE UNCHANGED executor
  BY <1>4, SyncKinds DEF SyncGoes, SyncRecords, SyncCancels, Recovers, PickNext, SyncRead, RecoverRead
<1>5. ASSUME NEW u \in Users, UserNext(u) PROVE UNCHANGED executor
  BY <1>5, OwnerKinds DEF OwnerReads, OwnerWrites, Stops, Nothing
<1>6. ASSUME NEW p \in Processes, Crash(p) PROVE executor'[e] = executor[e] \/ executor'[e].pc = "idle"
  BY <1>0, <1>6 DEF Crash, Resting
<1>7. ASSUME (\E k \in Keys : BackoffNext(k) \/ MarketNext(k)) \/ ExpiryNext \/ UNCHANGED vars
      PROVE  UNCHANGED executor
  BY <1>7 DEF BackoffNext, Backoff, MarketNext, Market, ExpiryNext, TickLockExpires, vars
<1> QED BY <1>1, <1>2, <1>3, <1>4, <1>5, <1>6, <1>7 DEF Next

\* A tick inside the call that places its order.
LEMMA CallMoves ==
    ASSUME BotTypes, NEW e \in Runners, ExecutorNext(e)
    PROVE  /\ executor[e].pc \notin {"idle", "loaded"}
           /\ executor'[e].pc \in BeforePcs =>
                 executor[e].pc \in AimedPcs /\ executor'[e].pc \in AimedPcs /\ executor'[e].key = executor[e].key
<1> USE DEF BotTypes
<1>0. e \in Executors /\ e \notin Retriers /\ ExecutionStep(e)
  BY OrderExecutionAssumption DEF Executors, ExecutorNext
<1>1. CASE Begin(e)
  <2>1. Moves(e, "claim") /\ executor[e].pc = "begin"
    BY <1>0, <1>1, BeginMoves DEF Begin, At
  <2> QED BY <2>1 DEF Moves, AimedPcs
<1>2. CASE BeginRefused(e)
  <2>1. Moves(e, "unlock") /\ executor[e].pc = "begin"
    BY <1>0, <1>2, RefusedMoves DEF BeginRefused, At
  <2> QED BY <2>1 DEF Moves, BeforePcs
<1>3. CASE ClaimCheck(e)
  <2>1. (Moves(e, "unlock") \/ Moves(e, "insert")) /\ executor[e].pc = "claim"
    BY <1>0, <1>3, ClaimCheckMoves DEF ClaimCheck, At
  <2> QED BY <2>1 DEF Moves, BeforePcs, AimedPcs
<1>4. CASE ClaimInsert(e)
  <2>1. (Moves(e, "unlock") \/ Moves(e, "place")) /\ executor[e].pc = "insert"
    BY <1>0, <1>4, ClaimInsertMoves DEF ClaimInsert, At
  <2> QED BY <2>1 DEF Moves, BeforePcs
<1>5. CASE GetClaimedRetry(e) \/ Lookup(e) \/ LookupFails(e) \/ MarkFailedOutside(e) \/ RetryClaim(e)
  <2>1. At(e, "claimed") \/ At(e, "lookup") \/ At(e, "remark") \/ At(e, "listed")
    BY <1>5 DEF GetClaimedRetry, Lookup, LookupFails, MarkFailedOutside, RetryClaim
  <2> QED BY <1>0, <2>1, WhoWorksWhere
<1>6. CASE PlaceRefused(e) \/ CommitThrows(e)
  <2>1. Moves(e, "failing") /\ executor[e].pc \in {"lookup", "place", "commit"}
    BY <1>0, <1>6, TryFails
  <2> QED BY <2>1 DEF Moves, BeforePcs
<1>7. CASE Place(e) \/ PlaceUnanswered(e)
  <2>1. At(e, "place")
    BY <1>7 DEF Place, PlaceUnanswered
  <2>2. executor[e].key \in Keys
    BY <1>0, <2>1, KeyedHaveKeys DEF KeyedPcs, ExecutorPcs
  <2>3. Moves(e, "failing") \/ Moves(e, "commit")
    BY <1>0, <1>7, <2>2, PlaceMoves
  <2> QED BY <2>1, <2>3 DEF Moves, BeforePcs, At
<1>8. CASE Commit(e)
  <2>1. executor'[e].pc \in {"idle", "unlock"} /\ executor[e].pc = "commit"
    BY <1>0, <1>8, CommitMoves DEF Commit, At
  <2> QED BY <2>1 DEF BeforePcs
<1>9. CASE MarkFailedInside(e)
  <2>1. Moves(e, "unlock") /\ executor[e].pc = "failing"
    BY <1>0, <1>9, MarkInsideMoves DEF MarkFailedInside, At
  <2> QED BY <2>1 DEF Moves, BeforePcs
<1> QED BY <1>0, <1>1, <1>2, <1>3, <1>4, <1>5, <1>6, <1>7, <1>8, <1>9 DEF ExecutionStep

\* A tick before that call.
LEMMA TickAims ==
    ASSUME BotTypes, NEW e \in Runners, RunnerNext(e)
    PROVE  /\ UNCHANGED action
           /\ executor'[e].pc \notin {"idle", "loaded"} =>
                 tickLock' = e \/ (tickLock' = tickLock /\ executor[e].pc \notin {"idle", "loaded"})
           /\ tickLock' # tickLock => tickLock = NoOwner \/ tickLock = e
           /\ executor'[e].pc \in BeforePcs =>
                 \/ executor'[e].pc = "deciding" /\ \A k \in Keys : ~Active(k)
                 \/ executor[e].pc = "deciding" /\ NextAttempt(executor'[e].key)
<1> USE DEF BotTypes
<1>0. e \in Executors /\ TickStep(e) /\ \E S : executor \in [Executors -> ExecutorRows(S)]
  BY DEF Executors, RunnerNext, ExecutorTypes
<1>1. CASE LoadStrategies(e)
  <2>1. executor'[e].pc = "loaded"
    BY <1>0, <1>1 DEF LoadStrategies, ExecutorRows
  <2> QED BY <1>1, <2>1 DEF LoadStrategies, serviceState, BeforePcs
<1>2. CASE TakeTickLock(e)
  <2>1. \/ executor'[e].pc = "locked" /\ tickLock' = e /\ tickLock = NoOwner
        \/ executor'[e].pc = "idle" /\ UNCHANGED tickLock
    BY <1>0, <1>2 DEF TakeTickLock, TickLockFree, Go, Rest, Resting, ExecutorRows
  <2> QED BY <1>2, <2>1 DEF TakeTickLock, serviceState, BeforePcs
<1>3. CASE CheckPending(e)
  <2>1. /\ executor[e].pc = "locked" /\ UNCHANGED <<action, tickLock>>
        /\ executor'[e].pc = IF PendingExecution THEN "unlock" ELSE "deciding"
    BY <1>0, <1>3 DEF CheckPending, Go, ExecutorRows, serviceState, At
  <2>2. ~PendingExecution => \A k \in Keys : ~Active(k)
    BY DEF PendingExecution, Active, UnresolvedStatuses
  <2> QED BY <2>1, <2>2 DEF BeforePcs
<1>4. ASSUME NEW k, NEW q, Execute(e, k, q), At(e, "deciding"), NextAttempt(k)
      PROVE  /\ UNCHANGED <<action, tickLock>> /\ executor[e].pc = "deciding"
             /\ executor'[e].pc = "begin" /\ NextAttempt(executor'[e].key)
  BY <1>0, <1>4 DEF Execute, ExecutorRows, At, serviceState
<1>5. CASE DecideInitialEntry(e) \/ DecideLegExit(e) \/ DecideParentExit(e) \/ DecideNextEntry(e)
  <2>1. \E k, q : Execute(e, k, q) /\ At(e, "deciding") /\ NextAttempt(k)
    <3>1. CASE DecideInitialEntry(e)
      BY <3>1 DEF DecideInitialEntry, NextAttempt, EntryKey
    <3>2. CASE DecideLegExit(e) \/ DecideParentExit(e)
      <4>1. At(e, "deciding") /\ \E l, q : Execute(e, ExitKey(executor[e].view.cycle, l), q)
        BY <3>2 DEF DecideLegExit, DecideParentExit
      <4>2. \A c, l : NextAttempt(ExitKey(c, l))
        BY DEF NextAttempt, ExitKey
      <4> QED BY <4>1, <4>2
    <3>3. CASE DecideNextEntry(e)
      <4>1. NextAttempt(NextEntry(executor[e].view))
        BY DEF NextAttempt, NextEntry, EntryKey, CancelledAttempts, SameEntry
      <4> QED BY <3>3, <4>1 DEF DecideNextEntry
    <3> QED BY <1>5, <3>1, <3>2, <3>3
  <2> QED BY <1>4, <2>1
<1>6. CASE Hold(e)
  <2>1. executor'[e].pc = "unlock" /\ executor[e].pc = "deciding" /\ UNCHANGED <<action, tickLock>>
    BY <1>0, <1>6 DEF Hold, Go, At, ExecutorRows, serviceState
  <2> QED BY <2>1 DEF BeforePcs
<1>7. CASE Unlock(e)
  <2>1. executor'[e].pc = "idle" /\ UNCHANGED action /\ (tickLock' = tickLock \/ tickLock = e)
    BY <1>0, <1>7 DEF Unlock, Rest, Resting, serviceState
  <2> QED BY <2>1 DEF BeforePcs
<1> QED BY <1>0, <1>1, <1>2, <1>3, <1>5, <1>6, <1>7 DEF TickStep

\* An aim is taken by counting, and kept.
LEMMA AimsMove ==
    ASSUME BotTypes, [Next]_vars, NEW e \in Runners, NEW k, Aims(e, k)'
    PROVE  Aims(e, k) \/ NextAttempt(k)
<1>1. executor'[e].pc \in AimedPcs /\ executor'[e].key = k /\ executor'[e].pc \in BeforePcs
  BY DEF Aims, AimedPcs, BeforePcs
<1>2. CASE RunnerNext(e)
  BY <1>1, <1>2, TickAims DEF AimedPcs
<1>3. CASE ExecutorNext(e)
  BY <1>1, <1>3, CallMoves DEF Aims
<1>4. CASE executor'[e] = executor[e]
  BY <1>1, <1>4 DEF Aims
<1> QED BY <1>1, <1>2, <1>3, <1>4, RunnersMove DEF AimedPcs

\* An action appears when a tick creates it, and at no other time.
LEMMA NewActions ==
    ASSUME BotTypes, RowsExist, Kinds, NEW k \in Keys, ~Existing(k), Existing(k)'
    PROVE  \E e \in Executors : Claims(e, k)
<1> USE DEF Existing
<1>1. ASSUME NEW e \in Executors, NEW j \in Keys,
             Records(e, j) \/ FailsInside(e, j) \/ FailsOutside(e, j) \/ ClaimsRetry(e, j)
      PROVE  FALSE
  <2>1. Existing(j)
    <3>1. Works(e, j)
      BY <1>1, OrderExecutionAssumption DEF Records, FailsInside, FailsOutside, ClaimsRetry, Works, Working,
         WorkPcs, RetrierPcs, At, Executors
    <3> QED BY <3>1 DEF RowsExist
  <2>2. OnlyAction(j)
    BY <1>1 DEF Records, FailsInside, FailsOutside, ClaimsRetry, Becomes
  <2> QED BY <2>1, <2>2 DEF OnlyAction
<1>2. ASSUME NEW e \in Executors, NEW j \in Keys, Claims(e, j) PROVE j = k
  BY <1>2 DEF Claims, Becomes, OnlyAction
<1>3. ASSUME NEW s \in AllSyncers, NEW j \in Keys, SyncRecords(s, j) \/ Recovers(s, j) PROVE FALSE
  <2>1. Existing(j) /\ OnlyAction(j)
    BY <1>3 DEF SyncRecords, Recovers, Becomes, SyncAt, RowsExist
  <2> QED BY <2>1 DEF OnlyAction
<1>4. ASSUME NEW u \in Users, NEW j \in Keys, OwnerWrites(u, j) PROVE FALSE
  <2>1. Existing(j) /\ OnlyAction(j)
    BY <1>4 DEF OwnerWrites, Becomes, UserAt, Writes, RowsExist
  <2> QED BY <2>1 DEF OnlyAction
<1>5. ASSUME NEW j \in Keys, BacksOff(j) PROVE FALSE
  BY <1>5 DEF BacksOff, Becomes, OnlyAction
<1>6. ASSUME NEW u \in Users, Stops(u) PROVE FALSE
  BY <1>6 DEF Stops
<1>7. ASSUME \/ \E e \in Executors : Goes(e) \/ \E j \in Keys : Places(e, j) \/ Lists(e, j)
             \/ \E s \in AllSyncers : SyncGoes(s) \/ \E j \in Keys : SyncCancels(s, j)
             \/ Crashes \/ Nothing \/ (\E j \in Keys : Trades(j))
             \/ \E u \in Users, j \in Keys : OwnerReads(u, j)
      PROVE  FALSE
  BY <1>7 DEF Goes, Places, Lists, SyncGoes, SyncCancels, Crashes, Nothing, Trades, OwnerReads
<1> QED BY <1>1, <1>2, <1>3, <1>4, <1>5, <1>6, <1>7 DEF Kinds

\* What the ladder is counted with.
LEMMA AttemptsBelow ==
    ASSUME NEW c, NEW l, NEW n \in Nat
    PROVE  /\ IsFiniteSet({EntryKey(c, l, b) : b \in 1..n})
           /\ Cardinality({EntryKey(c, l, b) : b \in 1..n}) <= n
<1> DEFINE D == {EntryKey(c, l, b) : b \in 1..n}
           f == [b \in 1..n |-> EntryKey(c, l, b)]
<1>1. f \in Surjection(1..n, D)
  BY DEF Surjection
<1>2. IsFiniteSet(1..n) /\ Cardinality(1..n) = n
  BY FS_Interval
<1> HIDE DEF f, D
<1>3. IsFiniteSet(D) /\ Cardinality(D) <= Cardinality(1..n)
  BY <1>1, <1>2, FS_Surjection
<1> QED BY <1>2, <1>3 DEF D

LEMMA EntryAttempts ==
    ASSUME NEW k \in EntryKeys
    PROVE  /\ k \in Keys /\ k.side = "BUY" /\ k.attempt \in Nat /\ k.attempt > 0
           /\ k = EntryKey(k.cycle, k.level, k.attempt)
           /\ k.level = 1 => k.attempt = 1
BY TradingKeysAssumption DEF EntryKeys, Keys, EntryKey, Levels

\* As many attempts as were cancelled came before: each of them bought nothing.
LEMMA FirstAttemptsBoughtNothing ==
    ASSUME LadderInv, NEW k \in EntryKeys, NEW j \in EntryKeys, SameEntry(k, j),
           j.attempt < k.attempt, NextAttempt(k)
    PROVE  BoughtNothing(j)
<1> SUFFICES ASSUME ~BoughtNothing(j) PROVE FALSE
  OBVIOUS
<1> DEFINE C == {i \in Keys : SameEntry(k, i) /\ action[i].status = "CANCELLED"}
           n == j.attempt - 1
           D == {EntryKey(k.cycle, k.level, b) : b \in 1..n}
<1>1. n \in Nat /\ j.attempt \in Nat /\ k.attempt \in Nat
  BY EntryAttempts
<1>2. ASSUME NEW i \in C PROVE i \in D
  <2>1. i \in EntryKeys
    BY DEF Keys, ExitKeys, SameEntry
  <2>2. /\ SameEntry(i, j) /\ Existing(i) /\ i.attempt \in Nat /\ i.attempt > 0
        /\ i = EntryKey(k.cycle, k.level, i.attempt)
    BY <2>1, EntryAttempts DEF SameEntry, Existing
  <2>3. ~(j.attempt < i.attempt)
    BY <2>1, <2>2 DEF LadderInv
  <2>4. i.attempt # j.attempt
    <3>1. i # j
      BY <2>1 DEF LadderInv
    <3> QED BY <2>1, <2>2, <3>1, EntryAttempts DEF SameEntry
  <2>5. i.attempt \in 1..n
    BY <1>1, <2>2, <2>3, <2>4
  <2> QED BY <2>2, <2>5
<1>3. IsFiniteSet(D) /\ Cardinality(D) <= n
  BY <1>1, AttemptsBelow
<1>4. IsFiniteSet(C) /\ Cardinality(C) <= Cardinality(D)
  BY <1>2, <1>3, FS_Subset
<1>5. Cardinality(C) \in Nat /\ Cardinality(D) \in Nat
  BY <1>3, <1>4, FS_CardinalityType
<1>6. k.attempt = Cardinality(C) + 1
  <2>1. k.side = "BUY" /\ k.level # 1
    BY <1>1, EntryAttempts DEF SameEntry
  <2> QED BY <2>1 DEF NextAttempt, CancelledAttempts
<1> HIDE DEF C, D
<1> QED BY <1>1, <1>3, <1>4, <1>5, <1>6

\* The exchange keeps an order as it is or has something to say of it.
LEMMA ExchangeMoves ==
    ASSUME Kinds, NEW k \in Keys
    PROVE  exchange'[k] = exchange[k] \/ exchange'[k].status # "NONE"
<1>1. ASSUME NEW e \in Executors,
             \/ Goes(e)
             \/ \E j \in Keys : \/ Claims(e, j) \/ Records(e, j) \/ FailsInside(e, j) \/ FailsOutside(e, j)
                               \/ Lists(e, j) \/ ClaimsRetry(e, j)
      PROVE  UNCHANGED exchange
  BY <1>1 DEF Goes, Claims, Records, FailsInside, FailsOutside, Lists, ClaimsRetry
<1>2. ASSUME NEW e \in Executors, NEW j \in Keys, Places(e, j)
      PROVE  exchange'[k] = exchange[k] \/ exchange'[k].status # "NONE"
  BY <1>2 DEF Places, OnlyOrderOf
<1>3. ASSUME NEW j \in Keys, Cancelled(j)
      PROVE  exchange'[k] = exchange[k] \/ exchange'[k].status # "NONE"
  BY <1>3 DEF Cancelled, OnlyOrderOf
<1>4. ASSUME NEW s \in AllSyncers,
             SyncGoes(s) \/ \E j \in Keys : SyncRecords(s, j) \/ SyncCancels(s, j) \/ Recovers(s, j)
      PROVE  UNCHANGED exchange \/ \E j \in Keys : Cancelled(j)
  BY <1>4 DEF SyncGoes, SyncRecords, SyncCancels, Recovers
<1>5. ASSUME NEW u \in Users, Stops(u) \/ \E j \in Keys : OwnerReads(u, j) \/ OwnerWrites(u, j)
      PROVE  UNCHANGED exchange \/ \E j \in Keys : Cancelled(j)
  BY <1>5 DEF Stops, OwnerReads, OwnerWrites
<1>6. ASSUME Crashes \/ Nothing \/ \E j \in Keys : BacksOff(j) PROVE UNCHANGED exchange
  BY <1>6 DEF Crashes, Nothing, BacksOff
<1>7. ASSUME NEW j \in Keys, Trades(j) PROVE exchange'[k] = exchange[k] \/ exchange'[k].status # "NONE"
  BY <1>7 DEF Trades, OnlyOrderOf
<1> QED BY <1>1, <1>2, <1>3, <1>4, <1>5, <1>6, <1>7 DEF Kinds

LEMMA LadderInvNext ==
    ASSUME NoCancelledRetry, NoEmergencyStop, BotTypes, BotTypes', RowsExist, PlacedOnce, SettledInv, SettledInv', LadderInv, Kinds, [Next]_vars
    PROVE  LadderInv'
<1>0. ASSUME NEW k \in Keys, BoughtNothing(k) PROVE BoughtNothing(k)'
  BY <1>0, ExchangeGrows DEF BoughtNothing, Done
\* Nothing is executed that was not placed.
<1>1. ASSUME NEW k \in Keys, exchange'[k].status = "NONE" PROVE exchange'[k].executed = 0
  <2>1. exchange[k].status = "NONE"
    BY <1>1, ExistingStays
  <2>2. exchange'[k] = exchange[k] \/ exchange'[k].status # "NONE"
    BY ExchangeMoves
  <2> QED BY <1>1, <2>1, <2>2 DEF LadderInv
\* What is newly cancelled was recorded so.
<1>2. ASSUME NEW k \in Keys, action'[k].status = "CANCELLED" PROVE BoughtNothing(k)'
  <2>1. CASE action[k].status = "CANCELLED"
    BY <1>0, <2>1 DEF LadderInv
  <2>2. ASSUME order'[k].status # "NONE", action'[k].status = Resolution(order'[k].status, order'[k].accounted)
        PROVE  BoughtNothing(k)'
    <3>1. order'[k].status \in TerminalStatuses /\ order'[k].accounted = 0
      BY <1>2, <2>2 DEF Resolution
    <3>2. Counted(order[k], k)' /\ Settled(order[k], k)'
      BY <2>2 DEF SettledInv
    <3> QED BY <3>1, <3>2 DEF Counted, Settled, FinalStatuses, BoughtNothing
  <2>3. ASSUME NEW e \in Executors, NEW j \in Keys, Claims(e, j) \/ FailsInside(e, j) \/ FailsOutside(e, j) \/ ClaimsRetry(e, j)
        PROVE  action'[k].status = action[k].status \/ action'[k].status # "CANCELLED"
    BY <2>3 DEF Claims, FailsInside, FailsOutside, ClaimsRetry, Becomes, OnlyAction, AfterFailure
  <2>4. ASSUME NEW e \in Executors, NEW j \in Keys, Records(e, j)
        PROVE  \/ action'[k].status = action[k].status
               \/ order'[k].status # "NONE" /\ action'[k].status = Resolution(order'[k].status, order'[k].accounted)
    BY <2>4 DEF Records, Becomes, OnlyAction, Recorded
  <2>5. ASSUME NEW s \in AllSyncers, NEW j \in Keys, SyncRecords(s, j)
        PROVE  \/ action'[k].status = action[k].status
               \/ order'[k].status # "NONE" /\ action'[k].status = Resolution(order'[k].status, order'[k].accounted)
    BY <2>5 DEF SyncRecords, Becomes, OnlyAction, Recorded
  <2>6. ASSUME NEW s \in AllSyncers, NEW j \in Keys, Recovers(s, j)
        PROVE  action'[k].status = action[k].status \/ action'[k].status # "CANCELLED"
    BY <2>6 DEF Recovers, Becomes, OnlyAction
  <2>7. ASSUME NEW j \in Keys, BacksOff(j)
        PROVE  action'[k].status = action[k].status \/ action'[k].status # "CANCELLED"
    BY <2>7 DEF BacksOff, Becomes, OnlyAction
  <2>8. ASSUME NEW u \in Users, NEW j \in Keys, OwnerWrites(u, j)
        PROVE  action'[k].status = action[k].status \/ action'[k].status # "CANCELLED"
    <3>1. ~UserAt(u, "cancelling")
      BY DEF LadderInv
    <3> QED BY <2>8, <3>1 DEF OwnerWrites, Becomes, OnlyAction
  <2>9. ASSUME NEW u \in Users, Stops(u) PROVE FALSE
    BY <2>9 DEF Stops, NoEmergencyStop, SettledInv
  <2>10. ASSUME \/ \E e \in Executors : Goes(e) \/ \E j \in Keys : Places(e, j) \/ Lists(e, j)
                \/ \E s \in AllSyncers : SyncGoes(s) \/ \E j \in Keys : SyncCancels(s, j)
                \/ Crashes \/ Nothing \/ (\E j \in Keys : Trades(j))
                \/ \E u \in Users, j \in Keys : OwnerReads(u, j)
         PROVE  UNCHANGED action
    BY <2>10 DEF Goes, Places, Lists, SyncGoes, SyncCancels, Crashes, Nothing, Trades, OwnerReads
  <2> QED BY <1>2, <2>1, <2>2, <2>3, <2>4, <2>5, <2>6, <2>7, <2>8, <2>9, <2>10 DEF Kinds
\* A new attempt comes after those that were cancelled.
<1>3. ASSUME NEW k \in EntryKeys, NEW j \in EntryKeys, SameEntry(k, j), j.attempt < k.attempt,
             Existing(k)' \/ \E e \in Runners : Aims(e, k)'
      PROVE  BoughtNothing(j)'
  <2>1. k \in Keys /\ j \in Keys
    BY EntryAttempts
  <2>2. CASE Existing(k) \/ \E e \in Runners : Aims(e, k)
    BY <1>0, <1>3, <2>1, <2>2 DEF LadderInv
  <2>3. CASE ~Existing(k) /\ Existing(k)'
    <3>1. PICK e \in Executors : Claims(e, k)
      BY <2>1, <2>3, NewActions
    <3>2. e \in Runners /\ Aims(e, k)
      BY <3>1 DEF Claims, At, Aims, AimedPcs
    <3> QED BY <2>2, <3>2
  <2>4. CASE NextAttempt(k)
    BY <1>0, <1>3, <2>1, <2>4, FirstAttemptsBoughtNothing
  <2> QED BY <1>3, <2>2, <2>3, <2>4, AimsMove
<1>4. ASSUME NEW u \in Users PROVE ~UserAt(u, "cancelling")'
  <2>1. ~UserAt(u, "cancelling")
    BY DEF LadderInv
  <2>2. ASSUME NEW v \in Users, NEW j \in Keys, OwnerReads(v, j) \/ OwnerWrites(v, j)
        PROVE  user'[u] = user[u] \/ user'[u].pc # "cancelling"
    BY <2>2, NoRequestRow DEF OwnerReads, OwnerWrites, OnlyUser, NoCancelledRetry
  <2>3. ASSUME NEW v \in Users, Stops(v) PROVE FALSE
    BY <2>3 DEF Stops, NoEmergencyStop, SettledInv
  <2>4. ASSUME NEW e \in Executors,
               \/ Goes(e)
               \/ \E j \in Keys : \/ Claims(e, j) \/ Places(e, j) \/ Records(e, j) \/ FailsInside(e, j)
                                  \/ FailsOutside(e, j) \/ Lists(e, j) \/ ClaimsRetry(e, j)
        PROVE  UNCHANGED user
    BY <2>4 DEF Goes, Claims, Places, Records, FailsInside, FailsOutside, Lists, ClaimsRetry
  <2>6. ASSUME NEW s \in AllSyncers,
               SyncGoes(s) \/ \E j \in Keys : SyncRecords(s, j) \/ SyncCancels(s, j) \/ Recovers(s, j)
        PROVE  UNCHANGED user
    BY <2>6 DEF SyncGoes, SyncRecords, SyncCancels, Recovers
  <2>7. ASSUME Nothing \/ \E j \in Keys : BacksOff(j) \/ Trades(j) PROVE UNCHANGED user
    BY <2>7 DEF Nothing, BacksOff, Trades
  <2>5. Crashes => user'[u] = user[u] \/ user'[u].pc # "cancelling"
    BY DEF Crashes
  <2> QED BY <2>1, <2>2, <2>3, <2>4, <2>5, <2>6, <2>7 DEF UserAt, Kinds
<1> QED BY <1>1, <1>2, <1>3, <1>4 DEF LadderInv

LEMMA LadderInvariant == CarefulRetries /\ NoEmergencyStop /\ NoCancelledRetry => (Spec => []LadderInv)
<1> SUFFICES ASSUME CarefulRetries, NoEmergencyStop, NoCancelledRetry PROVE Spec => []LadderInv
  OBVIOUS
<1>1. Init => LadderInv
  <2> SUFFICES ASSUME Init PROVE LadderInv
    OBVIOUS
  <2>1. /\ \A k \in Keys : action[k].status = "NONE" /\ exchange[k].executed = 0
        /\ \A e \in Executors : executor[e].pc = "idle"
        /\ \A u \in Users : user[u].pc = "idle"
    BY DEF Init, InitActions, NoAction, InitExchange, Absent, InitExecution, Resting, InitUsers, NoRequest
  <2> QED BY <2>1 DEF LadderInv, Keys, Existing, Executors, Aims, AimedPcs, UserAt
<1>2. BotTypes /\ BotTypes' /\ PlacedInv /\ SettledInv /\ SettledInv' /\ LadderInv /\ [Next]_vars => LadderInv'
  BY StepKinds, LadderInvNext DEF PlacedInv
<1>3. Spec => []PlacedInv
  BY PlacedInvariant
<1>4. Spec => []SettledInv
  BY SettledInvariant
<1> QED BY <1>1, <1>2, <1>3, <1>4, BotTyped, PTL DEF Spec

\* A level of the ladder is bought by one of its attempts only, whatever ticks outlive
\* their lock, syncs overlap and retries run: unless an emergency stop or the owner
\* gives up an action whose order was placed, which then counts as a cancelled one.
THEOREM LevelsBoughtOnce ==
    CarefulRetries /\ NoEmergencyStop /\ NoCancelledRetry => (Spec => []LevelBoughtOnce)
<1> SUFFICES ASSUME CarefulRetries, NoEmergencyStop, NoCancelledRetry PROVE Spec => []LevelBoughtOnce
  OBVIOUS
<1>1. PlacedInv /\ LadderInv => LevelBoughtOnce
  <2> SUFFICES ASSUME PlacedInv, LadderInv PROVE LevelBoughtOnce
    OBVIOUS
  <2>1. ASSUME NEW k \in EntryKeys, NEW j \in EntryKeys, SameEntry(k, j), j.attempt < k.attempt
        PROVE  exchange[k].executed = 0 \/ exchange[j].executed = 0
    <3> SUFFICES ASSUME exchange[k].executed # 0 PROVE exchange[j].executed = 0
      OBVIOUS
    <3>1. k \in Keys /\ j \in Keys
      BY EntryAttempts
    <3>2. Existing(k)
      BY <3>1 DEF LadderInv, PlacedInv, RowsExist
    <3> QED BY <2>1, <3>1, <3>2 DEF LadderInv, BoughtNothing
  <2> QED BY <2>1, EntryAttempts DEF LevelBoughtOnce, SameEntry
<1>2. Spec => []PlacedInv
  BY PlacedInvariant
<1>3. Spec => []LadderInv
  BY LadderInvariant
<1> QED BY <1>1, <1>2, <1>3, PTL

-----------------------------------------------------------------------------
(* One thing at a time.  While a tick holds its lock, from the moment it     *)
(* found nothing on its way until it creates its own action, no action of    *)
(* the bot moves.                                                            *)

LockOutlivesTicks == ~TickOutlivesLock

TicksInv ==
    /\ \A e \in Runners : executor[e].pc \notin {"idle", "loaded"} => tickLock = e
    /\ \A e \in Runners : executor[e].pc \in BeforePcs => \A k \in Keys : ~Active(k)
    /\ \A k, j \in Keys : Active(k) /\ Active(j) => k = j

\* The lock is taken and given back by ticks only, or it expires.
LEMMA LockMoves ==
    ASSUME [Next]_vars
    PROVE  tickLock' = tickLock \/ (\E e \in Runners : RunnerNext(e)) \/ ExpiryNext
BY DEF Next, vars, ExecutorNext, ListNext, SyncNext, PickNext, UserNext, Crash, BackoffNext, MarketNext, quiet

\* Only what is on its way moves on, or is created.
LEMMA StatusMoves ==
    ASSUME BotTypes, RowsExist, Kinds, [Lifecycle!Next]_<<Statuses, Tries>>, NEW k \in Keys,
           action'[k].status # action[k].status, ~Active(k)
    PROVE  ~Existing(k) /\ \E e \in Executors : Claims(e, k)
<1>1. Statuses[k] = action[k].status /\ Statuses'[k] = action'[k].status
  BY DEF Statuses
<1>2. PICK j \in Keys : \/ Lifecycle!Claim(j) \/ Lifecycle!Record(j) \/ Lifecycle!End(j) \/ Lifecycle!Fail(j)
                        \/ Lifecycle!FailForNow(j) \/ Lifecycle!Retry(j) \/ Lifecycle!FailAfterAll(j)
  BY <1>1 DEF Lifecycle!Next
<1>3. PICK t : /\ Statuses' = [Statuses EXCEPT ![j] = t] /\ Statuses[j] \in {"NONE", "PENDING", "SUBMITTED", "FAILED"}
               /\ Statuses[j] = "NONE" => t # "NONE"
  BY <1>2 DEF Lifecycle!Claim, Lifecycle!Record, Lifecycle!End, Lifecycle!Fail, Lifecycle!FailForNow,
     Lifecycle!Retry, Lifecycle!FailAfterAll, Lifecycle!Step, Statuses
<1>4. j = k /\ action[k].status = "NONE" /\ action'[k].status # "NONE"
  BY <1>1, <1>3 DEF Active, Statuses
<1> QED BY <1>4, NewActions DEF Existing

LEMMA ClaimsInOrder ==
    ASSUME TicksInv, NEW e \in Executors, NEW k \in Keys, Claims(e, k)
    PROVE  /\ e \in Runners /\ tickLock = e /\ executor[e].key = k /\ executor'[e].pc = "place"
           /\ \A j \in Keys : ~Active(j)
BY DEF Claims, Moves, At, TicksInv, BeforePcs

LEMMA TicksInvNext ==
    ASSUME LockOutlivesTicks, BotTypes, RowsExist, TicksInv, Kinds, [Lifecycle!Next]_<<Statuses, Tries>>, [Next]_vars
    PROVE  TicksInv'
<1>0. \A e \in Runners : e \in Executors /\ e # NoOwner
  BY TestnetBotAssumption DEF Executors
\* The lock.
<1>1. ASSUME NEW e \in Runners, executor'[e].pc \notin {"idle", "loaded"} PROVE tickLock' = e
  <2>1. CASE RunnerNext(e)
    BY <1>1, <2>1, TickAims DEF TicksInv
  <2>2. CASE ~RunnerNext(e)
    <3>1. executor[e].pc \notin {"idle", "loaded"}
      BY <1>1, <2>2, RunnersMove, CallMoves
    <3>2. tickLock = e
      BY <3>1 DEF TicksInv
    <3>3. ASSUME NEW d \in Runners, RunnerNext(d), tickLock' # tickLock PROVE FALSE
      <4>1. tickLock = NoOwner \/ tickLock = d
        BY <3>3, TickAims
      <4> QED BY <1>0, <2>2, <3>2, <3>3, <4>1
    <3>4. ~ExpiryNext
      BY <3>1, <3>2 DEF ExpiryNext, TickLockExpires, LockOutlivesTicks
    <3> QED BY <3>2, <3>3, <3>4, LockMoves
  <2> QED BY <2>1, <2>2
\* While a tick has nothing of its own, nothing moves.
<1>2. ASSUME NEW e \in Runners, executor[e].pc \in BeforePcs, executor'[e].pc \in BeforePcs, NEW k \in Keys
      PROVE  action'[k].status = action[k].status /\ ~Active(k)
  <2>1. ~Active(k) /\ tickLock = e
    BY <1>2 DEF TicksInv, BeforePcs
  <2>2. ~ \E d \in Executors : Claims(d, k)
    BY <1>2, <2>1, ClaimsInOrder DEF BeforePcs
  <2> QED BY <2>1, <2>2, StatusMoves
<1>3. ASSUME NEW e \in Runners, executor'[e].pc \in BeforePcs
      PROVE  \/ executor'[e].pc = "deciding" /\ UNCHANGED action /\ \A k \in Keys : ~Active(k)
             \/ executor[e].pc = "deciding" /\ UNCHANGED action /\ NextAttempt(executor'[e].key)
             \/ /\ executor[e].pc \in BeforePcs
                /\ executor'[e].pc \in AimedPcs => executor[e].pc \in AimedPcs /\ executor'[e].key = executor[e].key
  BY <1>3, RunnersMove, CallMoves, TickAims DEF BeforePcs, AimedPcs
<1>4. ASSUME NEW e \in Runners, executor'[e].pc \in BeforePcs PROVE \A k \in Keys : ~Active(k)'
  <2>1. CASE UNCHANGED action /\ \A k \in Keys : ~Active(k)
    BY <2>1 DEF Active
  <2>2. CASE executor[e].pc \in BeforePcs
    BY <1>2, <1>4, <2>2 DEF Active
  <2> QED BY <1>3, <1>4, <2>1, <2>2 DEF BeforePcs
<1>6. ASSUME NEW k \in Keys, NEW j \in Keys, Active(k)', Active(j)' PROVE k = j
  <2>1. \A i \in Keys : Active(i)' /\ ~Active(i) => \E e \in Executors : Claims(e, i)
    BY StatusMoves DEF Active
  <2>2. CASE Active(k) /\ Active(j)
    BY <2>2 DEF TicksInv
  <2>3. CASE ~Active(k) \/ ~Active(j)
    <3>1. PICK e \in Executors, i \in Keys : Claims(e, i)
      BY <1>6, <2>1, <2>3
    <3>2. \A h \in Keys : ~Active(h)
      BY <3>1, ClaimsInOrder
    <3>3. \A d \in Executors, h \in Keys : Claims(d, h) => d = e /\ h = i
      BY <3>1, ClaimsInOrder
    <3> QED BY <1>6, <2>1, <3>2, <3>3
  <2> QED BY <2>2, <2>3
<1> QED BY <1>1, <1>4, <1>6 DEF TicksInv

\* One bot that ticks inside its lock, with a quiet owner and one sync at a time.
OrderlyBot == QuietOwner /\ OneSync /\ LockOutlivesTicks

OrderlyInv == PlacedInv /\ SettledInv /\ LifecycleInv /\ TicksInv

LEMMA OrderlyInvariant == OrderlyBot => (Spec => [](BotTypes /\ OrderlyInv))
<1> SUFFICES ASSUME OrderlyBot PROVE Spec => [](BotTypes /\ OrderlyInv)
  OBVIOUS
<1>1. QuietOwner /\ OneSync /\ LockOutlivesTicks /\ CarefulRetries /\ NoEmergencyStop
  BY DEF OrderlyBot, QuietOwner, CarefulRetries, NoManualRetry, NoEmergencyStop
<1>2. Init => TicksInv
  <2> SUFFICES ASSUME Init PROVE TicksInv
    OBVIOUS
  <2>1. /\ \A k \in Keys : action[k].status = "NONE"
        /\ \A e \in Executors : executor[e].pc = "idle"
    BY DEF Init, InitActions, NoAction, InitExecution, Resting
  <2> QED BY <2>1 DEF TicksInv, Executors, BeforePcs, Active
<1>3. BotTypes /\ PlacedInv /\ SettledInv /\ LifecycleInv /\ TicksInv /\ [Next]_vars => TicksInv'
  <2> SUFFICES ASSUME BotTypes, PlacedInv, SettledInv, LifecycleInv, TicksInv, [Next]_vars
               PROVE  TicksInv'
    OBVIOUS
  <2>1. Kinds /\ [Lifecycle!Next]_<<Statuses, Tries>>
    BY <1>1, StepKinds, LifecycleStep DEF PlacedInv
  <2> QED BY <1>1, <2>1, TicksInvNext DEF PlacedInv
<1>4. Spec => []PlacedInv
  BY <1>1, PlacedInvariant
<1>5. Spec => []SettledInv
  BY <1>1, SettledInvariant
<1>6. Spec => []LifecycleInv
  BY <1>1, LifecycleInvariant
<1>7. PlacedInv /\ SettledInv /\ LifecycleInv /\ TicksInv => OrderlyInv
  BY DEF OrderlyInv
<1> QED BY <1>2, <1>3, <1>4, <1>5, <1>6, <1>7, BotTyped, PTL DEF Spec

\* However many instances tick and retry and crash, one action of a bot is on its
\* way at any time: a tick that found none creates at most one, and no other tick
\* gets to look before its lock is given back.
THEOREM OneActionAtATime == OrderlyBot => (Spec => []OneUnresolvedAction)
<1> SUFFICES ASSUME OrderlyBot PROVE Spec => []OneUnresolvedAction
  OBVIOUS
<1>1. OrderlyInv => OneUnresolvedAction
  BY DEF OrderlyInv, TicksInv, Active, OneUnresolvedAction, UnresolvedStatuses
<1>2. Spec => [](BotTypes /\ OrderlyInv)
  BY OrderlyInvariant
<1> QED BY <1>1, <1>2, PTL
=============================================================================
