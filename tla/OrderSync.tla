------------------------------ MODULE OrderSync ------------------------------
(***************************************************************************)
(* syncOrder and cancelStaleEntryOrder of TestnetStrategyExecutionService,   *)
(* and the recover pass of TestnetOrderSyncSchedulerService.  A sync reads   *)
(* the order row with its position, leg and action, asks the exchange, and   *)
(* writes in one transaction totals computed from what it read.              *)
(***************************************************************************)
EXTENDS OrderExecution

CONSTANTS
    Syncers,    \* order-sync scheduler passes
    Requests    \* API requests POST .../orders/:id/sync, answered concurrently

ASSUME OrderSyncAssumption == Syncers \cap Requests = {}

VARIABLE syncer     \* syncer[s]: where s is, and what it has read

AllSyncers == Syncers \cup Requests

Waiting == [pc |-> "idle", key |-> NoKey, row |-> NoOrder, view |-> NoPosition,
            leg |-> NoLeg, answer |-> NoReport]

SyncerPcs == {"idle", "fetch", "commit", "aging", "reread", "recover"}

InitSync == syncer = [s \in AllSyncers |-> Waiting]

SyncAt(s, pc) == syncer[s].pc = pc
SyncGo(s, pc) == syncer' = [syncer EXCEPT ![s].pc = pc]
SyncRest(s) == syncer' = [syncer EXCEPT ![s] = Waiting]

\* The row with the position, and the leg it is linked to.
ReadRow(s, k) ==
    LET row == order[k]
    IN syncer' = [syncer EXCEPT ![s] =
                     [pc |-> "fetch", key |-> k, row |-> row, view |-> position[row.position],
                      leg |-> IF row.leg THEN leg[row.position][k.level] ELSE NoLeg,
                      answer |-> NoReport]]

\* The scheduler lists open rows; a request names any row of the user.
SyncRead(s, k) ==
    /\ SyncAt(s, "idle")
    /\ order[k].status # "NONE"
    /\ s \in Syncers => order[k].status \in OpenStatuses
    /\ ReadRow(s, k)
    /\ UNCHANGED <<strategy, action, exchange, books, executor>>

\* GET /order, and GET /myTrades when there are new fills.
SyncFetch(s) ==
    /\ SyncAt(s, "fetch")
    /\ syncer' = [syncer EXCEPT ![s].pc = "commit", ![s].answer = Report(syncer[s].key)]
    /\ UNCHANGED <<strategy, action, exchange, books, executor>>

SyncFetchFails(s) ==
    /\ SyncAt(s, "fetch")
    /\ SyncRest(s)
    /\ UNCHANGED <<strategy, action, exchange, books, executor>>

----------------------------------------------------------------------------
\* Mutants: all that was executed is taken for new, or a fill only counts when
\* the order is filled.
DeltaOfExecuted(s) == syncer[s].answer.executed
DeltaWhenFilled(s) == IF syncer[s].answer.status = "FILLED"
                      THEN Less(syncer[s].answer.executed, syncer[s].row.accounted) ELSE 0

\* Executed since the row was last accounted, as the row was read.
Delta(s) == IF syncer[s].answer.executed > syncer[s].row.filled
            THEN Less(syncer[s].answer.executed, syncer[s].row.accounted)
            ELSE 0

\* The leg after the transaction, from the leg t in the database.
SyncedLeg(s, t) ==
    LET k == syncer[s].key
        base == IF syncer[s].row.leg THEN syncer[s].leg ELSE t
        full == syncer[s].answer.status = "FILLED"
    IN CASE IndependentEntry(k) /\ Delta(s) > 0 -> LegBought(base, Delta(s))
         [] IndependentExit(k) /\ Delta(s) > 0 -> LegSold(base, Delta(s), full)
         [] OTHER -> t

\* Mutant: the initial entry counts too.
DcaStepAlways(s) == IF syncer[s].row.accounted = 0 THEN 1 ELSE 0

\* A parent entry counts as a DCA with its first fill, unless it is the initial one.
DcaStep(s) ==
    LET first == syncer[s].row.accounted = 0
        initial == InitialEntry(syncer[s].key) \/ (first /\ syncer[s].view.quantity = 0)
    IN IF first /\ ~initial THEN 1 ELSE 0

\* The position after the transaction, from the position p in the database.
SyncedPosition(s, p) ==
    LET k == syncer[s].key
        c == syncer[s].row.position
        v == syncer[s].view
        full == syncer[s].answer.status = "FILLED"
        first == syncer[s].row.accounted = 0
        unfilled == syncer[s].row.accounted + Delta(s) = 0
        ended == IsTerminal(MapOrderStatus(syncer[s].answer.status))
    IN CASE IndependentEntry(k) /\ Delta(s) > 0 ->
              IF first /\ k.level = v.dcaCount + 2 THEN LadderMoved(p, v) ELSE p
         [] IndependentExit(k) /\ Delta(s) > 0 ->
              LastLegSold(p, v, SyncedLeg(s, leg[c][k.level]), OpenLegs(c) \ {k.level} # {})
         [] k.side = "BUY" /\ ~IndependentEntry(k) /\ Delta(s) > 0 ->
              ParentBought(p, v, Delta(s), v.dcaCount + DcaStep(s))
         [] ParentExit(k) /\ Delta(s) > 0 ->
              ParentSold(p, v, Delta(s), full, OpenLegs(c) # {})
         [] k.side = "BUY" /\ unfilled /\ ended ->
              ClosedIfEmpty(p, OpenLegs(c) # {}, OpenOrders(c) \ {k} # {})
         [] OTHER -> p

\* Mutant: an increment of the row in the database.
AccountedByIncrement(s) == order[syncer[s].key].accounted + Delta(s)

Accounted(s) == syncer[s].row.accounted + Delta(s)

\* One transaction: leg, position, order row and action.
SyncCommit(s) ==
    LET k == syncer[s].key
        r == syncer[s].answer
        c == syncer[s].row.position
        status == MapOrderStatus(r.status)
    IN /\ SyncAt(s, "commit")
       /\ position' = [position EXCEPT ![c] = SyncedPosition(s, @)]
       /\ leg' = IF k.level \in IndependentLevels
                 THEN [leg EXCEPT ![c][k.level] = SyncedLeg(s, @)] ELSE leg
       /\ order' = [order EXCEPT ![k] =
                      [status |-> status, filled |-> r.executed, accounted |-> Accounted(s),
                       position |-> c,
                       leg |-> syncer[s].row.leg \/ (IndependentEntry(k) /\ Delta(s) > 0)]]
       /\ Resolve(k, c, status, Accounted(s))
       /\ IF s \in Syncers /\ k.side = "BUY" /\ status \in OpenStatuses
          THEN syncer' = [syncer EXCEPT ![s] = [Waiting EXCEPT !.pc = "aging", !.key = k]]
          ELSE SyncRest(s)
       /\ UNCHANGED <<strategy, exchange, executor>>

----------------------------------------------------------------------------
\* The entry is older than entryOrderTimeoutMs and its row is still open: it
\* is cancelled (or had ended already) and synced again.
CancelStale(s) ==
    LET k == syncer[s].key
    IN /\ SyncAt(s, "aging")
       /\ order[k].status \in OpenStatuses
       /\ CancelOnExchange(k)
       /\ SyncGo(s, "reread")
       /\ UNCHANGED <<strategy, action, books, executor>>

\* The entry is young, ended meanwhile, or the cancellation fails.
LeaveResting(s) ==
    /\ SyncAt(s, "aging")
    /\ SyncRest(s)
    /\ UNCHANGED <<strategy, action, exchange, books, executor>>

SyncAgain(s) ==
    /\ SyncAt(s, "reread")
    /\ ReadRow(s, syncer[s].key)
    /\ UNCHANGED <<strategy, action, exchange, books, executor>>

----------------------------------------------------------------------------
\* listRecoverable with the order of the action; one without a row is skipped.
RecoverRead(s, k) ==
    /\ s \in Syncers
    /\ SyncAt(s, "idle")
    /\ Recoverable(k)
    /\ order[k].status \in {"FILLED", "FAILED"} \cup TerminalStatuses
    /\ syncer' = [syncer EXCEPT ![s] = [Waiting EXCEPT !.pc = "recover", !.key = k,
                                                       !.row = order[k]]]
    /\ UNCHANGED <<strategy, action, exchange, books, executor>>

RecoverWrite(s) ==
    LET k == syncer[s].key
    IN /\ SyncAt(s, "recover")
       /\ IF syncer[s].row.status = "FILLED" THEN MarkCompleted(k) ELSE MarkFailed(k, FALSE)
       /\ SyncRest(s)
       /\ UNCHANGED <<strategy, exchange, books, executor>>

SyncStep(s) == \/ SyncFetch(s) \/ SyncFetchFails(s) \/ SyncCommit(s)
               \/ CancelStale(s) \/ LeaveResting(s) \/ SyncAgain(s)
               \/ RecoverWrite(s)
=============================================================================
