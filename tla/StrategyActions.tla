--------------------------- MODULE StrategyActions ---------------------------
(***************************************************************************)
(* TestnetStrategyActionService (trading/testnet-strategy-action.service.ts) *)
(* and the StrategyAction rows it keeps: one row for each action key, the    *)
(* idempotency record of an order the bot wants placed.                      *)
(*                                                                          *)
(* retryable is TRUE exactly for the status FAILED, so it is not kept apart. *)
(* nextRetryAt is the flag `due`: whether the backoff of a FAILED action has *)
(* passed.  The category of a failure is abstracted to what markFailed looks *)
(* at: whether it is retryable.                                              *)
(***************************************************************************)
EXTENDS TradingKeys

CONSTANT MaxAttempts    \* maxAttempts of every action (4 in the code)

ASSUME StrategyActionsAssumption == MaxAttempts \in Nat

VARIABLE action     \* action[k]: the row with action key k

NoAction == [status |-> "NONE", attempts |-> 0, due |-> FALSE, position |-> 0, quantity |-> 0]

ActionStatuses == {"NONE", "PENDING", "SUBMITTED", "COMPLETED", "FAILED",
                   "PERMANENTLY_FAILED", "CANCELLED"}

UnresolvedStatuses == {"PENDING", "SUBMITTED"}

InitActions == action = [k \in Keys |-> NoAction]

Existing(k) == action[k].status # "NONE"

----------------------------------------------------------------------------
\* claim: another action of the position, or an entry of no position yet, is
\* still on its way.
BlockingAction(k, c) ==
    \E j \in Keys \ {k} :
        /\ action[j].status \in UnresolvedStatuses
        /\ IF c # 0
           THEN action[j].position = c \/ (action[j].position = 0 /\ InitialEntry(j))
           ELSE action[j].position = 0 \/ InitialEntry(j)

\* claim: the row is created PENDING; the unique action key admits one creator.
Create(k, c, q) ==
    action' = [action EXCEPT ![k] = [status |-> "PENDING", attempts |-> 0, due |-> FALSE,
                                     position |-> c, quantity |-> q]]

\* markFailed: an update by id, whatever the status has become meanwhile.
Failed(a, retryable) ==
    IF retryable /\ a.attempts < MaxAttempts
    THEN [a EXCEPT !.status = "FAILED", !.due = FALSE]
    ELSE [a EXCEPT !.status = "PERMANENTLY_FAILED", !.due = FALSE]

MarkFailed(k, retryable) == action' = [action EXCEPT ![k] = Failed(@, retryable)]

MarkCompleted(k) == action' = [action EXCEPT ![k].status = "COMPLETED", ![k].due = FALSE]

\* actionResolution, written in the transaction that records the order.
Resolution(status, filled) ==
    CASE status = "FILLED" \/ (status \in TerminalStatuses /\ filled > 0) -> "COMPLETED"
      [] status \in TerminalStatuses /\ filled = 0 -> "CANCELLED"
      [] OTHER -> "SUBMITTED"

Resolve(k, c, status, filled) ==
    action' = [action EXCEPT ![k].status = Resolution(status, filled), ![k].position = c]

\* Actions the retry scheduler and the recover pass of the sync scheduler list.
DueForRetry(k) == action[k].status = "FAILED" /\ action[k].due
Recoverable(k) == action[k].status \in UnresolvedStatuses \/ DueForRetry(k)

\* Mutant: an update by id, without a condition.
ClaimableAnyway(k) == TRUE

\* claimRetry: the condition of its update, so at most one caller wins.
Claimable(k) == DueForRetry(k)

\* Mutant: the retry is not counted.
ClaimRetryUncounted(k) ==
    action' = [action EXCEPT ![k].status = "PENDING", ![k].due = FALSE]

ClaimRetry(k) ==
    action' = [action EXCEPT ![k].status = "PENDING", ![k].due = FALSE, ![k].attempts = @ + 1]

\* nextRetryAt passes.
BackoffElapses(k) ==
    /\ action[k].status = "FAILED" /\ ~action[k].due
    /\ action' = [action EXCEPT ![k].due = TRUE]

\* Mutant: an action that is on its way may be retried too.
MayRetryAnything(k) == action[k].status \in {"PENDING", "FAILED", "PERMANENTLY_FAILED"}

\* manualRetry and cancelRetry: the status is read first, the row written later.
MayRetryManually(k) == action[k].status \in {"FAILED", "PERMANENTLY_FAILED"}
RetryManually(k) == action' = [action EXCEPT ![k].status = "FAILED", ![k].due = TRUE]

MayCancelRetry(k) == action[k].status \in {"FAILED", "PENDING"}
CancelRetry(k) == action' = [action EXCEPT ![k].status = "CANCELLED", ![k].due = FALSE]

\* stopUserStrategies: every action that is not with the exchange is cancelled.
CancelPendingActions ==
    action' = [k \in Keys |-> IF action[k].status \in {"PENDING", "FAILED"}
                              THEN [action[k] EXCEPT !.status = "CANCELLED", !.due = FALSE]
                              ELSE action[k]]

\* Mutant: every finished attempt counts.
FinishedAttempts(k) ==
    Cardinality({j \in Keys : SameEntry(k, j) /\ action[j].status \in {"CANCELLED", "COMPLETED"}})

\* entryActionKey: one fresh key for each cancelled attempt of the entry.
CancelledAttempts(k) == Cardinality({j \in Keys : SameEntry(k, j) /\ action[j].status = "CANCELLED"})
=============================================================================
