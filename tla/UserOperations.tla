--------------------------- MODULE UserOperations ---------------------------
(***************************************************************************)
(* What the owner of a bot may do to it through the API while the            *)
(* schedulers work: set its status, retry or cancel a failed action          *)
(* (TestnetStrategyActionService) and the emergency stop                     *)
(* (TestnetEmergencyStopService).  Each read and each write is a step.       *)
(***************************************************************************)
EXTENDS OrderSync

CONSTANTS
    Users,          \* concurrent API requests of the owner
    Operations,     \* the operations the owner uses
    MaxOperations   \* bound: operations one behaviour may start

OperationNames == {"pause", "resume", "stop", "retry", "cancelRetry", "emergencyStop"}

ASSUME UserOperationsAssumption == /\ Operations \subseteq OperationNames
                                   /\ MaxOperations \in Nat

VARIABLES
    user,       \* user[u]: the operation a request is in the middle of
    started     \* operations started so far

NoRequest == [pc |-> "idle", key |-> NoKey, cancel |-> {}, mark |-> {}]

InitUsers == /\ user = [u \in Users |-> NoRequest]
             /\ started = 0

UserAt(u, pc) == user[u].pc = pc
UserRest(u) == user' = [user EXCEPT ![u] = NoRequest]

Starts(u, operation) ==
    /\ operation \in Operations
    /\ UserAt(u, "idle")
    /\ started < MaxOperations
    /\ started' = started + 1

botState == <<action, exchange, books, executor, syncer>>

\* setStatus of StrategyService: an update, whatever the status was.
SetStatus(u) ==
    /\ \E s \in {<<"pause", "PAUSED">>, <<"resume", "RUNNING">>, <<"stop", "STOPPED">>} :
          Starts(u, s[1]) /\ strategy' = s[2]
    /\ UNCHANGED <<user, botState>>

\* manualRetry: the status and the linked order are read ...
ManualRetryRead(u, k) ==
    /\ Starts(u, "retry")
    /\ MayRetryManually(k)
    /\ order[k].status \notin OpenStatuses
    /\ user' = [user EXCEPT ![u] = [NoRequest EXCEPT !.pc = "retrying", !.key = k]]
    /\ UNCHANGED <<strategy, botState>>

\* ... and the row is written later, unconditionally.
ManualRetryWrite(u) ==
    /\ UserAt(u, "retrying")
    /\ RetryManually(user[u].key)
    /\ UserRest(u)
    /\ UNCHANGED <<strategy, started, exchange, books, executor, syncer>>

\* cancelRetry: the same shape.
CancelRetryRead(u, k) ==
    /\ Starts(u, "cancelRetry")
    /\ MayCancelRetry(k)
    /\ user' = [user EXCEPT ![u] = [NoRequest EXCEPT !.pc = "cancelling", !.key = k]]
    /\ UNCHANGED <<strategy, botState>>

CancelRetryWrite(u) ==
    /\ UserAt(u, "cancelling")
    /\ CancelRetry(user[u].key)
    /\ UserRest(u)
    /\ UNCHANGED <<strategy, started, exchange, books, executor, syncer>>

----------------------------------------------------------------------------
\* stopUserStrategies, the transaction; a strategy that is stopped stays so.
StopStrategies(u) ==
    /\ Starts(u, "emergencyStop")
    /\ strategy' = "STOPPED"
    /\ CancelPendingActions
    /\ user' = [user EXCEPT ![u].pc = "stopping"]
    /\ UNCHANGED <<exchange, books, executor, syncer>>

\* The open order rows are listed.
ListOpenOrders(u) ==
    /\ UserAt(u, "stopping")
    /\ LET open == {k \in Keys : order[k].status \in OpenStatuses}
       IN IF open = {} THEN UserRest(u)
          ELSE user' = [user EXCEPT ![u].pc = "cancelOrders", ![u].cancel = open]
    /\ UNCHANGED <<strategy, started, botState>>

\* One order is cancelled: an order that has ended answers with an error and
\* its row is left to the next sync; so is one whose cancellation fails.
EmergencyCancel(u, k) ==
    /\ UserAt(u, "cancelOrders")
    /\ k \in user[u].cancel
    /\ CancelOnExchange(k)
    /\ user' = [user EXCEPT ![u].cancel = @ \ {k},
                            ![u].mark = IF Live(k) THEN @ \cup {k} ELSE @]
    /\ UNCHANGED <<strategy, started, action, books, executor, syncer>>

EmergencyCancelFails(u, k) ==
    /\ UserAt(u, "cancelOrders")
    /\ k \in user[u].cancel
    /\ user' = [user EXCEPT ![u].cancel = @ \ {k}]
    /\ UNCHANGED <<strategy, started, botState>>

\* The row gets the status CANCELLED and nothing else.
EmergencyMark(u, k) ==
    /\ UserAt(u, "cancelOrders")
    /\ k \in user[u].mark
    /\ order' = [order EXCEPT ![k].status = "CANCELLED"]
    /\ user' = [user EXCEPT ![u].mark = @ \ {k}]
    /\ UNCHANGED <<strategy, started, action, exchange, position, leg, executor, syncer>>

EmergencyDone(u) ==
    /\ UserAt(u, "cancelOrders")
    /\ user[u].cancel = {} /\ user[u].mark = {}
    /\ UserRest(u)
    /\ UNCHANGED <<strategy, started, botState>>

UserStep(u) == \/ SetStatus(u)
               \/ \E k \in Keys : ManualRetryRead(u, k) \/ CancelRetryRead(u, k)
               \/ ManualRetryWrite(u) \/ CancelRetryWrite(u)
               \/ StopStrategies(u) \/ ListOpenOrders(u)
               \/ \E k \in user[u].cancel : EmergencyCancel(u, k) \/ EmergencyCancelFails(u, k)
               \/ \E k \in user[u].mark : EmergencyMark(u, k)
               \/ EmergencyDone(u)
=============================================================================
