------------------------ MODULE NotificationDelivery ------------------------
(***************************************************************************)
(* NotificationsService: what becomes of a published notification.  The     *)
(* history row, the channels of the user and the operations webhook are     *)
(* promises nobody awaits; the counters of the webhook live in memory, are  *)
(* saved after each outcome and restored when the process starts.           *)
(***************************************************************************)
EXTENDS Naturals, Sequences, SequencesExt, FiniteSets

CONSTANTS
    Notes,          \* notifications of one behaviour
    MaxRecent,      \* maxRecent, 500 in the code
    MaxHookTries,   \* webhookMaxAttempts
    MaxRestarts     \* bound: restarts of the process

ASSUME DeliveryAssumption ==
    /\ MaxRecent \in Nat /\ MaxHookTries \in 1..5 /\ MaxRestarts \in Nat
    /\ IsFiniteSet(Notes)

VARIABLES
    recent,     \* the newest notifications, in memory
    history,    \* per notification, its row in OperationalNotification
    hook,       \* per notification, its delivery to the webhook
    metrics,    \* webhookMetrics, in memory
    saving,     \* snapshots of the metrics on their way to the database
    snapshots,  \* NotificationWebhookMetricsSnapshot, newest last
    restarts

deliveryVars == <<recent, history, hook, metrics, saving, snapshots, restarts>>

NoMetrics == [attempted |-> 0, delivered |-> 0, failed |-> 0, retried |-> 0]
NoHook == [state |-> "none", attempt |-> 0]
InFlight == {n \in Notes : hook[n].state \in {"call", "delay"}}

-----------------------------------------------------------------------------
\* publish: only the memory is certain; the row belongs to a user, the webhook
\* to a severity.
Publish(n, ofUser, severe) ==
    /\ history[n] = "none" /\ hook[n] = NoHook /\ ~Contains(recent, n)
    /\ recent' = SubSeq(<<n>> \o recent, 1, IF Len(recent) < MaxRecent THEN Len(recent) + 1 ELSE MaxRecent)
    /\ history' = [history EXCEPT ![n] = IF ofUser THEN "pending" ELSE "gone"]
    /\ hook' = [hook EXCEPT ![n].state = IF severe THEN "delay" ELSE "skipped"]
    /\ UNCHANGED <<metrics, saving, snapshots, restarts>>

\* persist: an error is logged and the row is missing.
Persist(n) ==
    /\ history[n] = "pending"
    /\ \E result \in {"stored", "gone"} : history' = [history EXCEPT ![n] = result]
    /\ UNCHANGED <<recent, hook, metrics, saving, snapshots, restarts>>

\* cleanupExpired, under the lock of the retention scheduler.
CleanupExpired ==
    /\ \E n \in Notes : history[n] = "stored"
    /\ \E old \in SUBSET {n \in Notes : history[n] = "stored"} \ {{}} :
           history' = [n \in Notes |-> IF n \in old THEN "gone" ELSE history[n]]
    /\ UNCHANGED <<recent, hook, metrics, saving, snapshots, restarts>>

CleanupSnapshots ==
    /\ \E kept \in 0..(Len(snapshots) - 1) :
           snapshots' = SubSeq(snapshots, Len(snapshots) - kept + 1, Len(snapshots))
    /\ UNCHANGED <<recent, history, hook, metrics, saving, restarts>>

-----------------------------------------------------------------------------
(* deliverWebhook *)

\* A mutant: the first retry is not counted.
LateRetry(n) == hook[n].attempt > 1
IsRetry(n) == hook[n].attempt > 0

\* One round of the loop begins: after publish at once, then after each delay.
AttemptHook(n) ==
    /\ hook[n].state = "delay"
    /\ hook' = [hook EXCEPT ![n] = [state |-> "call", attempt |-> @.attempt + 1]]
    /\ metrics' = [metrics EXCEPT !.attempted = @ + 1,
                                  !.retried = IF IsRetry(n) THEN @ + 1 ELSE @]
    /\ UNCHANGED <<recent, history, saving, snapshots, restarts>>

EndHook(n, counter) ==
    LET counted == IF counter = "delivered" THEN [metrics EXCEPT !.delivered = @ + 1]
                                            ELSE [metrics EXCEPT !.failed = @ + 1]
    IN /\ hook' = [hook EXCEPT ![n].state = counter]
       /\ metrics' = counted
       /\ saving' = saving \cup {counted}

\* A mutant: the number of the attempt is compared one too late.
TriesOnceMore(n) == hook[n].attempt <= MaxHookTries
MayTryAgain(n) == hook[n].attempt < MaxHookTries

\* The answer: a success, a refusal, or something worth another attempt.
AnswerHook(n) ==
    /\ hook[n].state = "call"
    /\ \/ EndHook(n, "delivered")
       \/ \E retryable \in BOOLEAN :
              IF retryable /\ MayTryAgain(n)
              THEN /\ hook' = [hook EXCEPT ![n].state = "delay"]
                   /\ UNCHANGED <<metrics, saving>>
              ELSE EndHook(n, "failed")
    /\ UNCHANGED <<recent, history, snapshots, restarts>>

\* persistWebhookMetricsSnapshot: nobody waits for it, and it may fail.
SaveSnapshot(s) ==
    /\ s \in saving
    /\ saving' = saving \ {s}
    /\ \/ snapshots' = Append(snapshots, s)
       \/ UNCHANGED snapshots
    /\ UNCHANGED <<recent, history, hook, metrics, restarts>>

\* The process ends with its promises; the next one starts from the newest
\* snapshot, or from nothing when that cannot be read.
Restart ==
    /\ restarts < MaxRestarts
    /\ restarts' = restarts + 1
    /\ recent' = <<>> /\ saving' = {}
    /\ history' = [n \in Notes |-> IF history[n] = "pending" THEN "gone" ELSE history[n]]
    /\ hook' = [n \in Notes |-> IF n \in InFlight THEN [hook[n] EXCEPT !.state = "lost"] ELSE hook[n]]
    /\ metrics' \in {NoMetrics} \cup (IF snapshots = <<>> THEN {} ELSE {Last(snapshots)})
    /\ UNCHANGED snapshots

-----------------------------------------------------------------------------
DeliveryInit ==
    /\ recent = <<>> /\ saving = {} /\ snapshots = <<>>
    /\ history = [n \in Notes |-> "none"]
    /\ hook = [n \in Notes |-> NoHook]
    /\ metrics = NoMetrics /\ restarts = 0

DeliveryNext ==
    \/ \E n \in Notes : \/ \E ofUser, severe \in BOOLEAN : Publish(n, ofUser, severe)
                        \/ Persist(n) \/ AttemptHook(n) \/ AnswerHook(n)
    \/ CleanupExpired \/ CleanupSnapshots
    \/ \E s \in saving : SaveSnapshot(s)
    \/ Restart

DeliverySpec == DeliveryInit /\ [][DeliveryNext]_deliveryVars

-----------------------------------------------------------------------------
\* The counters an administrator reads add up, through overlapping deliveries,
\* snapshots saved out of order and restarts: first attempts are the outcomes,
\* the deliveries under way and those a restart cut off; none is counted twice.
WebhookCountsAddUp ==
    LET begun == {n \in InFlight : hook[n].attempt > 0}
        open(m) == m.attempted - m.retried
    IN /\ open(metrics) >= metrics.delivered + metrics.failed + Cardinality(begun)
       /\ restarts = 0 => open(metrics) = metrics.delivered + metrics.failed + Cardinality(begun)
       /\ \A i \in DOMAIN snapshots : open(snapshots[i]) >= snapshots[i].delivered + snapshots[i].failed
       /\ metrics.attempted <= MaxHookTries * Cardinality(Notes)
-----------------------------------------------------------------------------
(* Types *)

HookRow == [state : {"none", "skipped", "delay", "call", "delivered", "failed", "lost"},
            attempt : 0..MaxHookTries]
Counters == [attempted : Nat, delivered : Nat, failed : Nat, retried : Nat]

DeliveryTypeOK ==
    /\ hook \in [Notes -> HookRow]
    /\ metrics \in Counters /\ saving \subseteq Counters
    /\ snapshots \in Seq(Counters)
    /\ restarts \in Nat
=============================================================================
