-------------------------- MODULE ActionLifecycle --------------------------
(***************************************************************************)
(* What the idempotency record of one order promises, whoever works on it:   *)
(* an action is on its way, with the exchange, to be tried again, given up,  *)
(* or ended; what has ended never comes back, an order that is with the      *)
(* exchange is never tried again, and no action is tried more than           *)
(* MaxAttempts times again.                                                  *)
(***************************************************************************)
EXTENDS Naturals

CONSTANTS
    ActionKeys,
    MaxAttempts

VARIABLES
    status,     \* status[k] of the action with key k
    attempts    \* retries that were started

Init == /\ status = [k \in ActionKeys |-> "NONE"]
        /\ attempts = [k \in ActionKeys |-> 0]

Step(k, from, to) == /\ status[k] \in from
                     /\ \E s \in to : status' = [status EXCEPT ![k] = s]

Claim(k) == Step(k, {"NONE"}, {"PENDING"}) /\ UNCHANGED attempts

\* The order is recorded: it rests, is filled, or ended without a fill.
Record(k) == Step(k, {"PENDING"}, {"SUBMITTED", "COMPLETED", "CANCELLED"}) /\ UNCHANGED attempts

\* The recorded order ends.
End(k) == Step(k, {"SUBMITTED"}, {"COMPLETED", "CANCELLED"}) /\ UNCHANGED attempts

Fail(k) == Step(k, {"PENDING"}, {"PERMANENTLY_FAILED"}) /\ UNCHANGED attempts

FailForNow(k) == /\ Step(k, {"PENDING"}, {"FAILED"})
                 /\ attempts[k] < MaxAttempts
                 /\ UNCHANGED attempts

Retry(k) == /\ Step(k, {"FAILED"}, {"PENDING"})
            /\ attempts' = [attempts EXCEPT ![k] = @ + 1]

\* A failure that is reported a second time may be found permanent.
FailAfterAll(k) == Step(k, {"FAILED"}, {"PERMANENTLY_FAILED"}) /\ UNCHANGED attempts

Next == \E k \in ActionKeys : \/ Claim(k) \/ Record(k) \/ End(k) \/ Fail(k)
                              \/ FailForNow(k) \/ Retry(k) \/ FailAfterAll(k)

Spec == Init /\ [][Next]_<<status, attempts>>
=============================================================================
