---------------------------- MODULE RunLifecycle ----------------------------
(***************************************************************************)
(* What a backtest run promises: it is created, started once, and ends once, *)
(* with a result or without; what has ended stays as it is until the run is  *)
(* deleted with its strategy.                                                *)
(***************************************************************************)
CONSTANTS
    RunIds,
    Results,    \* what a simulation may come to
    NoResult

VARIABLES
    state,      \* state[r]: absent, pending, running, completed, failed or deleted
    outcome     \* outcome[r]: the result r was completed with

Init == /\ state = [r \in RunIds |-> "absent"]
        /\ outcome = [r \in RunIds |-> NoResult]

Moves(r, from, to) == /\ state[r] = from
                      /\ state' = [state EXCEPT ![r] = to]

Create(r) == Moves(r, "absent", "pending") /\ UNCHANGED outcome
Start(r) == Moves(r, "pending", "running") /\ UNCHANGED outcome
Complete(r) == /\ Moves(r, "running", "completed")
               /\ \E x \in Results : outcome' = [outcome EXCEPT ![r] = x]

\* Several runs may be given up together.
GiveUp == /\ \E S \in SUBSET {r \in RunIds : state[r] = "running"} :
                state' = [r \in RunIds |-> IF r \in S THEN "failed" ELSE state[r]]
          /\ UNCHANGED outcome

Delete(r) == /\ state[r] # "absent"
             /\ state' = [state EXCEPT ![r] = "deleted"]
             /\ outcome' = [outcome EXCEPT ![r] = NoResult]

Next == GiveUp \/ \E r \in RunIds : Create(r) \/ Start(r) \/ Complete(r) \/ Delete(r)

Spec == Init /\ [][Next]_<<state, outcome>>
=============================================================================
