---------------------------- MODULE BacktestRuns ----------------------------
(***************************************************************************)
(* The life of a backtest run: created by the user, run by the API request   *)
(* of BacktestCandleRunnerService through BacktestExecutionService, and given *)
(* up by BacktestRunRecoveryScheduler when it takes too long, while the      *)
(* request may still be at work.  Each call to the database is a step.       *)
(*                                                                          *)
(* What the simulator computes is a member of Results: another one for each  *)
(* state of the candle store it may have found.                              *)
(***************************************************************************)
EXTENDS Naturals

CONSTANTS
    RunIds,     \* bound: backtest runs
    Workers,    \* concurrent API requests that execute a run
    Results,    \* what a simulation may come to
    NoResult,
    NoRun,
    StaleAfter  \* minutes a run may take

ASSUME BacktestRunsAssumption == /\ NoResult \notin Results
                                 /\ NoRun \notin RunIds
                                 /\ StaleAfter \in Nat

VARIABLES
    run,        \* run[r]: the BacktestRun row
    events,     \* events[r]: the result whose trades and equity points are stored
    worker,     \* worker[w]: where the request is, its run, its result
    runAge      \* runAge[r]: minutes since startedAt, up to StaleAfter + 1

runsVars == <<run, events, worker, runAge>>

Absent == [status |-> "absent", result |-> NoResult]
Free == [pc |-> "idle", run |-> NoRun, result |-> NoResult]

RunsInit == /\ run = [r \in RunIds |-> Absent]
            /\ events = [r \in RunIds |-> NoResult]
            /\ worker = [w \in Workers |-> Free]
            /\ runAge = [r \in RunIds |-> 0]

WorkerAt(w, pc) == worker[w].pc = pc
WorkerGoes(w, pc) == worker' = [worker EXCEPT ![w].pc = pc]
WorkerEnds(w) == worker' = [worker EXCEPT ![w] = Free]

InStatus(r, status) == run[r].status = status

----------------------------------------------------------------------------
\* create: a PENDING run.
CreateRun(r) ==
    /\ InStatus(r, "absent")
    /\ run' = [run EXCEPT ![r].status = "pending"]
    /\ UNCHANGED <<events, worker, runAge>>

\* The strategy is deleted, and with it (onDelete: Cascade) its runs and their events.
DeleteRun(r) ==
    /\ run[r].status \notin {"absent", "deleted"}
    /\ run' = [run EXCEPT ![r] = [status |-> "deleted", result |-> NoResult]]
    /\ events' = [events EXCEPT ![r] = NoResult]
    /\ UNCHANGED <<worker, runAge>>

\* run, get: the row with its strategy, in whatever status.
GetRun(w, r) ==
    /\ WorkerAt(w, "idle")
    /\ run[r].status \notin {"absent", "deleted"}
    /\ worker' = [worker EXCEPT ![w] = [Free EXCEPT !.pc = "starting", !.run = r]]
    /\ UNCHANGED <<run, events, runAge>>

\* Mutant: the status is not part of the condition.
MayStartAnyway(r) == run[r].status \notin {"absent", "deleted"}

MayStart(r) == InStatus(r, "pending")

\* start, outside the try block: an update that takes only a PENDING run.
StartRun(w) ==
    LET r == worker[w].run
    IN /\ WorkerAt(w, "starting")
       /\ IF MayStart(r)
          THEN /\ run' = [run EXCEPT ![r].status = "running"]
               /\ runAge' = [runAge EXCEPT ![r] = 0]
               /\ WorkerGoes(w, "started")
          ELSE WorkerEnds(w) /\ UNCHANGED <<run, runAge>>
       /\ UNCHANGED events

\* start, the run is read back; it may have been deleted or given up.
ReadStarted(w) ==
    /\ WorkerAt(w, "started")
    /\ IF InStatus(worker[w].run, "running") THEN WorkerGoes(w, "working") ELSE WorkerEnds(w)
    /\ UNCHANGED <<run, events, runAge>>

\* Candles are loaded, or imported and loaded, and the simulation is done.
Simulate(w) ==
    /\ WorkerAt(w, "working")
    /\ \E x \in Results : worker' = [worker EXCEPT ![w].pc = "storing", ![w].result = x]
    /\ UNCHANGED <<run, events, runAge>>

\* The import fails, there are no candles, or the settings do not fit the interval.
SimulateThrows(w) ==
    /\ WorkerAt(w, "working")
    /\ WorkerGoes(w, "failing")
    /\ UNCHANGED <<run, events, runAge>>

\* complete, persistEvents: the events of the run are replaced in one
\* transaction, whatever the status of the run is by now.
PersistEvents(w) ==
    LET r == worker[w].run
    IN /\ WorkerAt(w, "storing")
       /\ ~InStatus(r, "deleted")
       /\ events' = [events EXCEPT ![r] = worker[w].result]
       /\ WorkerGoes(w, "completing")
       /\ UNCHANGED <<run, runAge>>

\* Mutant: the run is completed whatever it has become.
MayCompleteAnyway(r) == run[r].status # "deleted"

MayComplete(r) == InStatus(r, "running")

\* complete, the update that takes only a RUNNING run.
CompleteRun(w) ==
    LET r == worker[w].run
    IN /\ WorkerAt(w, "completing")
       /\ run' = IF MayComplete(r)
                 THEN [run EXCEPT ![r] = [status |-> "completed", result |-> worker[w].result]]
                 ELSE run
       /\ WorkerEnds(w)
       /\ UNCHANGED <<events, runAge>>

\* fail, in the catch block: the update takes only a RUNNING run.
FailRun(w) ==
    LET r == worker[w].run
    IN /\ WorkerAt(w, "failing")
       /\ run' = IF InStatus(r, "running") THEN [run EXCEPT ![r].status = "failed"] ELSE run
       /\ WorkerEnds(w)
       /\ UNCHANGED <<events, runAge>>

\* The request ends in an exception that no catch block turns into a failed
\* run: `return complete(...)` is not awaited inside the try, start is before
\* it, and fail itself may throw.  So does a process that dies.
Abandon(w) ==
    /\ ~WorkerAt(w, "idle")
    /\ WorkerEnds(w)
    /\ UNCHANGED <<run, events, runAge>>

----------------------------------------------------------------------------
\* Mutant: only runs that were never started.
StalePending == {r \in RunIds : InStatus(r, "pending") /\ runAge[r] > StaleAfter}

Stale == {r \in RunIds : InStatus(r, "running") /\ runAge[r] > StaleAfter}

\* failStaleRuns, every five minutes: one update.
FailStaleRuns ==
    /\ Stale # {}
    /\ run' = [r \in RunIds |-> IF r \in Stale THEN [run[r] EXCEPT !.status = "failed"] ELSE run[r]]
    /\ UNCHANGED <<events, worker, runAge>>

\* Time goes on for the runs that have started.
RunsTick ==
    LET older == {r \in RunIds : InStatus(r, "running") /\ runAge[r] <= StaleAfter}
    IN /\ older # {}
       /\ runAge' = [r \in RunIds |-> IF r \in older THEN runAge[r] + 1 ELSE runAge[r]]
       /\ UNCHANGED <<run, events, worker>>

WorkerStep(w) == \/ StartRun(w) \/ ReadStarted(w) \/ Simulate(w) \/ SimulateThrows(w)
                 \/ PersistEvents(w) \/ CompleteRun(w) \/ FailRun(w) \/ Abandon(w)

RunsNext == \/ \E r \in RunIds : CreateRun(r) \/ DeleteRun(r) \/ \E w \in Workers : GetRun(w, r)
            \/ \E w \in Workers : WorkerStep(w)
            \/ FailStaleRuns
            \/ RunsTick

RunsSpec == RunsInit /\ [][RunsNext]_runsVars
----------------------------------------------------------------------------
RunStatuses == {"absent", "pending", "running", "completed", "failed", "deleted"}
WorkerPcs == {"idle", "starting", "started", "working", "storing", "completing", "failing"}

\* The type invariant of the rows of the runs and of the requests at work.
RunsTypeOK ==
    /\ run \in [RunIds -> [status : RunStatuses, result : Results \cup {NoResult}]]
    /\ events \in [RunIds -> Results \cup {NoResult}]
    /\ worker \in [Workers -> [pc : WorkerPcs, run : RunIds \cup {NoRun},
                               result : Results \cup {NoResult}]]
    /\ runAge \in [RunIds -> 0..StaleAfter + 1]

\* The trades and the equity curve of a completed run belong to the result in
\* its row, although they are written before it, by requests that overlap and
\* go on after their run was given up (persistEvents, then complete).
EventsMatchResult ==
    \A r \in RunIds : InStatus(r, "completed") => events[r] = run[r].result /\ events[r] # NoResult

\* A run is started once and ends once, for whatever the requests, the recovery
\* pass and deletions do to it: the conditional updates implement RunLifecycle.
Runs == INSTANCE RunLifecycle WITH
            state <- [r \in RunIds |-> run[r].status],
            outcome <- [r \in RunIds |-> run[r].result]
ImplementsRunLifecycle == Runs!Spec

\* No run is RUNNING for ever, although requests die and lose their last update.
RunsEnd == \A r \in RunIds : []<>~InStatus(r, "running")
----------------------------------------------------------------------------
\* Why the events match: one request at most is past the start of a run, as
\* long as the run is running, and only that one stores events.
AtWork(w, r) == worker[w].run = r /\ worker[w].pc \in {"started", "working", "storing", "completing", "failing"}

WorkersHaveRuns == \A w \in Workers : WorkerAt(w, "idle") \/ worker[w].run \in RunIds

WorkIsOnStarted == \A w \in Workers, r \in RunIds :
    AtWork(w, r) => run[r].status \in {"running", "failed", "deleted"}

OneAtWork == \A v, w \in Workers, r \in RunIds : AtWork(v, r) /\ AtWork(w, r) => v = w

ResultsAreKept == \A w \in Workers :
    /\ worker[w].pc \in {"storing", "completing"} => worker[w].result \in Results
    /\ WorkerAt(w, "completing") /\ ~InStatus(worker[w].run, "deleted")
          => events[worker[w].run] = worker[w].result

RunsInv == /\ RunsTypeOK
           /\ EventsMatchResult
           /\ WorkersHaveRuns
           /\ WorkIsOnStarted
           /\ OneAtWork
           /\ ResultsAreKept
=============================================================================
