--------------------------- MODULE BacktestProofs ---------------------------
(***************************************************************************)
(* Theorems about backtests, for any market, bots and loads.  The runs:     *)
(* their type, that the stored events are those of the result, and that     *)
(* they implement RunLifecycle.  The candles: that a load misses none.  The *)
(* simulator: that cash, lots and the deployed capital of the report agree. *)
(* The report: that one pass over the equity points computes what is        *)
(* defined of all of them.                                                  *)
(***************************************************************************)
EXTENDS BacktestRuns, HistoricalCandles, BacktestSimulator, BacktestReport, FiniteSums,
        SequenceTheorems, TLAPS

(***************************************************************************)
(* Backtest runs.                                                            *)
(***************************************************************************)
LEMMA RunsInvInit == RunsInit => RunsInv
BY BacktestRunsAssumption
   DEF RunsInit, RunsInv, RunsTypeOK, EventsMatchResult, WorkersHaveRuns, WorkIsOnStarted, OneAtWork,
       ResultsAreKept, AtWork, WorkerAt, InStatus, Absent, Free, RunStatuses, WorkerPcs

\* Each step of the user, of a request and of the recovery pass keeps the invariant.
LEMMA CreateRunKeeps ==
    ASSUME RunsInv, NEW r \in RunIds, CreateRun(r)
    PROVE  RunsInv'
<1> USE BacktestRunsAssumption DEF RunsInv, RunsTypeOK, WorkerAt, InStatus, Free, CreateRun
<1>1. RunsTypeOK'
  BY DEF RunsTypeOK, RunStatuses, WorkerPcs
<1>2. EventsMatchResult'
  BY DEF EventsMatchResult, InStatus, AtWork
<1>3. WorkersHaveRuns'
  BY DEF WorkersHaveRuns
<1>4. WorkIsOnStarted'
  BY DEF WorkIsOnStarted, AtWork
<1>5. OneAtWork'
  BY DEF OneAtWork, AtWork, WorkIsOnStarted
<1>6. ResultsAreKept'
  BY DEF ResultsAreKept
<1> QED BY <1>1, <1>2, <1>3, <1>4, <1>5, <1>6

LEMMA DeleteRunKeeps ==
    ASSUME RunsInv, NEW r \in RunIds, DeleteRun(r)
    PROVE  RunsInv'
<1> USE BacktestRunsAssumption DEF RunsInv, RunsTypeOK, WorkerAt, InStatus, Free, DeleteRun
<1>1. RunsTypeOK'
  BY DEF RunsTypeOK, RunStatuses, WorkerPcs
<1>2. EventsMatchResult'
  BY DEF EventsMatchResult, InStatus, AtWork
<1>3. WorkersHaveRuns'
  BY DEF WorkersHaveRuns
<1>4. WorkIsOnStarted'
  BY DEF WorkIsOnStarted, AtWork
<1>5. OneAtWork'
  BY DEF OneAtWork, AtWork, WorkIsOnStarted
<1>6. ResultsAreKept'
  BY DEF ResultsAreKept
<1> QED BY <1>1, <1>2, <1>3, <1>4, <1>5, <1>6

LEMMA GetRunKeeps ==
    ASSUME RunsInv, NEW w \in Workers, NEW r \in RunIds, GetRun(w, r)
    PROVE  RunsInv'
<1> USE BacktestRunsAssumption DEF RunsInv, RunsTypeOK, WorkerAt, InStatus, Free, GetRun
<1>1. RunsTypeOK'
  BY DEF RunsTypeOK, RunStatuses, WorkerPcs
<1>2. EventsMatchResult'
  BY DEF EventsMatchResult, InStatus, AtWork
<1>3. WorkersHaveRuns'
  BY DEF WorkersHaveRuns
<1>4. WorkIsOnStarted'
  BY DEF WorkIsOnStarted, AtWork
<1>5. OneAtWork'
  BY DEF OneAtWork, AtWork, WorkIsOnStarted
<1>6. ResultsAreKept'
  BY DEF ResultsAreKept
<1> QED BY <1>1, <1>2, <1>3, <1>4, <1>5, <1>6

LEMMA StartRunKeeps ==
    ASSUME RunsInv, NEW w \in Workers, StartRun(w)
    PROVE  RunsInv'
<1> DEFINE r == worker[w].run
<1> USE BacktestRunsAssumption DEF RunsInv, WorkerAt, InStatus, Free
<1>r. r \in RunIds /\ worker[w] \in [pc : WorkerPcs, run : RunIds \cup {NoRun}, result : Results \cup {NoResult}]
  BY DEF StartRun, WorkersHaveRuns, RunsTypeOK
<1>a. CASE MayStart(r)
  <2>1. /\ run' = [run EXCEPT ![r].status = "running"]
        /\ runAge' = [runAge EXCEPT ![r] = 0]
        /\ worker' = [worker EXCEPT ![w].pc = "started"]
        /\ run[r].status = "pending"
        /\ UNCHANGED events
    BY <1>a DEF StartRun, MayStart, WorkerGoes
  <2>2. RunsTypeOK'
    <3>1. run' \in [RunIds -> [status : RunStatuses, result : Results \cup {NoResult}]]
      BY <1>r, <2>1 DEF RunsTypeOK, RunStatuses
    <3>2. worker' \in [Workers -> [pc : WorkerPcs, run : RunIds \cup {NoRun},
                                   result : Results \cup {NoResult}]]
      BY <2>1 DEF RunsTypeOK, WorkerPcs
    <3>3. runAge' \in [RunIds -> 0..StaleAfter + 1]
      BY <1>r, <2>1 DEF RunsTypeOK
    <3> QED BY <2>1, <3>1, <3>2, <3>3 DEF RunsTypeOK
  <2>3. \A x \in RunIds : run'[x].status = (IF x = r THEN "running" ELSE run[x].status)
                          /\ run'[x].result = run[x].result
    BY <1>r, <2>1 DEF RunsTypeOK
  <2>4. \A v \in Workers : worker'[v].pc = (IF v = w THEN "started" ELSE worker[v].pc)
                           /\ worker'[v].run = worker[v].run /\ worker'[v].result = worker[v].result
    BY <1>r, <2>1 DEF RunsTypeOK
  <2>5. EventsMatchResult'
    BY <1>r, <2>1, <2>3 DEF EventsMatchResult
  <2>6. WorkersHaveRuns' /\ WorkIsOnStarted'
    BY <1>r, <2>1, <2>3, <2>4 DEF WorkersHaveRuns, WorkIsOnStarted, AtWork
  <2>7. OneAtWork'
    BY <1>r, <2>1, <2>4 DEF OneAtWork, WorkIsOnStarted, AtWork
  <2>8. ResultsAreKept'
    <3> SUFFICES ASSUME NEW v \in Workers
                 PROVE  /\ worker'[v].pc \in {"storing", "completing"} => worker'[v].result \in Results
                        /\ worker'[v].pc = "completing" /\ run'[worker'[v].run].status # "deleted"
                              => events[worker'[v].run] = worker'[v].result
      BY <2>1 DEF ResultsAreKept
    <3>1. worker[v].pc # "idle" => worker[v].run \in RunIds
      BY DEF WorkersHaveRuns
    <3> QED BY <1>r, <2>1, <2>3, <2>4, <3>1 DEF ResultsAreKept
  <2> QED BY <2>2, <2>5, <2>6, <2>7, <2>8
<1>b. CASE ~MayStart(r)
  <2>1. worker' = [worker EXCEPT ![w] = Free] /\ UNCHANGED <<run, runAge, events>>
    BY <1>b DEF StartRun, WorkerEnds
  <2>2. RunsTypeOK' /\ EventsMatchResult'
    BY <2>1 DEF RunsTypeOK, EventsMatchResult, WorkerPcs
  <2>3. WorkersHaveRuns' /\ WorkIsOnStarted' /\ OneAtWork' /\ ResultsAreKept'
    BY <2>1 DEF RunsTypeOK, WorkersHaveRuns, WorkIsOnStarted, OneAtWork, ResultsAreKept, AtWork
  <2> QED BY <2>2, <2>3
<1> QED BY <1>a, <1>b

LEMMA ReadStartedKeeps ==
    ASSUME RunsInv, NEW w \in Workers, ReadStarted(w)
    PROVE  RunsInv'
<1> USE BacktestRunsAssumption DEF RunsInv, RunsTypeOK, WorkerAt, InStatus, Free
<1>1. worker' = [worker EXCEPT ![w].pc = "working"] \/ worker' = [worker EXCEPT ![w] = Free]
  BY DEF ReadStarted, WorkerGoes, WorkerEnds
<1>2. WorkerAt(w, "started") /\ UNCHANGED <<run, events, runAge>>
  BY DEF ReadStarted
<1>3. RunsTypeOK' /\ EventsMatchResult'
  BY <1>1, <1>2 DEF EventsMatchResult, RunStatuses, WorkerPcs
<1>4. WorkersHaveRuns'
  <2>1. worker[w].run \in RunIds
    BY <1>2 DEF WorkersHaveRuns
  <2>2. CASE worker' = [worker EXCEPT ![w].pc = "working"]
    <3>1. \A v \in Workers : worker'[v].run = worker[v].run /\ (v # w => worker'[v].pc = worker[v].pc)
      BY <2>2
    <3> QED BY <2>1, <3>1 DEF WorkersHaveRuns
  <2>3. CASE worker' = [worker EXCEPT ![w] = Free]
    BY <2>3 DEF WorkersHaveRuns
  <2> QED BY <1>1, <2>2, <2>3
<1>5. WorkIsOnStarted'
  BY <1>1, <1>2 DEF WorkIsOnStarted, AtWork
<1>6. OneAtWork'
  BY <1>1, <1>2 DEF OneAtWork, AtWork
<1>7. ResultsAreKept'
  BY <1>1, <1>2 DEF ResultsAreKept
<1> QED BY <1>3, <1>4, <1>5, <1>6, <1>7

LEMMA SimulateKeeps ==
    ASSUME RunsInv, NEW w \in Workers, Simulate(w)
    PROVE  RunsInv'
<1> USE BacktestRunsAssumption DEF RunsInv, RunsTypeOK, WorkerAt, InStatus
<1>1. PICK x \in Results : worker' = [worker EXCEPT ![w].pc = "storing", ![w].result = x]
  BY DEF Simulate
<1>2. WorkerAt(w, "working") /\ UNCHANGED <<run, events, runAge>>
  BY DEF Simulate
<1>3. \A v \in Workers : /\ worker'[v].pc = (IF v = w THEN "storing" ELSE worker[v].pc)
                         /\ worker'[v].run = worker[v].run
                         /\ worker'[v].result = (IF v = w THEN x ELSE worker[v].result)
  BY <1>1
<1>4. worker' \in [Workers -> [pc : WorkerPcs, run : RunIds \cup {NoRun}, result : Results \cup {NoResult}]]
  <2>1. [worker[w] EXCEPT !.pc = "storing", !.result = x]
          \in [pc : WorkerPcs, run : RunIds \cup {NoRun}, result : Results \cup {NoResult}]
    BY DEF WorkerPcs
  <2>2. worker' = [worker EXCEPT ![w] = [worker[w] EXCEPT !.pc = "storing", !.result = x]]
    BY <1>1
  <2> QED BY <2>1, <2>2
<1>5. RunsTypeOK' /\ EventsMatchResult'
  BY <1>2, <1>4 DEF EventsMatchResult
<1>6. WorkersHaveRuns' /\ WorkIsOnStarted' /\ OneAtWork'
  BY <1>2, <1>3 DEF WorkersHaveRuns, WorkIsOnStarted, OneAtWork, AtWork
<1>7. ResultsAreKept'
  BY <1>2, <1>3 DEF ResultsAreKept
<1> QED BY <1>5, <1>6, <1>7

LEMMA SimulateThrowsKeeps ==
    ASSUME RunsInv, NEW w \in Workers, SimulateThrows(w)
    PROVE  RunsInv'
<1> USE BacktestRunsAssumption DEF RunsInv, RunsTypeOK, WorkerAt, InStatus, Free, SimulateThrows, WorkerGoes
<1>1. RunsTypeOK'
  BY DEF RunsTypeOK, RunStatuses, WorkerPcs
<1>2. EventsMatchResult'
  BY DEF EventsMatchResult, InStatus, AtWork
<1>3. WorkersHaveRuns'
  BY DEF WorkersHaveRuns
<1>4. WorkIsOnStarted'
  BY DEF WorkIsOnStarted, AtWork
<1>5. OneAtWork'
  BY DEF OneAtWork, AtWork, WorkIsOnStarted
<1>6. ResultsAreKept'
  BY DEF ResultsAreKept
<1> QED BY <1>1, <1>2, <1>3, <1>4, <1>5, <1>6

LEMMA PersistEventsKeeps ==
    ASSUME RunsInv, NEW w \in Workers, PersistEvents(w)
    PROVE  RunsInv'
<1> DEFINE r == worker[w].run
<1> USE BacktestRunsAssumption DEF RunsInv, WorkerAt, InStatus
<1>1. /\ r \in RunIds
      /\ worker[w].result \in Results
      /\ AtWork(w, r)
  BY DEF PersistEvents, WorkersHaveRuns, ResultsAreKept, AtWork
<1>2. /\ events' = [events EXCEPT ![r] = worker[w].result]
      /\ worker' = [worker EXCEPT ![w].pc = "completing"]
      /\ UNCHANGED <<run, runAge>>
  BY DEF PersistEvents, WorkerGoes
<1>3. RunsTypeOK'
  BY <1>1, <1>2 DEF RunsTypeOK, WorkerPcs
<1>4. \A v \in Workers : /\ worker'[v].pc = (IF v = w THEN "completing" ELSE worker[v].pc)
                         /\ worker'[v].run = worker[v].run /\ worker'[v].result = worker[v].result
  BY <1>2 DEF RunsTypeOK
<1>5. \A x \in RunIds : events'[x] = IF x = r THEN worker[w].result ELSE events[x]
  BY <1>2 DEF RunsTypeOK
<1>6. EventsMatchResult'
  <2>1. run[r].status # "completed"
    BY <1>1 DEF WorkIsOnStarted
  <2> QED BY <1>2, <1>5, <2>1 DEF EventsMatchResult
<1>7. WorkersHaveRuns' /\ WorkIsOnStarted' /\ OneAtWork'
  BY <1>1, <1>2, <1>4 DEF WorkersHaveRuns, WorkIsOnStarted, OneAtWork, AtWork
<1>8. ResultsAreKept'
  <2> SUFFICES ASSUME NEW v \in Workers
               PROVE  /\ worker'[v].pc \in {"storing", "completing"} => worker'[v].result \in Results
                      /\ worker'[v].pc = "completing" /\ run[worker'[v].run].status # "deleted"
                            => events'[worker'[v].run] = worker'[v].result
    BY <1>2 DEF ResultsAreKept
  <2>1. v # w /\ worker[v].pc = "completing" => worker[v].run \in RunIds /\ worker[v].run # r
    BY <1>1 DEF WorkersHaveRuns, OneAtWork, AtWork
  <2> QED BY <1>1, <1>4, <1>5, <2>1 DEF ResultsAreKept
<1> QED BY <1>3, <1>6, <1>7, <1>8

LEMMA CompleteRunKeeps ==
    ASSUME RunsInv, NEW w \in Workers, CompleteRun(w)
    PROVE  RunsInv'
<1> DEFINE r == worker[w].run
<1> USE BacktestRunsAssumption DEF RunsInv, WorkerAt, InStatus
<1>1. /\ r \in RunIds
      /\ worker[w].result \in Results
      /\ AtWork(w, r)
      /\ run[r].status # "deleted" => events[r] = worker[w].result
  BY DEF CompleteRun, WorkersHaveRuns, ResultsAreKept, AtWork
<1>2. worker' = [worker EXCEPT ![w] = Free] /\ UNCHANGED <<events, runAge>>
  BY DEF CompleteRun, WorkerEnds
<1>3. \A x \in RunIds : \/ run'[x] = run[x]
                        \/ /\ x = r /\ run[x].status = "running"
                           /\ run'[x] = [status |-> "completed", result |-> worker[w].result]
  BY <1>1 DEF CompleteRun, MayComplete, RunsTypeOK
<1>4. \A v \in Workers : worker'[v] = IF v = w THEN Free ELSE worker[v]
  BY <1>2 DEF RunsTypeOK
<1>5. RunsTypeOK'
  BY <1>1, <1>2 DEF CompleteRun, RunsTypeOK, RunStatuses, WorkerPcs, Free
<1>6. EventsMatchResult'
  BY <1>1, <1>2, <1>3 DEF EventsMatchResult
<1>7. WorkersHaveRuns' /\ OneAtWork'
  BY <1>4 DEF WorkersHaveRuns, OneAtWork, AtWork, Free
<1>8. WorkIsOnStarted'
  <2> SUFFICES ASSUME NEW v \in Workers, NEW x \in RunIds, AtWork(v, x)'
               PROVE  run'[x].status \in {"running", "failed", "deleted"}
    BY DEF WorkIsOnStarted
  <2>1. v # w /\ AtWork(v, x)
    BY <1>4 DEF AtWork, Free
  <2>2. x # r
    BY <1>1, <2>1 DEF OneAtWork
  <2> QED BY <1>3, <2>1, <2>2 DEF WorkIsOnStarted
<1>9. ResultsAreKept'
  <2> SUFFICES ASSUME NEW v \in Workers
               PROVE  /\ worker'[v].pc \in {"storing", "completing"} => worker'[v].result \in Results
                      /\ worker'[v].pc = "completing" /\ run'[worker'[v].run].status # "deleted"
                            => events[worker'[v].run] = worker'[v].result
    BY <1>2 DEF ResultsAreKept
  <2>1. v # w /\ worker[v].pc = "completing" => worker[v].run \in RunIds /\ worker[v].run # r
    BY <1>1 DEF WorkersHaveRuns, OneAtWork, AtWork
  <2> QED BY <1>3, <1>4, <2>1 DEF ResultsAreKept, Free
<1> QED BY <1>5, <1>6, <1>7, <1>8, <1>9

LEMMA FailRunKeeps ==
    ASSUME RunsInv, NEW w \in Workers, FailRun(w)
    PROVE  RunsInv'
<1> USE BacktestRunsAssumption DEF RunsInv, RunsTypeOK, WorkerAt, InStatus, Free, FailRun, WorkerEnds
<1>1. RunsTypeOK'
  BY DEF RunsTypeOK, RunStatuses, WorkerPcs
<1>2. EventsMatchResult'
  BY DEF EventsMatchResult, InStatus, AtWork
<1>3. WorkersHaveRuns'
  BY DEF WorkersHaveRuns
<1>4. WorkIsOnStarted'
  BY DEF WorkIsOnStarted, AtWork
<1>5. OneAtWork'
  BY DEF OneAtWork, AtWork, WorkIsOnStarted
<1>6. ResultsAreKept'
  BY DEF ResultsAreKept
<1> QED BY <1>1, <1>2, <1>3, <1>4, <1>5, <1>6

LEMMA AbandonKeeps ==
    ASSUME RunsInv, NEW w \in Workers, Abandon(w)
    PROVE  RunsInv'
<1> USE BacktestRunsAssumption DEF RunsInv, RunsTypeOK, WorkerAt, InStatus, Free, Abandon, WorkerEnds
<1>1. RunsTypeOK'
  BY DEF RunsTypeOK, RunStatuses, WorkerPcs
<1>2. EventsMatchResult'
  BY DEF EventsMatchResult, InStatus, AtWork
<1>3. WorkersHaveRuns'
  BY DEF WorkersHaveRuns
<1>4. WorkIsOnStarted'
  BY DEF WorkIsOnStarted, AtWork
<1>5. OneAtWork'
  BY DEF OneAtWork, AtWork, WorkIsOnStarted
<1>6. ResultsAreKept'
  BY DEF ResultsAreKept
<1> QED BY <1>1, <1>2, <1>3, <1>4, <1>5, <1>6

LEMMA RecoveryKeeps ==
    ASSUME RunsInv, FailStaleRuns
    PROVE  RunsInv'
<1> USE BacktestRunsAssumption DEF RunsInv, WorkerAt, InStatus
<1>1. UNCHANGED <<events, worker, runAge>>
  BY DEF FailStaleRuns
<1>2. \A x \in RunIds : /\ run'[x].result = run[x].result
                        /\ \/ run'[x].status = run[x].status
                           \/ run[x].status = "running" /\ run'[x].status = "failed"
  BY DEF FailStaleRuns, Stale, RunsTypeOK
<1>3. RunsTypeOK'
  BY <1>1 DEF FailStaleRuns, RunsTypeOK, RunStatuses
<1>4. EventsMatchResult'
  BY <1>1, <1>2 DEF EventsMatchResult
<1>5. WorkersHaveRuns' /\ WorkIsOnStarted' /\ OneAtWork'
  BY <1>1, <1>2 DEF WorkersHaveRuns, WorkIsOnStarted, OneAtWork, AtWork
<1>6. ResultsAreKept'
  <2>1. \A v \in Workers : worker[v].pc = "completing" => worker[v].run \in RunIds
    BY DEF WorkersHaveRuns
  <2> QED BY <1>1, <1>2, <2>1 DEF ResultsAreKept
<1> QED BY <1>3, <1>4, <1>5, <1>6

LEMMA TickKeeps ==
    ASSUME RunsInv, RunsTick
    PROVE  RunsInv'
<1> USE BacktestRunsAssumption DEF RunsInv, RunsTypeOK, WorkerAt, InStatus, Free, RunsTick
<1>1. RunsTypeOK'
  BY DEF RunsTypeOK, RunStatuses, WorkerPcs
<1>2. EventsMatchResult'
  BY DEF EventsMatchResult, InStatus, AtWork
<1>3. WorkersHaveRuns'
  BY DEF WorkersHaveRuns
<1>4. WorkIsOnStarted'
  BY DEF WorkIsOnStarted, AtWork
<1>5. OneAtWork'
  BY DEF OneAtWork, AtWork, WorkIsOnStarted
<1>6. ResultsAreKept'
  BY DEF ResultsAreKept
<1> QED BY <1>1, <1>2, <1>3, <1>4, <1>5, <1>6

LEMMA RunsInvStep == ASSUME RunsInv, [RunsNext]_runsVars PROVE RunsInv'
<1>1. CASE \E r \in RunIds : CreateRun(r) \/ DeleteRun(r)
  BY <1>1, CreateRunKeeps, DeleteRunKeeps
<1>2. CASE \E w \in Workers, r \in RunIds : GetRun(w, r)
  BY <1>2, GetRunKeeps
<1>3. CASE \E w \in Workers : WorkerStep(w)
  BY <1>3, StartRunKeeps, ReadStartedKeeps, SimulateKeeps, SimulateThrowsKeeps, PersistEventsKeeps,
     CompleteRunKeeps, FailRunKeeps, AbandonKeeps DEF WorkerStep
<1>4. CASE FailStaleRuns \/ RunsTick
  BY <1>4, RecoveryKeeps, TickKeeps
<1>5. CASE UNCHANGED runsVars
  BY <1>5 DEF runsVars, RunsInv, RunsTypeOK, EventsMatchResult, WorkersHaveRuns, WorkIsOnStarted,
              OneAtWork, ResultsAreKept, AtWork, WorkerAt, InStatus
<1> QED
  BY <1>1, <1>2, <1>3, <1>4, <1>5 DEF RunsNext

\* One request at most is at work on a run, and only it stores the events: the
\* inductive invariant of the requests, the recovery pass and deletions.
THEOREM RunsInvariant == RunsSpec => []RunsInv
<1>1. RunsInit => RunsInv
  BY RunsInvInit
<1>2. RunsInv /\ [RunsNext]_runsVars => RunsInv'
  BY RunsInvStep
<1> QED
  BY <1>1, <1>2, PTL DEF RunsSpec

\* The stored trades and equity points of a completed run are those of its
\* result, for any number of runs, requests and results (complete, :122-139).
THEOREM EventsMatch == RunsSpec => []EventsMatchResult
<1>1. RunsInv => EventsMatchResult
  BY DEF RunsInv
<1> QED
  BY <1>1, RunsInvariant, PTL

----------------------------------------------------------------------------
\* Each kind of step is a step of the lifecycle, or none.
LEMMA InitSimulates == RunsInit => Runs!Init
BY DEF RunsInit, Runs!Init, Absent

LEMMA UserSimulates ==
    ASSUME RunsInv, NEW r \in RunIds, CreateRun(r) \/ DeleteRun(r)
    PROVE  Runs!Next
<1>1. CASE CreateRun(r)
  <2>1. Runs!Create(r)
    BY <1>1 DEF CreateRun, InStatus, RunsInv, RunsTypeOK, Runs!Create, Runs!Moves
  <2> QED BY <2>1 DEF Runs!Next
<1>2. CASE DeleteRun(r)
  <2>1. Runs!Delete(r)
    BY <1>2 DEF DeleteRun, RunsInv, RunsTypeOK, Runs!Delete
  <2> QED BY <2>1 DEF Runs!Next
<1> QED BY <1>1, <1>2

\* Requests that only read, and the events, are not seen by the lifecycle.
LEMMA QuietSteps ==
    ASSUME UNCHANGED run
    PROVE  UNCHANGED <<[r \in RunIds |-> run[r].status], [r \in RunIds |-> run[r].result]>>
OBVIOUS

LEMMA StartIsNext == ASSUME NEW x \in RunIds, Runs!Start(x) \/ Runs!Complete(x) PROVE Runs!Next
BY DEF Runs!Next

LEMMA StartSimulates ==
    ASSUME RunsInv, NEW w \in Workers, StartRun(w)
    PROVE  Runs!Next \/ UNCHANGED run
<1>1. PICK r \in RunIds : r = worker[w].run
  BY DEF StartRun, RunsInv, WorkersHaveRuns, WorkerAt
<1>2. CASE MayStart(r)
  <2>1. run[r].status = "pending" /\ run' = [run EXCEPT ![r].status = "running"]
    BY <1>1, <1>2 DEF StartRun, MayStart, InStatus
  <2>2. Runs!Start(r)
    BY <2>1 DEF RunsInv, RunsTypeOK, Runs!Start, Runs!Moves
  <2> QED BY <2>2, StartIsNext
<1>3. CASE ~MayStart(r)
  BY <1>1, <1>3 DEF StartRun
<1> QED BY <1>2, <1>3

LEMMA CompleteSimulates ==
    ASSUME RunsInv, NEW w \in Workers, CompleteRun(w)
    PROVE  Runs!Next \/ UNCHANGED run
<1>1. PICK r \in RunIds : r = worker[w].run
  BY DEF CompleteRun, RunsInv, WorkersHaveRuns, WorkerAt
<1>2. PICK x \in Results : x = worker[w].result
  BY DEF CompleteRun, RunsInv, ResultsAreKept, WorkerAt
<1>3. CASE MayComplete(r)
  <2>1. run[r].status = "running"
        /\ run' = [run EXCEPT ![r] = [status |-> "completed", result |-> x]]
    BY <1>1, <1>2, <1>3 DEF CompleteRun, MayComplete, InStatus
  <2>2. Runs!Complete(r)
    BY <2>1 DEF RunsInv, RunsTypeOK, Runs!Complete, Runs!Moves
  <2> QED BY <2>2, StartIsNext
<1>4. CASE ~MayComplete(r)
  BY <1>1, <1>4 DEF CompleteRun
<1> QED BY <1>3, <1>4

LEMMA FailSimulates ==
    ASSUME RunsInv, NEW w \in Workers, FailRun(w)
    PROVE  Runs!Next \/ UNCHANGED run
<1> DEFINE r == worker[w].run
<1>1. CASE InStatus(r, "running")
  <2>1. r \in RunIds
    BY DEF FailRun, RunsInv, WorkersHaveRuns, WorkerAt
  <2>2. Runs!GiveUp
    <3> DEFINE S == {r}
    <3>1. S \in SUBSET {x \in RunIds : run[x].status = "running"}
      BY <1>1, <2>1 DEF InStatus
    <3>2. \A x \in RunIds : run'[x].status = (IF x \in S THEN "failed" ELSE run[x].status)
                            /\ run'[x].result = run[x].result
      BY <1>1, <2>1 DEF FailRun, RunsInv, RunsTypeOK
    <3> QED BY <3>1, <3>2 DEF Runs!GiveUp
  <2> QED BY <2>2 DEF Runs!Next
<1>2. CASE ~InStatus(r, "running")
  BY <1>2 DEF FailRun
<1> QED BY <1>1, <1>2

LEMMA RecoverySimulates == ASSUME RunsInv, FailStaleRuns PROVE Runs!Next
<1>1. Stale \in SUBSET {x \in RunIds : run[x].status = "running"}
  BY DEF Stale, InStatus
<1>2. \A x \in RunIds : run'[x].status = (IF x \in Stale THEN "failed" ELSE run[x].status)
                        /\ run'[x].result = run[x].result
  BY DEF FailStaleRuns, RunsInv, RunsTypeOK
<1>3. Runs!GiveUp
  BY <1>1, <1>2 DEF Runs!GiveUp
<1> QED BY <1>3 DEF Runs!Next

LEMMA StepSimulates ==
    ASSUME RunsInv, [RunsNext]_runsVars
    PROVE  Runs!Next \/ UNCHANGED run
<1>1. CASE \E r \in RunIds : CreateRun(r) \/ DeleteRun(r)
  BY <1>1, UserSimulates
<1>2. CASE \E w \in Workers, r \in RunIds : GetRun(w, r)
  BY <1>2 DEF GetRun
<1>3. CASE \E w \in Workers : WorkerStep(w)
  <2>1. PICK w \in Workers : WorkerStep(w)
    BY <1>3
  <2>2. CASE StartRun(w) \/ CompleteRun(w) \/ FailRun(w)
    BY <2>2, StartSimulates, CompleteSimulates, FailSimulates
  <2>3. CASE ReadStarted(w) \/ Simulate(w) \/ SimulateThrows(w) \/ PersistEvents(w) \/ Abandon(w)
    BY <2>3 DEF ReadStarted, Simulate, SimulateThrows, PersistEvents, Abandon
  <2> QED BY <2>1, <2>2, <2>3 DEF WorkerStep
<1>4. CASE FailStaleRuns
  BY <1>4, RecoverySimulates
<1>5. CASE RunsTick \/ UNCHANGED runsVars
  BY <1>5 DEF RunsTick, runsVars
<1> QED
  BY <1>1, <1>2, <1>3, <1>4, <1>5 DEF RunsNext

\* The services implement the lifecycle of a run, for any number of runs,
\* requests and results: it is started once, ends once and stays as it ended.
THEOREM LifecycleImplemented == RunsSpec => ImplementsRunLifecycle
<1>1. RunsInit => Runs!Init
  BY InitSimulates
<1>2. RunsInv /\ [RunsNext]_runsVars =>
        [Runs!Next]_<<[r \in RunIds |-> run[r].status], [r \in RunIds |-> run[r].result]>>
  BY StepSimulates, QuietSteps
<1> QED
  BY <1>1, <1>2, RunsInvariant, PTL DEF RunsSpec, ImplementsRunLifecycle, Runs!Spec

(***************************************************************************)
(* The candles of a backtest.                                                *)
(***************************************************************************)
Sorted(s) == \A i, j \in DOMAIN s : i < j => s[i] < s[j]

\* The candles of a finite set can be put in order.
LEMMA OrderExists ==
    ASSUME NEW S, IsFiniteSet(S), \A c \in S : c \in Nat
    PROVE  \E s \in [1..Cardinality(S) -> S] : ToSet(s) = S /\ Sorted(s)
<1> DEFINE InOrder(T) == \E s \in [1..Cardinality(T) -> T] : ToSet(s) = T /\ Sorted(s)
           F == {T \in SUBSET S : ~InOrder(T)}
<1> SUFFICES ASSUME ~InOrder(S) PROVE FALSE
  OBVIOUS
<1>1. PICK T \in F : \A U \in F : U \subseteq T => U = T
  <2>1. F \in SUBSET (SUBSET S) /\ F # {}
    OBVIOUS
  <2> HIDE DEF F
  <2> QED BY <2>1, SmallestSet
<1>2. T \in SUBSET S /\ ~InOrder(T)
  BY <1>1
<1>3. IsFiniteSet(T) /\ \A c \in T : c \in Nat
  BY <1>2, FS_Subset
<1>4. CASE T = {}
  <2>1. Cardinality(T) = 0
    BY <1>4, FS_EmptySet
  <2>2. <<>> \in [1..Cardinality(T) -> T] /\ ToSet(<<>>) = T /\ Sorted(<<>>)
    BY <1>4, <2>1 DEF ToSet, Sorted
  <2> QED BY <1>2, <2>2
<1>5. CASE T # {}
  <2>1. PICK m \in T : \A c \in T : m >= c
    BY <1>3, <1>5, FiniteGreatest
  <2> DEFINE U == T \ {m}
             n == Cardinality(U)
  <2>2. n \in Nat /\ Cardinality(T) = n + 1 /\ U # T
    <3>1. IsFiniteSet(U) /\ Cardinality(U) = Cardinality(T) - 1
      BY <1>3, <2>1, FS_RemoveElement
    <3>2. Cardinality(T) \in Nat /\ Cardinality(U) \in Nat
      BY <1>3, <3>1, FS_CardinalityType
    <3> QED BY <2>1, <3>1, <3>2
  <2>3. InOrder(U)
    <3>1. U \in SUBSET S /\ U \subseteq T /\ U # T
      BY <1>2, <2>1
    <3> QED BY <1>1, <3>1
  <2>4. PICK s \in [1..n -> U] : ToSet(s) = U /\ Sorted(s)
    BY <2>3
  <2> DEFINE t == [i \in 1..(n + 1) |-> IF i = n + 1 THEN m ELSE s[i]]
  <2> HIDE DEF n
  <2>5. \A i \in 1..n : t[i] = s[i] /\ s[i] \in U
    BY <2>2, <2>4
  <2>6. t[n + 1] = m /\ DOMAIN t = 1..(n + 1) /\ 1..(n + 1) = 1..n \cup {n + 1}
    BY <2>2
  <2> HIDE DEF t
  <2>7. t \in [1..Cardinality(T) -> T]
    BY <2>1, <2>2, <2>5, <2>6 DEF t
  <2>8. ToSet(t) = T
    <3>1. ToSet(t) = {t[i] : i \in 1..n} \cup {m}
      BY <2>6 DEF ToSet
    <3>2. {t[i] : i \in 1..n} = U
      BY <2>4, <2>5 DEF ToSet
    <3> QED BY <2>1, <3>1, <3>2
  <2>9. Sorted(t)
    <3> SUFFICES ASSUME NEW i \in 1..(n + 1), NEW j \in 1..(n + 1), i < j PROVE t[i] < t[j]
      BY <2>6 DEF Sorted
    <3>1. i \in 1..n
      BY <2>2
    <3>2. CASE j \in 1..n
      <4>1. DOMAIN s = 1..n
        BY <2>4
      <4> QED BY <2>4, <2>5, <3>1, <3>2, <4>1 DEF Sorted
    <3>3. CASE j = n + 1
      <4>1. t[i] \in T /\ t[i] # m /\ t[j] = m
        BY <2>5, <2>6, <3>1, <3>3
      <4>2. t[i] \in Nat /\ m \in Nat /\ m >= t[i]
        BY <1>3, <2>1, <4>1
      <4> QED BY <4>1, <4>2
    <3> QED BY <2>6, <3>2, <3>3
  <2> QED BY <1>2, <2>7, <2>8, <2>9
<1> QED BY <1>4, <1>5

\* What one page of a set of candles holds: the first ones from the cursor on, in
\* order, and all of them unless the page is full.
FirstOf(p, S, cursor, limit) ==
    /\ p \in Seq(S) /\ Sorted(p) /\ \A i \in DOMAIN p : p[i] >= cursor
    /\ Len(p) # limit => \A c \in S : c >= cursor => c \in ToSet(p)
    /\ Len(p) = limit =>
          /\ Last(p) \in ToSet(p)
          /\ \A i \in DOMAIN p : p[i] <= Last(p)
          /\ \A c \in S : c >= cursor /\ c <= Last(p) => c \in ToSet(p)

LEMMA PageIs ==
    ASSUME NEW S, IsFiniteSet(S), \A c \in S : c \in Nat, NEW cursor \in Nat,
           NEW limit \in Nat \ {0}, NEW p, p = Page(S, cursor, limit)
    PROVE  FirstOf(p, S, cursor, limit)
<1> DEFINE R == {c \in S : c >= cursor}
           s == ByOpenTime(R)
           n == Cardinality(R)
           k == IF n < limit THEN n ELSE limit
<1>1. IsFiniteSet(R) /\ (\A c \in R : c \in Nat) /\ n \in Nat
  BY FS_Subset, FS_CardinalityType
<1>2. s \in [1..n -> R] /\ ToSet(s) = R /\ Sorted(s)
  <2> HIDE DEF R
  <2> QED BY <1>1, OrderExists DEF ByOpenTime, Sorted
<1>3. \A c \in S : c >= cursor => c \in R
  OBVIOUS
<1>4. \A c \in R : c \in S /\ c >= cursor /\ c \in Nat
  OBVIOUS
<1>5. p = SubSeq(s, 1, IF Len(s) < limit THEN Len(s) ELSE limit)
  BY DEF Page
<1> HIDE DEF R, s, n
<1>6. s \in Seq(R) /\ Len(s) = n /\ DOMAIN s = 1..n
  <2>1. s \in Seq(R)
    BY <1>1, <1>2
  <2> QED BY <1>1, <1>2, <2>1
<1>7. k \in Nat /\ k <= n /\ k <= limit /\ (k # limit => k = n)
  BY <1>1
<1>8. p = SubSeq(s, 1, k)
  BY <1>5, <1>6
<1> HIDE DEF k
<1>9. \A i \in 1..n : s[i] \in R
  BY <1>2
<1>10. p \in Seq(R) /\ Len(p) = k /\ DOMAIN p = 1..k /\ \A i \in 1..k : p[i] = s[i]
  <2>1. \A i \in 1..k : s[i] \in R
    BY <1>1, <1>7, <1>9
  <2>2. p \in Seq(R) /\ Len(p) = (IF 1 <= k THEN k - 1 + 1 ELSE 0) /\ \A i \in 1..(k - 1 + 1) : p[i] = s[1 + i - 1]
    BY <1>7, <1>8, <2>1, SubSeqProperties
  <2>3. Len(p) = k
    BY <1>7, <2>2
  <2>4. \A i \in 1..k : p[i] = s[i]
    <3> TAKE i \in 1..k
    <3>1. 1 + i - 1 = i /\ i \in 1..(k - 1 + 1)
      BY <1>7
    <3> QED BY <2>2, <3>1
  <2> QED BY <2>2, <2>3, <2>4
<1>11. \A i \in 1..k : i \in 1..n
  BY <1>1, <1>7
<1>12. p \in Seq(S) /\ Sorted(p) /\ \A i \in DOMAIN p : p[i] >= cursor
  <2>1. p \in Seq(S)
    BY <1>4, <1>10, SeqMonotonic
  <2>2. Sorted(p)
    BY <1>2, <1>6, <1>10, <1>11 DEF Sorted
  <2>3. \A i \in DOMAIN p : p[i] >= cursor
    BY <1>4, <1>9, <1>10, <1>11
  <2> QED BY <2>1, <2>2, <2>3
<1>13. ASSUME Len(p) # limit, NEW c \in S, c >= cursor PROVE c \in ToSet(p)
  <2>1. PICK i \in 1..n : c = s[i]
    BY <1>2, <1>3, <1>6, <1>13 DEF ToSet
  <2>2. i \in 1..k
    BY <1>7, <1>10, <1>13
  <2> QED BY <1>10, <2>1, <2>2 DEF ToSet
<1>14. ASSUME Len(p) = limit
       PROVE  /\ Last(p) \in ToSet(p)
              /\ \A i \in DOMAIN p : p[i] <= Last(p)
              /\ \A c \in S : c >= cursor /\ c <= Last(p) => c \in ToSet(p)
  <2>1. k = limit /\ k \in 1..k /\ Last(p) = p[k]
    BY <1>10, <1>14 DEF Last
  <2>2. \A i \in 1..k : p[i] \in Nat /\ p[i] <= p[k]
    <3> TAKE i \in 1..k
    <3>1. p[i] \in Nat /\ p[k] \in Nat
      BY <1>4, <1>9, <1>10, <1>11, <2>1
    <3>2. CASE i = k
      BY <3>1, <3>2
    <3>3. CASE i # k
      <4>1. i < k
        BY <1>7, <3>3
      <4>2. p[i] < p[k]
        BY <1>10, <1>12, <2>1, <4>1 DEF Sorted
      <4> QED BY <3>1, <4>2
    <3> QED BY <3>2, <3>3
  <2>3. ASSUME NEW c \in S, c >= cursor, c <= Last(p) PROVE c \in ToSet(p)
    <3>1. PICK i \in 1..n : c = s[i]
      BY <1>2, <1>3, <1>6, <2>3 DEF ToSet
    <3>2. CASE i \in 1..k
      BY <1>10, <3>1, <3>2 DEF ToSet
    <3>3. CASE i \notin 1..k
      <4>1. k < i /\ k \in 1..n /\ i \in 1..n
        BY <1>1, <1>7, <1>11, <2>1, <3>3
      <4>2. s[k] < s[i]
        BY <1>2, <1>6, <4>1 DEF Sorted
      <4>3. s[k] \in Nat /\ s[i] \in Nat /\ p[k] = s[k]
        BY <1>4, <1>9, <1>10, <2>1, <4>1
      <4> QED BY <2>1, <2>3, <3>1, <4>2, <4>3
    <3> QED BY <3>2, <3>3
  <2> QED BY <1>10, <2>1, <2>2, <2>3 DEF ToSet
<1> QED BY <1>12, <1>13, <1>14 DEF FirstOf

-----------------------------------------------------------------------------
\* A load has every candle below its cursor that was stored when it began; an import
\* has stored every candle below its cursor.
LoadInv(r, S, L) ==
    /\ Sorted(r.got) /\ ToSet(r.got) \subseteq S
    /\ r.before \subseteq S
    /\ r.pc = "read" => /\ \A i \in DOMAIN r.got : r.got[i] < r.cursor
                        /\ \A c \in r.before : c < r.cursor => c \in ToSet(r.got)
    /\ r.pc = "loaded" => r.before \subseteq ToSet(r.got)
    /\ r.imported => r.before = L
    /\ r.pc = "import" => \A c \in L : c < r.cursor => c \in S

CandlesInv ==
    /\ listed \subseteq CandleRange /\ stored \subseteq listed
    /\ loader \in [Loaders -> LoaderRows(listed)]
    /\ \A l \in Loaders : LoadInv(loader[l], stored, listed)

LEMMA ListedIsFinite ==
    ASSUME CandlesInv
    PROVE  /\ IsFiniteSet(listed) /\ IsFiniteSet(stored)
           /\ \A c \in listed : c \in Nat /\ c >= 1 /\ c <= RangeEnd
           /\ \A c \in stored : c \in Nat /\ c >= 1 /\ c <= RangeEnd
<1>1. IsFiniteSet(CandleRange)
  BY CandlesAssumption, FS_Interval DEF CandleRange
<1>2. \A c \in CandleRange : c \in Nat /\ c >= 1 /\ c <= RangeEnd
  BY CandlesAssumption DEF CandleRange
<1>3. listed \subseteq CandleRange /\ stored \subseteq CandleRange
  BY DEF CandlesInv
<1> QED BY <1>1, <1>2, <1>3, FS_Subset

LEMMA NothingRead == <<>> \in Seq(Nat) /\ Sorted(<<>>) /\ ToSet(<<>>) = {} /\ DOMAIN <<>> = {}
BY DEF Sorted, ToSet

\* A load that begins, and one that is not under way.
LEMMA FreshRow ==
    ASSUME NEW L, NEW S, S \subseteq L, L \subseteq CandleRange,
           NEW r, r.pc \in {"idle", "read"}, r.cursor = 1, r.got = <<>>,
           r.imported \in BOOLEAN, r.before \subseteq S, r.imported => r.before = L
    PROVE  LoadInv(r, S, L)
<1>1. \A c \in r.before : ~(c < 1)
  <2> TAKE c \in r.before
  <2>1. c \in CandleRange
    OBVIOUS
  <2> QED BY <2>1, CandlesAssumption DEF CandleRange
<1> QED BY <1>1, NothingRead DEF LoadInv

\* What one loader does leaves the others what they have, and candles only come.
LEMMA OneLoads ==
    ASSUME CandlesInv, NEW l \in Loaders, NEW r, loader' = [loader EXCEPT ![l] = r],
           listed' = listed, stored \subseteq stored', stored' \subseteq listed,
           r \in LoaderRows(listed), LoadInv(r, stored', listed)
    PROVE  CandlesInv'
<1>1. loader' \in [Loaders -> LoaderRows(listed)]
  BY DEF CandlesInv
<1>2. ASSUME NEW m \in Loaders PROVE LoadInv(loader'[m], stored', listed)
  <2>1. CASE m = l
    BY <2>1 DEF CandlesInv
  <2>2. CASE m # l
    <3>1. loader'[m] = loader[m] /\ LoadInv(loader[m], stored, listed)
      BY <2>2 DEF CandlesInv
    <3> QED BY <3>1 DEF LoadInv
  <2> QED BY <2>1, <2>2
<1> QED BY <1>1, <1>2 DEF CandlesInv, CandleRange

\* A page put behind what was read before it.
LEMMA PageAppended ==
    ASSUME NEW s \in Seq(Nat), NEW p \in Seq(Nat), Sorted(s), Sorted(p), NEW cursor \in Nat,
           \A i \in DOMAIN s : s[i] < cursor, \A i \in DOMAIN p : p[i] >= cursor
    PROVE  s \o p \in Seq(Nat) /\ Sorted(s \o p) /\ ToSet(s \o p) = ToSet(s) \cup ToSet(p)
<1> DEFINE m == Len(s)
           n == Len(p)
           t == s \o p
<1>1. /\ m \in Nat /\ n \in Nat /\ DOMAIN s = 1..m /\ DOMAIN p = 1..n
      /\ t \in Seq(Nat) /\ DOMAIN t = 1..(m + n)
      /\ \A i \in 1..(m + n) : t[i] = IF i <= m THEN s[i] ELSE p[i - m]
  BY ConcatProperties
<1> HIDE DEF m, n, t
<1>2. \A i \in 1..m : i \in 1..(m + n) /\ t[i] = s[i] /\ s[i] \in Nat
  BY <1>1
<1>3. \A i \in 1..n : m + i \in 1..(m + n) /\ t[m + i] = p[i] /\ p[i] \in Nat
  <2> TAKE i \in 1..n
  <2>1. m + i \in 1..(m + n) /\ ~(m + i <= m) /\ (m + i) - m = i
    BY <1>1
  <2> QED BY <1>1, <2>1
<1>4. ASSUME NEW i \in 1..(m + n) PROVE i \in 1..m \/ \E j \in 1..n : i = m + j
  <2>1. CASE i <= m
    BY <1>1, <2>1
  <2>2. CASE ~(i <= m)
    <3>1. i - m \in 1..n /\ i = m + (i - m)
      BY <1>1, <2>2
    <3> QED BY <3>1
  <2> QED BY <2>1, <2>2
<1>5. Sorted(t)
  <2> SUFFICES ASSUME NEW i \in 1..(m + n), NEW j \in 1..(m + n), i < j PROVE t[i] < t[j]
    BY <1>1 DEF Sorted
  <2>1. CASE i \in 1..m /\ j \in 1..m
    BY <1>1, <1>2, <2>1 DEF Sorted
  <2>2. ASSUME i \in 1..m, NEW h \in 1..n, j = m + h PROVE t[i] < t[j]
    <3>1. t[i] < cursor /\ t[j] >= cursor /\ t[i] \in Nat /\ t[j] \in Nat
      BY <1>1, <1>2, <1>3, <2>2
    <3> QED BY <3>1
  <2>3. ASSUME NEW g \in 1..n, i = m + g, NEW h \in 1..n, j = m + h PROVE t[i] < t[j]
    <3>1. g < h
      BY <1>1, <2>3
    <3> QED BY <1>1, <1>3, <2>3, <3>1 DEF Sorted
  <2>4. ASSUME NEW g \in 1..n, i = m + g, j \in 1..m PROVE FALSE
    BY <1>1, <2>4
  <2> QED BY <1>4, <2>1, <2>2, <2>3, <2>4
<1>6. ToSet(t) = ToSet(s) \cup ToSet(p)
  <2>1. ASSUME NEW i \in 1..(m + n) PROVE t[i] \in ToSet(s) \cup ToSet(p)
    BY <1>1, <1>2, <1>3, <1>4 DEF ToSet
  <2>2. ToSet(s) \subseteq ToSet(t)
    BY <1>1, <1>2 DEF ToSet
  <2>3. ToSet(p) \subseteq ToSet(t)
    <3> SUFFICES ASSUME NEW i \in 1..n PROVE p[i] \in ToSet(t)
      BY <1>1 DEF ToSet
    <3>1. m + i \in DOMAIN t /\ t[m + i] = p[i]
      BY <1>1, <1>3
    <3> QED BY <3>1 DEF ToSet
  <2>4. ToSet(t) \subseteq ToSet(s) \cup ToSet(p)
    BY <1>1, <2>1 DEF ToSet
  <2> QED BY <2>2, <2>3, <2>4
<1> QED BY <1>1, <1>5, <1>6 DEF t

-----------------------------------------------------------------------------
(* The steps of a load *)

LEMMA CandlesInvInit == CandlesInit => CandlesInv
<1> SUFFICES ASSUME CandlesInit PROVE CandlesInv
  OBVIOUS
<1>1. listed \subseteq CandleRange /\ stored \subseteq listed
  BY DEF CandlesInit
<1>2. IdleLoader \in LoaderRows(listed) /\ LoadInv(IdleLoader, stored, listed)
  <2>1. IdleLoader \in LoaderRows(listed)
    BY NothingRead DEF IdleLoader, LoaderRows
  <2>2. /\ IdleLoader.pc \in {"idle", "read"} /\ IdleLoader.cursor = 1 /\ IdleLoader.got = <<>>
        /\ IdleLoader.imported \in BOOLEAN /\ IdleLoader.before \subseteq stored
        /\ IdleLoader.imported => IdleLoader.before = listed
    BY DEF IdleLoader
  <2> QED BY <1>1, <2>1, <2>2, FreshRow
<1> QED BY <1>1, <1>2 DEF CandlesInit, CandlesInv

LEMMA StartLoadKeeps == ASSUME CandlesInv, NEW l \in Loaders, StartLoad(l) PROVE CandlesInv'
<1> DEFINE r == [IdleLoader EXCEPT !.pc = "read", !.before = stored]
<1>1. stored \subseteq listed /\ listed \subseteq CandleRange
  BY DEF CandlesInv
<1>2. /\ r.pc = "read" /\ r.cursor = 1 /\ r.got = <<>> /\ r.imported = FALSE /\ r.before = stored
      /\ r \in LoaderRows(listed)
  BY <1>1, NothingRead DEF IdleLoader, LoaderRows
<1>3. LoadInv(r, stored, listed)
  <2>1. /\ r.pc \in {"idle", "read"} /\ r.imported \in BOOLEAN /\ r.before \subseteq stored
        /\ r.imported => r.before = listed
    BY <1>2
  <2> HIDE DEF r
  <2> QED BY <1>1, <1>2, <2>1, FreshRow
<1> HIDE DEF r
<1>4. loader' = [loader EXCEPT ![l] = r] /\ UNCHANGED <<listed, stored>>
  BY DEF StartLoad, r
<1> QED BY <1>1, <1>2, <1>3, <1>4, OneLoads

LEMMA BackToIdle ==
    ASSUME CandlesInv, NEW l \in Loaders, loader' = [loader EXCEPT ![l] = IdleLoader],
           UNCHANGED <<listed, stored>>
    PROVE  CandlesInv'
<1>1. stored \subseteq listed /\ listed \subseteq CandleRange
  BY DEF CandlesInv
<1>2. IdleLoader \in LoaderRows(listed) /\ LoadInv(IdleLoader, stored, listed)
  <2>1. IdleLoader \in LoaderRows(listed)
    BY NothingRead DEF IdleLoader, LoaderRows
  <2>2. /\ IdleLoader.pc \in {"idle", "read"} /\ IdleLoader.cursor = 1 /\ IdleLoader.got = <<>>
        /\ IdleLoader.imported \in BOOLEAN /\ IdleLoader.before \subseteq stored
        /\ IdleLoader.imported => IdleLoader.before = listed
    BY DEF IdleLoader
  <2> QED BY <1>1, <2>1, <2>2, FreshRow
<1> QED BY <1>1, <1>2, OneLoads

LEMMA StartImportKeeps == ASSUME CandlesInv, NEW l \in Loaders, StartImport(l) PROVE CandlesInv'
<1> DEFINE q == loader[l]
           r == [q EXCEPT !.pc = "import", !.cursor = 1]
<1>1. q \in LoaderRows(listed) /\ LoadInv(q, stored, listed) /\ stored \subseteq listed
  BY DEF CandlesInv
<1>2. r \in LoaderRows(listed) /\ loader' = [loader EXCEPT ![l] = r]
  BY <1>1 DEF StartImport, LoaderRows, CandlesInv
<1>3. \A c \in listed : ~(c < 1)
  BY ListedIsFinite
<1>4. LoadInv(r, stored, listed)
  BY <1>1, <1>3 DEF LoadInv, LoaderRows
<1> HIDE DEF r
<1> QED BY <1>1, <1>2, <1>4, OneLoads DEF StartImport

LEMMA ReadCandlesKeeps == ASSUME CandlesInv, NEW l \in Loaders, ReadCandles(l) PROVE CandlesInv'
<1> DEFINE q == loader[l]
           p == Page(stored, q.cursor, ReadPage)
           more == Len(p) = ReadPage /\ Last(p) + 1 <= RangeEnd
           r == [q EXCEPT !.got = @ \o p, !.cursor = IF more THEN Last(p) + 1 ELSE @,
                          !.pc = IF more THEN "read" ELSE "loaded"]
<1>1. q \in LoaderRows(listed) /\ LoadInv(q, stored, listed) /\ stored \subseteq listed /\ q.pc = "read"
  BY DEF CandlesInv, ReadCandles
<1>2. loader' = [loader EXCEPT ![l] = r] /\ UNCHANGED <<listed, stored>>
  BY DEF ReadCandles, CandlesInv
<1>3. q.cursor \in Nat /\ q.got \in Seq(Nat) /\ q.imported \in BOOLEAN /\ q.before \subseteq listed
  BY <1>1 DEF LoaderRows
<1>4. IsFiniteSet(stored) /\ \A c \in stored : c \in Nat /\ c >= 1 /\ c <= RangeEnd
  BY ListedIsFinite
<1>5. /\ p \in Seq(stored) /\ Sorted(p) /\ \A i \in DOMAIN p : p[i] >= q.cursor
      /\ Len(p) # ReadPage => \A c \in stored : c >= q.cursor => c \in ToSet(p)
      /\ Len(p) = ReadPage =>
            /\ Last(p) \in ToSet(p)
            /\ \A i \in DOMAIN p : p[i] <= Last(p)
            /\ \A c \in stored : c >= q.cursor /\ c <= Last(p) => c \in ToSet(p)
  <2>1. p = Page(stored, q.cursor, ReadPage) /\ ReadPage \in Nat \ {0}
    BY CandlesAssumption
  <2>2. IsFiniteSet(stored) /\ \A c \in stored : c \in Nat
    BY <1>4
  <2> HIDE DEF p
  <2>3. FirstOf(p, stored, q.cursor, ReadPage)
    BY <1>3, <2>1, <2>2, PageIs
  <2> QED BY <2>3 DEF FirstOf
<1> HIDE DEF p
<1>6. ToSet(p) \subseteq stored
  BY <1>5 DEF ToSet
<1>7. p \in Seq(Nat)
  BY <1>4, <1>5, SeqMonotonic
<1>8. q.got \o p \in Seq(Nat) /\ Sorted(q.got \o p) /\ ToSet(q.got \o p) = ToSet(q.got) \cup ToSet(p)
  BY <1>1, <1>3, <1>5, <1>7, PageAppended DEF LoadInv
<1> DEFINE t == q.got \o p
<1>9. more => Last(p) \in Nat
  BY <1>4, <1>5, <1>6
<1>10. /\ r.got = t /\ r.imported = q.imported /\ r.before = q.before
       /\ r.cursor = (IF more THEN Last(p) + 1 ELSE q.cursor)
       /\ r.pc = (IF more THEN "read" ELSE "loaded")
       /\ t \in Seq(Nat) /\ r.cursor \in Nat => r \in LoaderRows(listed)
  BY <1>1 DEF LoaderRows
<1> HIDE DEF r, q, t
<1>11. CASE more
  <2>1. \A i \in DOMAIN t : t[i] < r.cursor
    <3> TAKE i \in DOMAIN t
    <3>1. t[i] \in ToSet(q.got) \/ t[i] \in ToSet(p)
      BY <1>8 DEF ToSet, t
    <3>2. CASE t[i] \in ToSet(q.got)
      <4>1. t[i] < q.cursor /\ t[i] \in Nat
        BY <1>1, <1>3, <3>2 DEF LoadInv, ToSet
      <4>2. PICK j \in DOMAIN p : Last(p) = p[j]
        BY <1>5, <1>11 DEF ToSet
      <4>3. q.cursor <= Last(p)
        BY <1>5, <4>2, <1>3, <1>9, <1>11
      <4> QED BY <1>3, <1>9, <1>10, <1>11, <4>1, <4>3
    <3>3. CASE t[i] \in ToSet(p)
      <4>1. t[i] <= Last(p) /\ t[i] \in Nat
        BY <1>4, <1>5, <1>6, <1>11, <3>3 DEF ToSet
      <4> QED BY <1>9, <1>10, <1>11, <4>1
    <3> QED BY <3>1, <3>2, <3>3
  <2>2. ASSUME NEW c \in q.before, c < r.cursor PROVE c \in ToSet(t)
    <3>1. c \in stored /\ c \in Nat
      BY <1>1, <1>4 DEF LoadInv
    <3>2. CASE c < q.cursor
      BY <1>1, <1>8, <3>2 DEF LoadInv, t
    <3>3. CASE ~(c < q.cursor)
      <4>1. c >= q.cursor /\ c <= Last(p)
        BY <1>3, <1>9, <1>10, <1>11, <2>2, <3>1, <3>3
      <4> QED BY <1>5, <1>8, <1>11, <3>1, <4>1 DEF t
    <3> QED BY <3>2, <3>3
  <2>3. r \in LoaderRows(listed)
    <3>1. r.cursor \in Nat
      BY <1>9, <1>10, <1>11
    <3> QED BY <1>8, <1>10, <3>1 DEF t
  <2>4. LoadInv(r, stored, listed)
    BY <1>1, <1>6, <1>8, <1>10, <1>11, <2>1, <2>2 DEF LoadInv, t
  <2> QED BY <1>1, <1>2, <2>3, <2>4, OneLoads
<1>12. CASE ~more
  <2>1. ASSUME NEW c \in stored, c >= q.cursor PROVE c \in ToSet(p)
    <3>1. CASE Len(p) # ReadPage
      BY <1>5, <2>1, <3>1
    <3>2. CASE Len(p) = ReadPage
      <4>1. Last(p) \in Nat /\ ~(Last(p) + 1 <= RangeEnd)
        BY <1>4, <1>5, <1>6, <1>12, <3>2
      <4>2. c <= Last(p)
        BY <1>4, <4>1, CandlesAssumption
      <4> QED BY <1>5, <2>1, <3>2, <4>2
    <3> QED BY <3>1, <3>2
  <2>2. ASSUME NEW c \in q.before PROVE c \in ToSet(t)
    <3>1. c \in stored /\ c \in Nat
      BY <1>1, <1>4 DEF LoadInv
    <3>2. CASE c < q.cursor
      BY <1>1, <1>8, <3>2 DEF LoadInv, t
    <3>3. CASE ~(c < q.cursor)
      <4>1. c >= q.cursor
        BY <1>3, <3>1, <3>3
      <4> QED BY <1>8, <2>1, <3>1, <4>1 DEF t
    <3> QED BY <3>2, <3>3
  <2>3. r \in LoaderRows(listed)
    BY <1>3, <1>8, <1>10, <1>12 DEF t
  <2>4. LoadInv(r, stored, listed)
    BY <1>1, <1>6, <1>8, <1>10, <1>12, <2>2 DEF LoadInv, t
  <2> QED BY <1>1, <1>2, <2>3, <2>4, OneLoads
<1> QED BY <1>11, <1>12

LEMMA ImportCandlesKeeps == ASSUME CandlesInv, NEW l \in Loaders, ImportCandles(l) PROVE CandlesInv'
<1> DEFINE q == loader[l]
           p == Page(listed, q.cursor, ImportPage)
           more == Len(p) = ImportPage /\ Last(p) + 1 <= RangeEnd
<1>1. /\ q \in LoaderRows(listed) /\ LoadInv(q, stored, listed) /\ stored \subseteq listed /\ q.pc = "import"
      /\ listed \subseteq CandleRange
  BY DEF CandlesInv, ImportCandles
<1>2. /\ stored' = stored \cup ToSet(p) /\ UNCHANGED listed
      /\ loader' = [loader EXCEPT
            ![l] = IF more THEN [@ EXCEPT !.cursor = Last(p) + 1]
                   ELSE [IdleLoader EXCEPT !.pc = "read", !.imported = TRUE, !.before = stored']]
  BY DEF ImportCandles
<1>3. q.cursor \in Nat
  BY <1>1 DEF LoaderRows
<1>4. IsFiniteSet(listed) /\ \A c \in listed : c \in Nat /\ c >= 1 /\ c <= RangeEnd
  BY ListedIsFinite
<1>5. /\ p \in Seq(listed)
      /\ Len(p) # ImportPage => \A c \in listed : c >= q.cursor => c \in ToSet(p)
      /\ Len(p) = ImportPage =>
            /\ Last(p) \in ToSet(p)
            /\ \A c \in listed : c >= q.cursor /\ c <= Last(p) => c \in ToSet(p)
  <2>1. p = Page(listed, q.cursor, ImportPage) /\ ImportPage \in Nat \ {0}
    BY CandlesAssumption
  <2>2. IsFiniteSet(listed) /\ \A c \in listed : c \in Nat
    BY <1>4
  <2> HIDE DEF p
  <2>3. FirstOf(p, listed, q.cursor, ImportPage)
    BY <1>3, <2>1, <2>2, PageIs
  <2> QED BY <2>3 DEF FirstOf
<1> HIDE DEF p
<1>6. ToSet(p) \subseteq listed
  BY <1>5 DEF ToSet
<1>7. stored \subseteq stored' /\ stored' \subseteq listed
  BY <1>1, <1>2, <1>6
<1>8. CASE more
  <2> DEFINE r == [q EXCEPT !.cursor = Last(p) + 1]
  <2>1. loader' = [loader EXCEPT ![l] = r]
    BY <1>2, <1>8 DEF CandlesInv
  <2>2. Last(p) \in Nat
    BY <1>4, <1>5, <1>6, <1>8
  <2>3. r \in LoaderRows(listed)
    BY <1>1, <2>2 DEF LoaderRows
  <2>4. /\ r.got = q.got /\ r.imported = q.imported /\ r.before = q.before /\ r.pc = "import"
        /\ r.cursor = Last(p) + 1
    BY <1>1 DEF LoaderRows
  <2> HIDE DEF r
  <2>5. ASSUME NEW c \in listed, c < r.cursor PROVE c \in stored'
    <3>1. CASE c < q.cursor
      BY <1>1, <1>7, <3>1 DEF LoadInv
    <3>2. CASE ~(c < q.cursor)
      <4>1. c >= q.cursor /\ c <= Last(p)
        BY <1>3, <1>4, <2>2, <2>4, <2>5, <3>2
      <4> QED BY <1>2, <1>5, <1>8, <4>1
    <3> QED BY <3>1, <3>2
  <2>6. LoadInv(r, stored', listed)
    BY <1>1, <1>7, <2>4, <2>5 DEF LoadInv
  <2> QED BY <1>2, <1>7, <2>1, <2>3, <2>6, OneLoads
<1>9. CASE ~more
  <2> DEFINE r == [IdleLoader EXCEPT !.pc = "read", !.imported = TRUE, !.before = listed]
  <2>1. ASSUME NEW c \in listed, c >= q.cursor PROVE c \in ToSet(p)
    <3>1. CASE Len(p) # ImportPage
      BY <1>5, <2>1, <3>1
    <3>2. CASE Len(p) = ImportPage
      <4>1. Last(p) \in Nat /\ ~(Last(p) + 1 <= RangeEnd)
        BY <1>4, <1>5, <1>6, <1>9, <3>2
      <4>2. c <= Last(p)
        BY <1>4, <4>1, CandlesAssumption
      <4> QED BY <1>5, <2>1, <3>2, <4>2
    <3> QED BY <3>1, <3>2
  <2>2. ASSUME NEW c \in listed PROVE c \in stored'
    <3>1. CASE c < q.cursor
      BY <1>1, <1>7, <3>1 DEF LoadInv
    <3>2. CASE ~(c < q.cursor)
      <4>1. c >= q.cursor
        BY <1>3, <1>4, <3>2
      <4> QED BY <1>2, <2>1, <4>1
    <3> QED BY <3>1, <3>2
  <2>3. stored' = listed
    BY <1>7, <2>2
  <2>4. loader' = [loader EXCEPT ![l] = r]
    BY <1>2, <1>9, <2>3
  <2>5. r \in LoaderRows(listed) /\ LoadInv(r, stored', listed)
    <3>1. /\ r.pc = "read" /\ r.cursor = 1 /\ r.got = <<>> /\ r.imported = TRUE /\ r.before = listed
          /\ r \in LoaderRows(listed)
      BY NothingRead DEF IdleLoader, LoaderRows
    <3>2. /\ r.pc \in {"idle", "read"} /\ r.imported \in BOOLEAN /\ r.before \subseteq listed
          /\ r.imported => r.before = listed
      BY <3>1
    <3>3. listed \subseteq listed
      OBVIOUS
    <3> HIDE DEF r
    <3>4. LoadInv(r, listed, listed)
      BY <1>1, <3>1, <3>2, <3>3, FreshRow
    <3> QED BY <2>3, <3>1, <3>4
  <2> HIDE DEF r
  <2> QED BY <1>2, <1>7, <2>4, <2>5, OneLoads
<1> QED BY <1>8, <1>9

LEMMA CandlesInvNext == CandlesInv /\ [CandlesNext]_candleVars => CandlesInv'
<1> SUFFICES ASSUME CandlesInv, [CandlesNext]_candleVars PROVE CandlesInv'
  OBVIOUS
<1>1. ASSUME NEW l \in Loaders, FailLoad(l) PROVE CandlesInv'
  BY <1>1, BackToIdle DEF FailLoad
<1>2. ASSUME NEW l \in Loaders, SimulateRange(l) PROVE CandlesInv'
  BY <1>2, BackToIdle DEF SimulateRange
<1>3. CASE UNCHANGED candleVars
  BY <1>3 DEF candleVars, CandlesInv, LoadInv, LoaderRows, CandleRange
<1> QED BY <1>1, <1>2, <1>3, StartLoadKeeps, ReadCandlesKeeps, StartImportKeeps, ImportCandlesKeeps
        DEF CandlesNext

\* A load that ended misses none of the candles stored when it began, whatever runs
\* import and read the same range at the same time, and however many pages it takes.
THEOREM LoadsMissNothing == CandlesSpec => []LoadMissesNothing
<1>1. CandlesInv => LoadMissesNothing
  <2> SUFFICES ASSUME CandlesInv, NEW l \in Loaders, loader[l].pc = "loaded"
               PROVE  LET got == loader[l].got
                      IN /\ \A i, j \in DOMAIN got : i < j => got[i] < got[j]
                         /\ loader[l].before \subseteq ToSet(got)
                         /\ loader[l].imported => ToSet(got) = listed
    BY DEF LoadMissesNothing
  <2>1. LoadInv(loader[l], stored, listed) /\ stored \subseteq listed
    BY DEF CandlesInv
  <2> QED BY <2>1 DEF LoadInv, Sorted
<1> QED BY <1>1, CandlesInvInit, CandlesInvNext, PTL DEF CandlesSpec

(***************************************************************************)
(* The report of a backtest.                                                 *)
(***************************************************************************)
\* BestUntil and UnderWater of any list of points.
Best(s, i) == Max({Capital} \cup {s[j] : j \in 1..i})
Under(s, i) == s[i] < Best(s, i)

LEMMA PointsArePositive ==
    ASSUME NEW s \in Seq(Equities)
    PROVE  /\ Len(s) \in Nat /\ DOMAIN s = 1..Len(s)
           /\ \A i \in 1..Len(s) : s[i] \in Nat /\ s[i] > 0
<1>1. \A i \in 1..Len(s) : s[i] \in Equities
  OBVIOUS
<1>2. \A e \in Equities : e \in Nat /\ e > 0
  BY ReportAssumption
<1> QED BY <1>1, <1>2

LEMMA BestIs ==
    ASSUME NEW s \in Seq(Equities), NEW i \in 0..Len(s)
    PROVE  /\ Best(s, i) \in Nat /\ Best(s, i) > 0 /\ Capital <= Best(s, i)
           /\ \A j \in 1..i : s[j] <= Best(s, i)
           /\ Best(s, i) = Capital \/ \E j \in 1..i : Best(s, i) = s[j]
<1> DEFINE V == {s[j] : j \in 1..i}
           T == {Capital} \cup V
<1>1. i \in Nat /\ 1..i \subseteq 1..Len(s)
  BY PointsArePositive
<1>2. \A j \in 1..i : s[j] \in Nat /\ s[j] > 0
  BY <1>1, PointsArePositive
<1>3. Capital \in Nat /\ Capital > 0
  BY ReportAssumption
<1>4. IsFiniteSet(V)
  <2> DEFINE I == 1..i
  <2>1. IsFiniteSet(I)
    BY <1>1, FS_Interval
  <2> HIDE DEF I
  <2>2. IsFiniteSet({s[j] : j \in I})
    BY <2>1, FiniteValues
  <2> QED BY <2>2 DEF I
<1>5. \A x \in T : x \in Nat
  BY <1>2, <1>3
<1>6. IsFiniteSet(T)
  <2>1. IsFiniteSet({Capital})
    BY FS_Singleton
  <2> HIDE DEF V
  <2> QED BY <1>4, <2>1, FS_Union
<1>7. T # {} /\ Best(s, i) = Max(T)
  BY DEF Best
<1>8. Best(s, i) \in T /\ \A x \in T : Best(s, i) >= x
  <2> HIDE DEF T
  <2> QED BY <1>5, <1>6, <1>7, Extremes
<1>9. \A j \in 1..i : s[j] \in T
  OBVIOUS
<1>10. Capital \in T
  OBVIOUS
<1>11. Best(s, i) \in Nat /\ Capital <= Best(s, i) /\ \A j \in 1..i : s[j] <= Best(s, i)
  <2>1. Best(s, i) \in Nat
    BY <1>5, <1>8
  <2>2. Best(s, i) >= Capital
    BY <1>8, <1>10
  <2>3. ASSUME NEW j \in 1..i PROVE s[j] <= Best(s, i)
    <3>1. Best(s, i) >= s[j]
      BY <1>8, <1>9
    <3> QED BY <1>2, <2>1, <3>1
  <2> QED BY <1>3, <2>1, <2>2, <2>3
<1>12. Best(s, i) = Capital \/ \E j \in 1..i : Best(s, i) = s[j]
  BY <1>8
<1> QED BY <1>3, <1>11, <1>12

\* It is the only such value.
LEMMA BestOnly ==
    ASSUME NEW s \in Seq(Equities), NEW i \in 0..Len(s), NEW b \in Nat, Capital <= b,
           \A j \in 1..i : s[j] <= b, b = Capital \/ \E j \in 1..i : b = s[j]
    PROVE  Best(s, i) = b
<1>1. /\ Best(s, i) \in Nat /\ Capital <= Best(s, i)
      /\ \A j \in 1..i : s[j] <= Best(s, i)
      /\ Best(s, i) = Capital \/ \E j \in 1..i : Best(s, i) = s[j]
  BY BestIs
<1>2. Best(s, i) <= b
  BY <1>1
<1>3. b <= Best(s, i)
  BY <1>1
<1> QED BY <1>1, <1>2, <1>3

\* What another point changes: nothing of the points before it.
NextList(s, t, e) ==
    /\ t \in Seq(Equities) /\ Len(t) = Len(s) + 1 /\ t[Len(s) + 1] = e
    /\ \A i \in 1..Len(s) : t[i] = s[i]
    /\ \A i \in 0..Len(s) : Best(t, i) = Best(s, i)
    /\ \A i \in 1..Len(s) : Under(t, i) <=> Under(s, i)
    /\ Best(t, Len(s) + 1) = Larger(Best(s, Len(s)), e)
    /\ Under(t, Len(s) + 1) <=> e < Best(s, Len(s))

LEMMA PointAdded ==
    ASSUME NEW s \in Seq(Equities), NEW e \in Equities, NEW t, t = Append(s, e)
    PROVE  NextList(s, t, e)
<1> DEFINE n == Len(s)
<1>1. /\ t \in Seq(Equities) /\ Len(t) = n + 1 /\ t[n + 1] = e /\ n \in Nat
      /\ \A i \in 1..n : t[i] = s[i]
  BY AppendProperties
<1>2. e \in Nat /\ e > 0
  BY ReportAssumption
<1>3. ASSUME NEW i \in 0..n PROVE Best(t, i) = Best(s, i)
  <2>1. \A j \in 1..i : t[j] = s[j]
    BY <1>1
  <2>2. {t[j] : j \in 1..i} = {s[j] : j \in 1..i}
    BY <2>1
  <2> QED BY <2>2 DEF Best
<1>4. \A i \in 1..n : Under(t, i) <=> Under(s, i)
  <2> TAKE i \in 1..n
  <2>1. i \in 0..n
    BY <1>1
  <2> QED BY <1>1, <1>3, <2>1 DEF Under
<1>5. Best(t, n + 1) = Larger(Best(s, n), e)
  <2> DEFINE b == Larger(Best(s, n), e)
  <2>1. /\ Best(s, n) \in Nat /\ Capital <= Best(s, n)
        /\ \A j \in 1..n : s[j] <= Best(s, n)
        /\ Best(s, n) = Capital \/ \E j \in 1..n : Best(s, n) = s[j]
    <3>1. n \in 0..Len(s)
      BY <1>1
    <3> QED BY <3>1, BestIs
  <2>2. b \in Nat /\ b >= Best(s, n) /\ b >= e /\ (b = Best(s, n) \/ b = e)
    BY <1>2, <2>1 DEF Larger
  <2>3. 1..(n + 1) = 1..n \cup {n + 1}
    BY <1>1
  <2>4. \A j \in 1..n : s[j] \in Nat
    BY PointsArePositive
  <2> HIDE DEF b, n
  <2>5. Capital \in Nat
    BY ReportAssumption
  <2>6. Capital <= b
    BY <2>1, <2>2, <2>5
  <2>7. \A j \in 1..(n + 1) : t[j] <= b
    <3>1. ASSUME NEW j \in 1..n PROVE t[j] <= b
      <4>1. t[j] = s[j] /\ s[j] <= Best(s, n) /\ s[j] \in Nat
        BY <1>1, <2>1, <2>4
      <4> QED BY <2>1, <2>2, <4>1
    <3>2. t[n + 1] <= b
      BY <1>1, <1>2, <2>2
    <3> QED BY <2>3, <3>1, <3>2
  <2>8. b = Capital \/ \E j \in 1..(n + 1) : b = t[j]
    <3>1. CASE b = e
      BY <1>1, <2>3, <3>1
    <3>2. CASE b = Best(s, n)
      BY <1>1, <2>1, <2>3, <3>2
    <3> QED BY <2>2, <3>1, <3>2
  <2>9. n + 1 \in 0..Len(t)
    BY <1>1
  <2>10. Best(t, n + 1) = b
    BY <1>1, <2>2, <2>6, <2>7, <2>8, <2>9, BestOnly
  <2> QED BY <2>10 DEF b
<1>6. Under(t, n + 1) <=> e < Best(s, n)
  <2>1. Best(s, n) \in Nat
    <3>1. n \in 0..Len(s)
      BY <1>1
    <3> QED BY <3>1, BestIs
  <2> QED BY <1>1, <1>2, <1>5, <2>1 DEF Under, Larger
<1> QED BY <1>1, <1>3, <1>4, <1>5, <1>6 DEF NextList

-----------------------------------------------------------------------------
(* Drawdown *)

LEMMA WholePart ==
    ASSUME NEW a \in Nat, NEW b \in Nat, b > 0
    PROVE  /\ a \div b \in Nat
           /\ b * (a \div b) <= a
           /\ \A d \in Nat : b * d <= a => d <= a \div b
OBVIOUS

\* The loss from a higher peak is the deeper one.
LEMMA DeeperFromHigher ==
    ASSUME NEW p \in Nat, p > 0, NEW q \in Nat, NEW e \in Nat, e <= p, p <= q
    PROVE  Drawdown(p, e) \in Nat /\ Drawdown(q, e) \in Nat /\ Drawdown(p, e) <= Drawdown(q, e)
<1> DEFINE a == (p - e) * 100
           b == (q - e) * 100
           d == a \div p
<1>1. a \in Nat /\ b \in Nat /\ q > 0
  OBVIOUS
<1>2. d \in Nat /\ p * d <= a
  <2> HIDE DEF a
  <2> QED BY <1>1, WholePart
<1>3. d <= 100
  <2>1. a <= p * 100
    OBVIOUS
  <2>2. ASSUME ~(d <= 100) PROVE FALSE
    <3> HIDE DEF d, a
    <3>1. 101 <= d
      BY <1>2, <2>2
    <3>2. p * 101 <= p * d
      BY <1>2, <3>1, KeepsOrder
    <3>3. p * 101 = p * 100 + p /\ p * d \in Nat
      BY <1>2
    <3> QED BY <1>1, <1>2, <2>1, <3>2, <3>3
  <2> QED BY <2>2
<1>4. q * d <= b
  <2> DEFINE k == 100 - d
  <2>1. k \in Nat
    BY <1>2, <1>3
  <2> HIDE DEF d
  <2>2. p * d = 100 * p - k * p /\ q * d = 100 * q - k * q
    BY <1>2
  <2> HIDE DEF k
  <2>3. k * p <= k * q
    BY <2>1, KeepsOrder
  <2>4. k * p \in Nat /\ k * q \in Nat
    BY <2>1
  <2>5. 100 * e <= k * p
    BY <1>2, <2>2, <2>4
  <2> QED BY <2>2, <2>3, <2>4, <2>5
<1>5. b \div q \in Nat /\ d <= b \div q
  <2> HIDE DEF b, d
  <2> QED BY <1>1, <1>2, <1>4, WholePart
<1> QED BY <1>2, <1>5 DEF Drawdown

-----------------------------------------------------------------------------
(* What the scan knows of the points *)

LossAt(s, i) == Drawdown(Best(s, i), s[i])

DrawdownOK(d, s) ==
    /\ \A i \in 1..Len(s) : LossAt(s, i) <= d
    /\ d = 0 \/ \E i \in 1..Len(s) : d = LossAt(s, i)

SinceOK(since, s) ==
    IF since = NotUnderWater THEN Len(s) = 0 \/ ~Under(s, Len(s))
    ELSE since \in 1..Len(s) /\ \A k \in since..Len(s) : Under(s, k)

\* From i the points are under water up to the point before e.
Spell(s, i, e) ==
    /\ i \in 1..Len(s) /\ e \in 1..Len(s) /\ i < e /\ ~Under(s, e)
    /\ \A k \in i..(e - 1) : Under(s, k)

SpellsOK(longest, s) ==
    /\ \A i, e \in 1..Len(s) : Spell(s, i, e) => e - i <= longest
    /\ longest = 0 \/ \E i, e \in 1..Len(s) : Spell(s, i, e) /\ longest = e - i

RecoveredIn(s) == {i \in 2..Len(s) : Under(s, i - 1) /\ ~Under(s, i)}
CameBack(s) == {i \in 1..Len(s) : Under(s, i) /\ \E j \in RecoveredIn(s) : i < j}

\* Every point under water that is not in the present spell came back.
BackOK(since, s) ==
    \A i \in 1..Len(s) : Under(s, i) /\ (since = NotUnderWater \/ i < since) => i \in CameBack(s)

ReportInv ==
    /\ points \in Seq(Equities) /\ scan \in ScanRows
    /\ scan.peak = Best(points, Len(points))
    /\ DrawdownOK(scan.drawdown, points)
    /\ SinceOK(scan.since, points)
    /\ SpellsOK(scan.longest, points)
    /\ scan.recoveries = Cardinality(RecoveredIn(points))
    /\ scan.recovered = Cardinality(CameBack(points))
    /\ BackOK(scan.since, points)

LEMMA ReportInvInit == ReportInit => ReportInv
<1> SUFFICES ASSUME ReportInit PROVE ReportInv
  OBVIOUS
<1>1. points = <<>> /\ points \in Seq(Equities) /\ Len(points) = 0 /\ 1..Len(points) = {}
  BY DEF ReportInit
<1>2. scan \in ScanRows /\ scan.since = NotUnderWater
  BY ReportAssumption DEF ReportInit, StartScan, ScanRows, NotUnderWater
<1>3. scan.peak = Best(points, Len(points))
  <2>1. 0 \in 0..Len(points) /\ 1..0 = {}
    BY <1>1
  <2>2. Capital \in Nat /\ Capital <= Capital
    BY ReportAssumption
  <2>3. Best(points, 0) = Capital
    BY <1>1, <2>1, <2>2, BestOnly
  <2> QED BY <1>1, <2>3 DEF ReportInit, StartScan
<1>4. RecoveredIn(points) = {} /\ CameBack(points) = {}
  BY <1>1 DEF RecoveredIn, CameBack
<1>5. Cardinality({}) = 0
  BY FS_EmptySet
<1> QED BY <1>1, <1>2, <1>3, <1>4, <1>5
        DEF ReportInit, ReportInv, StartScan, DrawdownOK, SinceOK, SpellsOK, BackOK

-----------------------------------------------------------------------------
(* One more point *)

\* A point above the best so far ends the time under water, any other begins or
\* prolongs it.
NextScan(old, new, n, e) ==
    /\ new \in ScanRows
    /\ new.peak = (IF e < old.peak THEN old.peak ELSE e)
    /\ new.drawdown = (IF e < old.peak THEN Larger(old.drawdown, Drawdown(old.peak, e)) ELSE old.drawdown)
    /\ new.since = (IF e < old.peak THEN IF old.since = NotUnderWater THEN n + 1 ELSE old.since
                    ELSE NotUnderWater)
    /\ e < old.peak \/ old.since = NotUnderWater =>
           new.longest = old.longest /\ new.recovered = old.recovered /\ new.recoveries = old.recoveries
    /\ ~(e < old.peak) /\ old.since # NotUnderWater =>
           /\ new.longest = Larger(old.longest, n + 1 - old.since)
           /\ new.recovered = old.recovered + (n + 1 - old.since)
           /\ new.recoveries = old.recoveries + 1

LEMMA ScanIs ==
    ASSUME scan \in ScanRows, NEW e \in Nat, NEW n \in Nat, NEW now, now = n + 1,
           scan' = AfterPoint(e, now),
           scan.peak > 0, scan.since # NotUnderWater => scan.since \in 1..n
    PROVE  NextScan(scan, scan', n, e)
<1> DEFINE r == scan
<1>1. /\ r \in ScanRows /\ r.peak \in Nat /\ r.drawdown \in Nat /\ r.since \in Int /\ r.longest \in Nat
      /\ r.recovered \in Nat /\ r.recoveries \in Nat
  BY DEF ScanRows
<1>2. Regains(e) <=> ~(e < r.peak)
  BY <1>1 DEF Regains
<1>3. e < r.peak => Drawdown(r.peak, e) \in Nat /\ Larger(r.drawdown, Drawdown(r.peak, e)) \in Nat
  <2>1. e < r.peak => Drawdown(r.peak, e) \in Nat
    BY <1>1, DeeperFromHigher
  <2> QED BY <1>1, <2>1 DEF Larger
<1>4. r.since # NotUnderWater => n + 1 - r.since \in Nat
  BY <1>1
<1>5. NotUnderWater \in Int
  BY DEF NotUnderWater
<1>6. CASE ~(e < scan.peak) /\ scan.since # NotUnderWater
  <2> DEFINE d == now - scan.since
             l == Larger(scan.longest, d)
             b == scan.recovered + d
             c == scan.recoveries + 1
  <2>1. l \in Nat /\ b \in Nat /\ c \in Nat
    BY <1>1, <1>4, <1>6 DEF Larger
  <2>2. scan' = [scan EXCEPT !.peak = e, !.since = NotUnderWater, !.longest = l, !.recovered = b,
                             !.recoveries = c]
    <3> DEFINE above == [scan EXCEPT !.peak = e, !.since = NotUnderWater]
    <3>1. scan' = [above EXCEPT !.longest = Larger(@, d), !.recovered = @ + d, !.recoveries = @ + 1]
      BY <1>2, <1>6, Zenon DEF AfterPoint
    <3>2. above.longest = scan.longest /\ above.recovered = scan.recovered
          /\ above.recoveries = scan.recoveries
      BY <1>1 DEF ScanRows
    <3> HIDE DEF d
    <3>3. scan' = [above EXCEPT !.longest = l, !.recovered = b, !.recoveries = c]
      BY <1>1, <3>1, <3>2 DEF ScanRows
    <3> HIDE DEF l, b, c
    <3> QED BY <1>1, <3>3 DEF ScanRows
  <2> HIDE DEF d, l, b, c
  <2>3. scan' \in ScanRows /\ scan'.peak = e /\ scan'.since = NotUnderWater
        /\ scan'.drawdown = scan.drawdown /\ scan'.longest = l /\ scan'.recovered = b
        /\ scan'.recoveries = c
    BY <1>1, <1>5, <2>1, <2>2 DEF ScanRows
  <2> QED BY <1>6, <2>3 DEF NextScan, l, b, c, d
<1>7. CASE ~(e < scan.peak) /\ scan.since = NotUnderWater
  <2>1. scan' = [scan EXCEPT !.peak = e, !.since = NotUnderWater]
    BY <1>1, <1>2, <1>7 DEF AfterPoint
  <2>2. scan' \in ScanRows /\ scan'.peak = e /\ scan'.since = NotUnderWater
        /\ scan'.drawdown = scan.drawdown /\ scan'.longest = scan.longest
        /\ scan'.recovered = scan.recovered /\ scan'.recoveries = scan.recoveries
    BY <1>1, <1>5, <2>1 DEF ScanRows
  <2> QED BY <1>7, <2>2 DEF NextScan
<1>8. CASE e < scan.peak
  <2> DEFINE d == Larger(scan.drawdown, Drawdown(scan.peak, e))
             s == IF scan.since = NotUnderWater THEN n + 1 ELSE scan.since
  <2>1. d \in Nat /\ s \in Int
    BY <1>1, <1>3, <1>8
  <2>2. scan' = [scan EXCEPT !.drawdown = d, !.since = s]
    <3>1. CASE scan.since = NotUnderWater
      BY <1>1, <1>2, <1>8, <3>1 DEF AfterPoint, ScanRows
    <3>2. CASE scan.since # NotUnderWater
      <4>1. scan' = [scan EXCEPT !.drawdown = d]
        BY <1>1, <1>2, <1>8, <3>2 DEF AfterPoint, ScanRows
      <4> HIDE DEF d
      <4>2. [scan EXCEPT !.drawdown = d] = [scan EXCEPT !.drawdown = d, !.since = scan.since]
        BY <1>1 DEF ScanRows
      <4> QED BY <3>2, <4>1, <4>2
    <3> QED BY <3>1, <3>2
  <2> HIDE DEF d, s
  <2>3. scan' \in ScanRows /\ scan'.peak = scan.peak /\ scan'.since = s
        /\ scan'.drawdown = d /\ scan'.longest = scan.longest
        /\ scan'.recovered = scan.recovered /\ scan'.recoveries = scan.recoveries
    BY <1>1, <2>1, <2>2 DEF ScanRows
  <2> QED BY <1>8, <2>3 DEF NextScan, d, s
<1> QED BY <1>6, <1>7, <1>8

LEMMA NextPointIs ==
    ASSUME ReportInv, NEW e \in Equities, NextPoint(e)
    PROVE  /\ NextScan(scan, scan', Len(points), e) /\ NextList(points, points', e)
           /\ Len(points) \in Nat /\ e \in Nat /\ e > 0
           /\ scan.peak \in Nat /\ scan.peak > 0 /\ scan.peak = Best(points, Len(points))
<1>1. points \in Seq(Equities) /\ scan \in ScanRows /\ scan.peak = Best(points, Len(points))
  BY DEF ReportInv
<1>2. Len(points) \in Nat
  BY <1>1, PointsArePositive
<1>3. points' = Append(points, e) /\ scan' = AfterPoint(e, Len(points) + 1)
  BY DEF NextPoint
<1>4. Len(points) \in 0..Len(points)
  BY <1>2
<1>5. scan.peak \in Nat /\ scan.peak > 0
  BY <1>1, <1>4, BestIs
<1>6. NextList(points, points', e)
  <2>1. \E t : t = points'
    OBVIOUS
  <2>2. PICK t : t = points'
    BY <2>1
  <2>3. t = Append(points, e)
    BY <1>3, <2>2
  <2>4. NextList(points, t, e)
    BY <1>1, <2>3, PointAdded
  <2> QED BY <2>2, <2>4
<1>7. e \in Nat /\ e > 0
  BY ReportAssumption
<1>8. scan.since # NotUnderWater => scan.since \in 1..Len(points)
  BY DEF ReportInv, SinceOK
<1>9. NextScan(scan, scan', Len(points), e)
  <2> DEFINE n == Len(points)
  <2>1. n \in Nat /\ (scan.since # NotUnderWater => scan.since \in 1..n)
          /\ n + 1 = n + 1 /\ scan' = AfterPoint(e, n + 1)
    BY <1>2, <1>3, <1>8
  <2> HIDE DEF n
  <2>2. NextScan(scan, scan', n, e)
    BY <1>1, <1>5, <1>7, <2>1, ScanIs
  <2> QED BY <2>2 DEF n
<1> QED BY <1>1, <1>2, <1>5, <1>6, <1>7, <1>9

\* What the lemmas below have of one more point.
OneMore(s, t, old, new, e) ==
    /\ s \in Seq(Equities) /\ old \in ScanRows /\ e \in Nat /\ e > 0
    /\ old.peak \in Nat /\ old.peak > 0 /\ old.peak = Best(s, Len(s))
    /\ NextList(s, t, e) /\ NextScan(old, new, Len(s), e)

\* The same, of the points.
LEMMA OneMorePoint ==
    ASSUME NEW s, NEW t, NEW old, NEW new, NEW e, OneMore(s, t, old, new, e), NEW n, n = Len(s)
    PROVE  /\ n \in Nat /\ s \in Seq(Equities) /\ Len(t) = n + 1 /\ DOMAIN s = 1..n
           /\ \A i \in 1..n : Under(t, i) <=> Under(s, i)
           /\ Under(t, n + 1) <=> e < old.peak
           /\ 1..(n + 1) = 1..n \cup {n + 1}
           /\ old.longest \in Nat /\ old.since \in Int /\ old.recovered \in Nat /\ old.recoveries \in Nat
           /\ NotUnderWater \in Int /\ ~(NotUnderWater \in 1..(n + 1))
           /\ new.since = (IF e < old.peak THEN IF old.since = NotUnderWater THEN n + 1 ELSE old.since
                           ELSE NotUnderWater)
           /\ e < old.peak \/ old.since = NotUnderWater =>
                  /\ new.longest = old.longest /\ new.recovered = old.recovered
                  /\ new.recoveries = old.recoveries
           /\ ~(e < old.peak) /\ old.since # NotUnderWater =>
                  /\ new.longest = Larger(old.longest, n + 1 - old.since)
                  /\ new.recovered = old.recovered + (n + 1 - old.since)
                  /\ new.recoveries = old.recoveries + 1
<1>1. s \in Seq(Equities)
  BY DEF OneMore
<1>2. n \in Nat /\ DOMAIN s = 1..n
  BY <1>1, PointsArePositive
<1>3. 1..(n + 1) = 1..n \cup {n + 1} /\ NotUnderWater \in Int /\ ~(NotUnderWater \in 1..(n + 1))
  BY <1>2 DEF NotUnderWater
<1>4. /\ Len(t) = n + 1 /\ \A i \in 1..n : Under(t, i) <=> Under(s, i)
      /\ Under(t, n + 1) <=> e < old.peak
  BY DEF OneMore, NextList
<1>5. old.longest \in Nat /\ old.since \in Int /\ old.recovered \in Nat /\ old.recoveries \in Nat
  BY DEF OneMore, ScanRows
<1>6. NextScan(old, new, n, e)
  BY DEF OneMore
<1>7. /\ new.since = (IF e < old.peak THEN IF old.since = NotUnderWater THEN n + 1 ELSE old.since
                      ELSE NotUnderWater)
      /\ e < old.peak \/ old.since = NotUnderWater =>
             /\ new.longest = old.longest /\ new.recovered = old.recovered
             /\ new.recoveries = old.recoveries
      /\ ~(e < old.peak) /\ old.since # NotUnderWater =>
             /\ new.longest = Larger(old.longest, n + 1 - old.since)
             /\ new.recovered = old.recovered + (n + 1 - old.since)
             /\ new.recoveries = old.recoveries + 1
  BY <1>6 DEF NextScan
<1> QED BY <1>1, <1>2, <1>3, <1>4, <1>5, <1>7

\* The deepest loss so far is that of the points.
LEMMA DrawdownKept ==
    ASSUME NEW s, NEW t, NEW old, NEW new, NEW e, OneMore(s, t, old, new, e),
           DrawdownOK(old.drawdown, s)
    PROVE  DrawdownOK(new.drawdown, t)
<1> DEFINE n == Len(s)
           d == old.drawdown
<1>1. /\ s \in Seq(Equities) /\ old \in ScanRows /\ e \in Nat /\ e > 0
      /\ old.peak \in Nat /\ old.peak > 0 /\ old.peak = Best(s, n)
  BY DEF OneMore
<1>2. n \in Nat /\ 1..(n + 1) = 1..n \cup {n + 1} /\ 1..n \subseteq 0..n
  BY <1>1, PointsArePositive
<1>3. d \in Nat
  BY <1>1 DEF ScanRows
<1>4. /\ Len(t) = n + 1 /\ t[n + 1] = e /\ \A i \in 1..n : t[i] = s[i]
      /\ \A i \in 0..n : Best(t, i) = Best(s, i)
      /\ Best(t, n + 1) = Larger(old.peak, e)
  BY <1>1 DEF OneMore, NextList
<1>5. \A i \in 1..n : LossAt(t, i) = LossAt(s, i)
  BY <1>2, <1>4 DEF LossAt
<1>6. /\ \A i \in 1..n : LossAt(s, i) <= d
      /\ d = 0 \/ \E i \in 1..n : d = LossAt(s, i)
  BY DEF DrawdownOK
<1>7. CASE e < old.peak
  <2> DEFINE l == Drawdown(old.peak, e)
             m == Larger(d, l)
  <2>1. LossAt(t, n + 1) = l
    BY <1>1, <1>4, <1>7 DEF LossAt, Larger
  <2>2. l \in Nat
    BY <1>1, <1>7, DeeperFromHigher
  <2>3. new.drawdown = m
    BY <1>7 DEF OneMore, NextScan
  <2> HIDE DEF l, d, n
  <2>4. m \in Nat /\ d <= m /\ l <= m /\ (m = d \/ m = l)
    BY <1>3, <2>2 DEF Larger
  <2> HIDE DEF m
  <2>5. ASSUME NEW i \in 1..n PROVE LossAt(t, i) <= m
    <3>1. LossAt(t, i) \in Nat
      <4>1. s[i] \in Nat /\ s[i] <= Best(s, i) /\ Best(s, i) \in Nat /\ Best(s, i) > 0
        <5>1. i \in 1..Len(s) /\ i \in 0..Len(s) /\ i \in 1..i
          BY <1>2 DEF n
        <5> QED BY <1>1, <5>1, BestIs, PointsArePositive
      <4>2. Drawdown(Best(s, i), s[i]) \in Nat
        BY <4>1, DeeperFromHigher
      <4> QED BY <1>5, <4>2 DEF LossAt
    <3>2. LossAt(t, i) <= d
      BY <1>5, <1>6
    <3> QED BY <1>3, <2>4, <3>1, <3>2
  <2>6. \A i \in 1..(n + 1) : LossAt(t, i) <= m
    BY <1>2, <2>1, <2>4, <2>5
  <2>7. m = 0 \/ \E i \in 1..(n + 1) : m = LossAt(t, i)
    BY <1>2, <1>5, <1>6, <2>1, <2>4
  <2> QED BY <1>4, <2>3, <2>6, <2>7 DEF DrawdownOK
<1>8. CASE ~(e < old.peak)
  <2>1. new.drawdown = d
    BY <1>8 DEF OneMore, NextScan
  <2>2. Best(t, n + 1) = e
    BY <1>1, <1>4, <1>8 DEF Larger
  <2>3. LossAt(t, n + 1) = 0
    <3>1. (e - e) * 100 = 0
      BY <1>1
    <3>2. 0 \div e = 0
      BY <1>1
    <3> QED BY <1>4, <2>2, <3>1, <3>2 DEF LossAt, Drawdown
  <2> HIDE DEF d, n
  <2>4. \A i \in 1..(n + 1) : LossAt(t, i) <= d
    BY <1>2, <1>3, <1>5, <1>6, <2>3
  <2>5. d = 0 \/ \E i \in 1..(n + 1) : d = LossAt(t, i)
    BY <1>2, <1>5, <1>6
  <2> QED BY <1>4, <2>1, <2>4, <2>5 DEF DrawdownOK
<1> QED BY <1>7, <1>8

\* The time under water is that of the last points.
LEMMA SinceKept ==
    ASSUME NEW s, NEW t, NEW old, NEW new, NEW e, OneMore(s, t, old, new, e),
           SinceOK(old.since, s)
    PROVE  SinceOK(new.since, t)
<1>1. \E m : m = Len(s)
  OBVIOUS
<1>2. PICK n : n = Len(s)
  BY <1>1
<1>3. /\ n \in Nat /\ Len(t) = n + 1 /\ \A i \in 1..n : Under(t, i) <=> Under(s, i)
      /\ Under(t, n + 1) <=> e < old.peak
      /\ NotUnderWater \in Int /\ ~(NotUnderWater \in 1..(n + 1))
      /\ new.since = (IF e < old.peak THEN IF old.since = NotUnderWater THEN n + 1 ELSE old.since
                      ELSE NotUnderWater)
  BY <1>2, OneMorePoint
<1>4. CASE ~(e < old.peak)
  BY <1>3, <1>4 DEF SinceOK
<1>5. CASE e < old.peak /\ old.since = NotUnderWater
  <2>1. new.since = n + 1 /\ new.since # NotUnderWater /\ new.since \in 1..Len(t)
    BY <1>3, <1>5
  <2>2. \A k \in new.since..Len(t) : Under(t, k)
    BY <1>3, <1>5, <2>1
  <2> QED BY <2>1, <2>2 DEF SinceOK
<1>6. CASE e < old.peak /\ old.since # NotUnderWater
  <2>1. old.since \in 1..n /\ \A k \in old.since..n : Under(s, k)
    BY <1>2, <1>6 DEF SinceOK
  <2>2. new.since = old.since /\ new.since \in 1..Len(t)
    BY <1>3, <1>6, <2>1
  <2>3. ASSUME NEW k \in new.since..Len(t) PROVE Under(t, k)
    <3>1. CASE k = n + 1
      BY <1>3, <1>6, <3>1
    <3>2. CASE k # n + 1
      <4>1. k \in old.since..n /\ k \in 1..n
        BY <1>3, <2>1, <2>2, <3>2
      <4> QED BY <1>3, <2>1, <4>1
    <3> QED BY <3>1, <3>2
  <2> QED BY <1>6, <2>2, <2>3 DEF SinceOK
<1> QED BY <1>4, <1>5, <1>6

\* The points that recovered, after one more point.
LEMMA RecoveredAfter ==
    ASSUME NEW s, NEW t, NEW old, NEW new, NEW e, OneMore(s, t, old, new, e),
           SinceOK(old.since, s), NEW n, n = Len(s)
    PROVE  RecoveredIn(t) = IF ~(e < old.peak) /\ old.since # NotUnderWater
                            THEN RecoveredIn(s) \cup {n + 1} ELSE RecoveredIn(s)
<1> DEFINE back == ~(e < old.peak) /\ old.since # NotUnderWater
<1>1. /\ n \in Nat /\ Len(t) = n + 1 /\ \A i \in 1..n : Under(t, i) <=> Under(s, i)
      /\ Under(t, n + 1) <=> e < old.peak
  BY OneMorePoint
<1>2. n >= 1 => (Under(s, n) <=> old.since # NotUnderWater)
  BY <1>1 DEF SinceOK
<1>3. n = 0 => old.since = NotUnderWater
  BY <1>1 DEF SinceOK
<1>4. \A i \in 2..n : i \in RecoveredIn(t) <=> i \in RecoveredIn(s)
  <2> TAKE i \in 2..n
  <2>1. i \in 1..n /\ i - 1 \in 1..n /\ i \in 2..(n + 1)
    BY <1>1
  <2> QED BY <1>1, <2>1 DEF RecoveredIn
<1>5. n + 1 \in RecoveredIn(t) <=> back
  <2>1. CASE n = 0
    <3>1. ~(n + 1 \in 2..(n + 1)) /\ ~back
      BY <1>3, <2>1
    <3> QED BY <1>1, <3>1 DEF RecoveredIn
  <2>2. CASE n # 0
    <3>1. n + 1 \in 2..(n + 1) /\ (n + 1) - 1 = n /\ n \in 1..n /\ n >= 1
      BY <1>1, <2>2
    <3>2. n + 1 \in RecoveredIn(t) <=> Under(t, n) /\ ~Under(t, n + 1)
      BY <1>1, <3>1 DEF RecoveredIn
    <3> QED BY <1>1, <1>2, <3>1, <3>2
  <2> QED BY <2>1, <2>2
<1>6. RecoveredIn(s) \subseteq 2..n /\ RecoveredIn(t) \subseteq 2..(n + 1)
  BY <1>1 DEF RecoveredIn
<1>7. \A i \in RecoveredIn(t) : i \in RecoveredIn(s) \/ (back /\ i = n + 1)
  <2> TAKE i \in RecoveredIn(t)
  <2>1. i \in 2..n \/ i = n + 1
    BY <1>1, <1>6
  <2> QED BY <1>4, <1>5, <2>1
<1>8. \A i \in RecoveredIn(s) : i \in RecoveredIn(t)
  BY <1>4, <1>6
<1> HIDE DEF back
<1>9. RecoveredIn(t) = IF back THEN RecoveredIn(s) \cup {n + 1} ELSE RecoveredIn(s)
  BY <1>5, <1>7, <1>8
<1> QED BY <1>9 DEF back

LEMMA RecoveriesKept ==
    ASSUME NEW s, NEW t, NEW old, NEW new, NEW e, OneMore(s, t, old, new, e),
           SinceOK(old.since, s), old.recoveries = Cardinality(RecoveredIn(s))
    PROVE  new.recoveries = Cardinality(RecoveredIn(t))
<1>1. \E m : m = Len(s)
  OBVIOUS
<1>2. PICK n : n = Len(s)
  BY <1>1
<1>3. /\ n \in Nat /\ (e < old.peak \/ old.since = NotUnderWater => new.recoveries = old.recoveries)
      /\ ~(e < old.peak) /\ old.since # NotUnderWater => new.recoveries = old.recoveries + 1
  BY <1>2, OneMorePoint
<1>4. RecoveredIn(t) = IF ~(e < old.peak) /\ old.since # NotUnderWater
                       THEN RecoveredIn(s) \cup {n + 1} ELSE RecoveredIn(s)
  BY <1>2, RecoveredAfter
<1>5. IsFiniteSet(RecoveredIn(s))
  <2>1. RecoveredIn(s) \subseteq 1..n
    BY <1>2, <1>3 DEF RecoveredIn
  <2>2. IsFiniteSet(1..n)
    BY <1>3, FS_Interval
  <2> QED BY <2>1, <2>2, FS_Subset
<1>6. n + 1 \notin RecoveredIn(s)
  BY <1>2, <1>3 DEF RecoveredIn
<1>7. Cardinality(RecoveredIn(s) \cup {n + 1}) = Cardinality(RecoveredIn(s)) + 1
  BY <1>5, <1>6, FS_AddElement
<1> QED BY <1>3, <1>4, <1>7

\* A point at or above the best comes after every spell that ended.
LEMMA SpellsKept ==
    ASSUME NEW s, NEW t, NEW old, NEW new, NEW e, OneMore(s, t, old, new, e),
           SinceOK(old.since, s), BackOK(old.since, s), SpellsOK(old.longest, s)
    PROVE  SpellsOK(new.longest, t)
<1>1. \E m : m = Len(s)
  OBVIOUS
<1>2. PICK n : n = Len(s)
  BY <1>1
<1>3. /\ n \in Nat /\ Len(t) = n + 1 /\ \A i \in 1..n : Under(t, i) <=> Under(s, i)
      /\ Under(t, n + 1) <=> e < old.peak
      /\ old.longest \in Nat /\ old.since \in Int
      /\ e < old.peak \/ old.since = NotUnderWater => new.longest = old.longest
      /\ ~(e < old.peak) /\ old.since # NotUnderWater =>
             new.longest = Larger(old.longest, n + 1 - old.since)
  BY <1>2, OneMorePoint
<1>4. ASSUME NEW i \in 1..n, NEW j \in 1..n PROVE Spell(t, i, j) <=> Spell(s, i, j)
  <2>1. \A k \in i..(j - 1) : k \in 1..n
    BY <1>3
  <2>2. (\A k \in i..(j - 1) : Under(t, k)) <=> (\A k \in i..(j - 1) : Under(s, k))
    BY <1>3, <2>1
  <2>3. i \in 1..(n + 1) /\ j \in 1..(n + 1)
    BY <1>3
  <2> QED BY <1>2, <1>3, <2>2, <2>3 DEF Spell
<1>5. /\ \A i, j \in 1..n : Spell(s, i, j) => j - i <= old.longest
      /\ old.longest = 0 \/ \E i, j \in 1..n : Spell(s, i, j) /\ old.longest = j - i
  BY <1>2 DEF SpellsOK
<1>6. \A i, j \in 1..n : Spell(t, i, j) => j - i <= old.longest
  BY <1>4, <1>5
<1>7. old.longest = 0 \/ \E i, j \in 1..(n + 1) : Spell(t, i, j) /\ old.longest = j - i
  <2>1. CASE old.longest # 0
    <3>1. PICK i \in 1..n, j \in 1..n : Spell(s, i, j) /\ old.longest = j - i
      BY <1>5, <2>1
    <3>2. Spell(t, i, j) /\ i \in 1..(n + 1) /\ j \in 1..(n + 1)
      BY <1>3, <1>4, <3>1
    <3> QED BY <3>1, <3>2
  <2> QED BY <2>1
<1>8. \A i, j : Spell(t, i, j) => /\ i \in 1..n /\ j \in 1..(n + 1) /\ (j \in 1..n \/ j = n + 1)
  <2> TAKE i, j
  <2> HAVE Spell(t, i, j)
  <2>1. i \in 1..(n + 1) /\ j \in 1..(n + 1) /\ i < j
    BY <1>3 DEF Spell
  <2> QED BY <1>3, <2>1
<1>9. CASE ~(e < old.peak) /\ old.since # NotUnderWater
  <2> DEFINE d == n + 1 - old.since
  <2>1. old.since \in 1..n /\ \A k \in old.since..n : Under(s, k)
    BY <1>2, <1>9 DEF SinceOK
  <2>2. d \in Nat /\ new.longest = Larger(old.longest, d)
    BY <1>3, <1>9, <2>1
  <2>3. Spell(t, old.since, n + 1)
    <3>1. \A k \in old.since..((n + 1) - 1) : Under(t, k)
      BY <1>3, <2>1
    <3>2. old.since \in 1..(n + 1) /\ n + 1 \in 1..(n + 1) /\ old.since < n + 1
      BY <1>3, <2>1
    <3> QED BY <1>3, <1>9, <3>1, <3>2 DEF Spell
  <2>4. ASSUME NEW i \in 1..n, Spell(t, i, n + 1) PROVE n + 1 - i <= d
    <3>1. \A k \in i..n : Under(s, k)
      <4>1. \A k \in i..((n + 1) - 1) : Under(t, k)
        BY <2>4 DEF Spell
      <4>2. \A k \in i..n : k \in 1..n /\ k \in i..((n + 1) - 1)
        BY <1>3
      <4> QED BY <1>3, <4>1, <4>2
    <3>2. CASE i < old.since
      <4>1. i \in CameBack(s)
        <5>1. i \in i..n
          BY <1>3
        <5> QED BY <1>2, <3>1, <3>2, <5>1 DEF BackOK
      <4>2. PICK j \in RecoveredIn(s) : i < j
        BY <4>1 DEF CameBack
      <4>3. j \in 2..n /\ ~Under(s, j)
        BY <1>2 DEF RecoveredIn
      <4>4. j \in i..n
        BY <1>3, <4>2, <4>3
      <4> QED BY <3>1, <4>3, <4>4
    <3>3. CASE ~(i < old.since)
      BY <1>3, <2>1, <3>3
    <3> QED BY <3>2, <3>3
  <2> HIDE DEF d
  <2>5. new.longest \in Nat /\ old.longest <= new.longest /\ d <= new.longest
        /\ (new.longest = old.longest \/ new.longest = d)
    BY <1>3, <2>2 DEF Larger
  <2>6. ASSUME NEW i, NEW j, Spell(t, i, j) PROVE j - i <= new.longest
    <3>1. i \in 1..n
      BY <1>8, <2>6
    <3>2. CASE j \in 1..n
      BY <1>3, <1>6, <2>5, <2>6, <3>1, <3>2
    <3>3. CASE j = n + 1
      BY <1>3, <2>2, <2>4, <2>5, <2>6, <3>1, <3>3
    <3> QED BY <1>8, <2>6, <3>2, <3>3
  <2>7. new.longest = 0 \/ \E i, j \in 1..(n + 1) : Spell(t, i, j) /\ new.longest = j - i
    <3>1. CASE new.longest = old.longest
      BY <1>7, <3>1
    <3>2. CASE new.longest = d
      <4>1. old.since \in 1..(n + 1) /\ n + 1 \in 1..(n + 1)
        BY <1>3, <2>1
      <4>2. new.longest = n + 1 - old.since
        BY <3>2 DEF d
      <4> QED BY <1>3, <2>1, <2>3, <4>1, <4>2
    <3> QED BY <2>5, <3>1, <3>2
  <2> QED BY <1>3, <2>6, <2>7 DEF SpellsOK
<1>10. CASE e < old.peak \/ old.since = NotUnderWater
  <2>1. ASSUME NEW i \in 1..n, Spell(t, i, n + 1) PROVE FALSE
    <3>1. i \in i..((n + 1) - 1) /\ n \in i..((n + 1) - 1) /\ n \in 1..n /\ n # 0
      BY <1>3
    <3>2. Under(t, n) /\ ~Under(t, n + 1)
      BY <2>1, <3>1 DEF Spell
    <3>3. Under(s, n) /\ ~(e < old.peak)
      BY <1>3, <3>1, <3>2
    <3> QED BY <1>2, <1>10, <3>1, <3>3 DEF SinceOK
  <2>2. new.longest = old.longest
    BY <1>3, <1>10
  <2>3. ASSUME NEW i, NEW j, Spell(t, i, j) PROVE j - i <= new.longest
    <3>1. i \in 1..n /\ j \in 1..n
      BY <1>8, <2>1, <2>3
    <3> QED BY <1>6, <2>2, <2>3, <3>1
  <2> QED BY <1>3, <1>7, <2>2, <2>3 DEF SpellsOK
<1> QED BY <1>9, <1>10

\* The points that came back, after one more point.
LEMMA CameBackAfter ==
    ASSUME NEW s, NEW t, NEW old, NEW new, NEW e, OneMore(s, t, old, new, e),
           SinceOK(old.since, s), BackOK(old.since, s), NEW n, n = Len(s)
    PROVE  /\ CameBack(t) = IF ~(e < old.peak) /\ old.since # NotUnderWater
                            THEN CameBack(s) \cup old.since..n ELSE CameBack(s)
           /\ old.since # NotUnderWater => CameBack(s) \cap old.since..n = {}
           /\ CameBack(s) \subseteq 1..n
<1> DEFINE back == ~(e < old.peak) /\ old.since # NotUnderWater
<1>1. /\ n \in Nat /\ Len(t) = n + 1 /\ \A i \in 1..n : Under(t, i) <=> Under(s, i)
      /\ Under(t, n + 1) <=> e < old.peak
      /\ old.since \in Int
  BY OneMorePoint
<1>2. RecoveredIn(t) = IF back THEN RecoveredIn(s) \cup {n + 1} ELSE RecoveredIn(s)
  BY RecoveredAfter
<1>3. RecoveredIn(s) \subseteq 2..n
  BY DEF RecoveredIn
<1>4. CameBack(s) \subseteq 1..n
  BY DEF CameBack
<1>5. old.since # NotUnderWater => old.since \in 1..n /\ \A k \in old.since..n : Under(s, k)
  BY DEF SinceOK
<1>6. ASSUME old.since # NotUnderWater, NEW i \in CameBack(s) PROVE i < old.since
  <2>1. PICK j \in RecoveredIn(s) : i < j
    BY DEF CameBack
  <2>2. j \in 2..n /\ ~Under(s, j)
    BY DEF RecoveredIn
  <2>3. i \in 1..n
    BY <1>4
  <2> QED BY <1>1, <1>5, <1>6, <2>1, <2>2, <2>3
<1>7. old.since # NotUnderWater => CameBack(s) \cap old.since..n = {}
  <2> SUFFICES ASSUME old.since # NotUnderWater, NEW i \in CameBack(s), i \in old.since..n PROVE FALSE
    OBVIOUS
  <2>1. i < old.since /\ i \in 1..n
    BY <1>4, <1>6
  <2> QED BY <1>1, <2>1
<1>8. ASSUME NEW i \in CameBack(s) PROVE i \in CameBack(t)
  <2>1. Under(s, i) /\ i \in 1..n
    BY <1>4 DEF CameBack
  <2>2. PICK j \in RecoveredIn(s) : i < j
    BY DEF CameBack
  <2>3. j \in RecoveredIn(t)
    BY <1>2
  <2>4. Under(t, i) /\ i \in 1..(n + 1)
    BY <1>1, <2>1
  <2> QED BY <1>1, <2>2, <2>3, <2>4 DEF CameBack
<1>9. ASSUME back, NEW i \in old.since..n PROVE i \in CameBack(t)
  <2>1. i \in 1..n /\ i < n + 1
    BY <1>1, <1>5, <1>9
  <2>2. Under(t, i) /\ i \in 1..(n + 1)
    BY <1>1, <1>5, <1>9, <2>1
  <2>3. n + 1 \in RecoveredIn(t)
    BY <1>2, <1>9
  <2> QED BY <1>1, <2>1, <2>2, <2>3 DEF CameBack
<1>10. ASSUME NEW i \in CameBack(t) PROVE i \in CameBack(s) \/ (back /\ i \in old.since..n)
  <2>1. i \in 1..(n + 1) /\ Under(t, i)
    BY <1>1 DEF CameBack
  <2>2. PICK j \in RecoveredIn(t) : i < j
    BY DEF CameBack
  <2>3. CASE j \in RecoveredIn(s)
    <3>1. i \in 1..n
      BY <1>1, <1>3, <2>1, <2>2, <2>3
    <3> QED BY <1>1, <2>1, <2>2, <2>3, <3>1 DEF CameBack
  <2>4. CASE back /\ j = n + 1
    <3>1. i \in 1..n
      BY <1>1, <2>1, <2>2, <2>4
    <3>2. Under(s, i)
      BY <1>1, <2>1, <3>1
    <3>3. CASE i < old.since
      BY <3>1, <3>2, <3>3 DEF BackOK
    <3>4. CASE ~(i < old.since)
      <4>1. i \in old.since..n
        BY <1>1, <3>1, <3>4
      <4> QED BY <2>4, <4>1
    <3> QED BY <3>3, <3>4
  <2> QED BY <1>2, <2>2, <2>3, <2>4
<1>11. CameBack(t) = IF back THEN CameBack(s) \cup old.since..n ELSE CameBack(s)
  <2> HIDE DEF back
  <2> QED BY <1>8, <1>9, <1>10
<1> QED BY <1>4, <1>7, <1>11

LEMMA RecoveredKept ==
    ASSUME NEW s, NEW t, NEW old, NEW new, NEW e, OneMore(s, t, old, new, e),
           SinceOK(old.since, s), BackOK(old.since, s), old.recovered = Cardinality(CameBack(s))
    PROVE  new.recovered = Cardinality(CameBack(t))
<1>1. \E m : m = Len(s)
  OBVIOUS
<1>2. PICK n : n = Len(s)
  BY <1>1
<1>3. /\ n \in Nat /\ old.since \in Int /\ old.recovered \in Nat
      /\ e < old.peak \/ old.since = NotUnderWater => new.recovered = old.recovered
      /\ ~(e < old.peak) /\ old.since # NotUnderWater =>
             new.recovered = old.recovered + (n + 1 - old.since)
  BY <1>2, OneMorePoint
<1>4. /\ CameBack(t) = IF ~(e < old.peak) /\ old.since # NotUnderWater
                       THEN CameBack(s) \cup old.since..n ELSE CameBack(s)
      /\ old.since # NotUnderWater => CameBack(s) \cap old.since..n = {}
      /\ CameBack(s) \subseteq 1..n
  BY <1>2, CameBackAfter
<1>5. CASE e < old.peak \/ old.since = NotUnderWater
  BY <1>3, <1>4, <1>5
<1>6. CASE ~(e < old.peak) /\ old.since # NotUnderWater
  <2> DEFINE a == old.since
             I == a..n
             C == CameBack(s)
  <2>1. a \in 1..n
    BY <1>2, <1>6 DEF SinceOK
  <2>2. IsFiniteSet(I) /\ Cardinality(I) = n - a + 1
    <3>1. a \in Int /\ n \in Int /\ ~(a > n)
      BY <1>3, <2>1
    <3> HIDE DEF a
    <3> QED BY <3>1, FS_Interval
  <2>3. IsFiniteSet(C)
    <3>1. IsFiniteSet(1..n)
      BY <1>3, FS_Interval
    <3> QED BY <1>4, <3>1, FS_Subset
  <2>4. C \cap I = {} /\ CameBack(t) = C \cup I
    BY <1>4, <1>6
  <2> HIDE DEF I, C
  <2>5. Cardinality(C \cup I) = Cardinality(C) + Cardinality(I) - Cardinality(C \cap I)
    BY <2>2, <2>3, FS_Union
  <2>6. Cardinality(C \cap I) = 0
    BY <2>4, FS_EmptySet
  <2>7. Cardinality(C) \in Nat /\ Cardinality(C) = old.recovered
    BY <2>3, FS_CardinalityType DEF C
  <2> QED BY <1>3, <1>6, <2>1, <2>2, <2>4, <2>5, <2>6, <2>7
<1> QED BY <1>5, <1>6

LEMMA BackKept ==
    ASSUME NEW s, NEW t, NEW old, NEW new, NEW e, OneMore(s, t, old, new, e),
           SinceOK(old.since, s), BackOK(old.since, s)
    PROVE  BackOK(new.since, t)
<1>1. \E m : m = Len(s)
  OBVIOUS
<1>2. PICK n : n = Len(s)
  BY <1>1
<1>3. /\ n \in Nat /\ Len(t) = n + 1 /\ \A i \in 1..n : Under(t, i) <=> Under(s, i)
      /\ Under(t, n + 1) <=> e < old.peak
      /\ old.since \in Int
      /\ new.since = (IF e < old.peak THEN IF old.since = NotUnderWater THEN n + 1 ELSE old.since
                      ELSE NotUnderWater)
      /\ ~(NotUnderWater \in 1..(n + 1))
  BY <1>2, OneMorePoint
<1>4. CameBack(t) = IF ~(e < old.peak) /\ old.since # NotUnderWater
                    THEN CameBack(s) \cup old.since..n ELSE CameBack(s)
  BY <1>2, CameBackAfter
<1>5. \A i \in 1..n : Under(s, i) /\ (old.since = NotUnderWater \/ i < old.since) => i \in CameBack(s)
  BY <1>2 DEF BackOK
<1>6. old.since # NotUnderWater => old.since \in 1..n
  BY <1>2 DEF SinceOK
<1> SUFFICES ASSUME NEW i \in 1..(n + 1), Under(t, i), new.since = NotUnderWater \/ i < new.since
             PROVE  i \in CameBack(t)
  BY <1>3 DEF BackOK
<1>7. i \in 1..n \/ i = n + 1
  BY <1>3
<1>8. CASE e < old.peak /\ old.since = NotUnderWater
  <2>1. new.since = n + 1 /\ new.since # NotUnderWater
    BY <1>3, <1>8
  <2>2. i \in 1..n
    BY <1>3, <1>7, <2>1
  <2> QED BY <1>3, <1>4, <1>5, <1>8, <2>2
<1>9. CASE e < old.peak /\ old.since # NotUnderWater
  <2>1. new.since = old.since
    BY <1>3, <1>9
  <2>2. i < old.since /\ i \in 1..n
    BY <1>3, <1>6, <1>7, <1>9, <2>1
  <2> QED BY <1>3, <1>4, <1>5, <1>9, <2>2
<1>10. CASE ~(e < old.peak)
  <2>1. i \in 1..n
    BY <1>3, <1>7, <1>10
  <2>2. Under(s, i)
    BY <1>3, <2>1
  <2>3. CASE old.since = NotUnderWater \/ i < old.since
    BY <1>4, <1>5, <2>1, <2>2, <2>3
  <2>4. CASE old.since # NotUnderWater /\ ~(i < old.since)
    <3>1. i \in old.since..n
      BY <1>3, <2>1, <2>4
    <3> QED BY <1>4, <1>10, <2>4, <3>1
  <2> QED BY <2>3, <2>4
<1> QED BY <1>8, <1>9, <1>10

LEMMA ReportInvNext == ReportInv /\ [ReportNext]_reportVars => ReportInv'
<1> SUFFICES ASSUME ReportInv, [ReportNext]_reportVars PROVE ReportInv'
  OBVIOUS
<1>1. CASE UNCHANGED reportVars
  <2>1. points' = points /\ scan' = scan
    BY <1>1 DEF reportVars
  <2> QED BY <2>1 DEF ReportInv
<1>2. ASSUME NEW e \in Equities, NextPoint(e) PROVE ReportInv'
  <2>1. /\ NextScan(scan, scan', Len(points), e) /\ NextList(points, points', e)
        /\ Len(points) \in Nat /\ e \in Nat /\ e > 0
        /\ scan.peak \in Nat /\ scan.peak > 0 /\ scan.peak = Best(points, Len(points))
    BY <1>2, NextPointIs
  <2>2. \E t, new : t = points' /\ new = scan'
    OBVIOUS
  <2>3. PICK t, new : t = points' /\ new = scan'
    BY <2>2
  <2>4. OneMore(points, t, scan, new, e)
    BY <2>1, <2>3 DEF OneMore, ReportInv
  <2>5. /\ DrawdownOK(scan.drawdown, points) /\ SinceOK(scan.since, points)
        /\ SpellsOK(scan.longest, points) /\ BackOK(scan.since, points)
        /\ scan.recoveries = Cardinality(RecoveredIn(points))
        /\ scan.recovered = Cardinality(CameBack(points))
    BY DEF ReportInv
  <2>6. DrawdownOK(new.drawdown, t)
    BY <2>4, <2>5, DrawdownKept
  <2>7. SinceOK(new.since, t)
    BY <2>4, <2>5, SinceKept
  <2>8. SpellsOK(new.longest, t)
    BY <2>4, <2>5, SpellsKept
  <2>9. new.recoveries = Cardinality(RecoveredIn(t))
    BY <2>4, <2>5, RecoveriesKept
  <2>10. new.recovered = Cardinality(CameBack(t))
    BY <2>4, <2>5, RecoveredKept
  <2>11. BackOK(new.since, t)
    BY <2>4, <2>5, BackKept
  <2>12. t \in Seq(Equities) /\ new \in ScanRows /\ new.peak = Best(t, Len(t))
    <3>1. t \in Seq(Equities) /\ Len(t) = Len(points) + 1
          /\ Best(t, Len(points) + 1) = Larger(scan.peak, e)
      BY <2>1, <2>3 DEF NextList
    <3>2. new \in ScanRows /\ new.peak = (IF e < scan.peak THEN scan.peak ELSE e)
      BY <2>1, <2>3 DEF NextScan
    <3> QED BY <2>1, <3>1, <3>2 DEF Larger
  <2> QED BY <2>3, <2>6, <2>7, <2>8, <2>9, <2>10, <2>11, <2>12 DEF ReportInv
<1> QED BY <1>1, <1>2 DEF ReportNext

LEMMA ReportInvHolds == ReportSpec => []ReportInv
<1>1. ReportInit => ReportInv
  BY ReportInvInit
<1>2. ReportInv /\ [ReportNext]_reportVars => ReportInv'
  BY ReportInvNext
<1> QED BY <1>1, <1>2, PTL DEF ReportSpec

-----------------------------------------------------------------------------
(* What the scan says of the points *)

LEMMA LargestIs ==
    ASSUME NEW V, IsFiniteSet(V), \A x \in V : x \in Nat, NEW d \in Nat, d = 0 \/ d \in V,
           \A x \in V : x <= d
    PROVE  Max({0} \cup V) = d
<1> DEFINE T == {0} \cup V
<1>1. IsFiniteSet(T)
  BY FS_Singleton, FS_Union
<1>2. (\A x \in T : x \in Nat) /\ T # {} /\ d \in T /\ \A x \in T : x <= d
  OBVIOUS
<1> HIDE DEF T
<1>3. Max(T) \in T /\ \A x \in T : Max(T) >= x
  BY <1>1, <1>2, Extremes
<1>4. Max(T) \in Nat /\ Max(T) >= d /\ Max(T) <= d
  BY <1>2, <1>3
<1> QED BY <1>4 DEF T

\* Where the spell of a point ends.
LEMMA SpellFromIs ==
    ASSUME ReportInv, NEW n, n = Len(points), NEW i \in 1..n, Under(points, i)
    PROVE  \/ /\ \A k \in i..n : Under(points, k)
              /\ SpellFrom(i) = n - i
           \/ \E e \in 1..n : Spell(points, i, e) /\ SpellFrom(i) = e - i
<1>1. points \in Seq(Equities) /\ n \in Nat
  BY PointsArePositive DEF ReportInv
<1>2. \A k \in 1..n : UnderWater(k) <=> Under(points, k)
  BY DEF UnderWater, Under, BestUntil, Best
<1> DEFINE ends == {j \in i + 1 .. n : ~UnderWater(j)}
<1>3. SpellFrom(i) = (IF ends = {} THEN n ELSE Min(ends)) - i
  BY DEF SpellFrom
<1>4. CASE ends = {}
  <2>1. \A k \in i..n : Under(points, k)
    <3> TAKE k \in i..n
    <3>1. k = i \/ k \in i + 1 .. n
      BY <1>1
    <3>2. k \in 1..n
      BY <1>1
    <3> QED BY <1>2, <1>4, <3>1, <3>2
  <2> HIDE DEF ends
  <2> QED BY <1>3, <1>4, <2>1
<1>5. CASE ends # {}
  <2> DEFINE e == Min(ends)
  <2>1. \A x \in ends : x \in Nat
    BY <1>1
  <2>2. e \in ends /\ \A x \in ends : e <= x
    <3> HIDE DEF ends
    <3> QED BY <1>5, <2>1, Extremes
  <2>3. e \in i + 1 .. n /\ ~UnderWater(e)
    BY <2>2
  <2>4. \A k \in i..(e - 1) : Under(points, k)
    <3> TAKE k \in i..(e - 1)
    <3> HIDE DEF e
    <3>1. k \in 1..n /\ (k = i \/ k \in i + 1 .. n) /\ ~(e <= k)
      BY <1>1, <2>3
    <3>2. k \notin ends
      BY <2>2, <3>1
    <3> QED BY <1>2, <3>1, <3>2
  <2>5. SpellFrom(i) = e - i
    BY <1>3, <1>5
  <2> HIDE DEF e, ends
  <2>6. e \in 1..n /\ i < e
    BY <1>1, <2>3
  <2>7. Spell(points, i, e)
    BY <1>2, <2>3, <2>4, <2>6 DEF Spell
  <2> QED BY <2>5, <2>6, <2>7
<1> QED BY <1>4, <1>5

\* No point ends two spells.
LEMMA OneSpell ==
    ASSUME NEW s, NEW i, NEW e \in 1..Len(s), NEW f \in 1..Len(s), Len(s) \in Nat,
           Spell(s, i, e), Spell(s, i, f)
    PROVE  e = f
<1>1. i \in 1..Len(s) /\ i < e /\ i < f
  BY DEF Spell
<1>2. ~(e < f)
  <2> SUFFICES ASSUME e < f PROVE FALSE
    OBVIOUS
  <2>1. e \in i..(f - 1)
    BY <1>1
  <2> QED BY <2>1 DEF Spell
<1>3. ~(f < e)
  <2> SUFFICES ASSUME f < e PROVE FALSE
    OBVIOUS
  <2>1. f \in i..(e - 1)
    BY <1>1
  <2> QED BY <2>1 DEF Spell
<1> QED BY <1>2, <1>3

LEMMA LongestIs ==
    ASSUME ReportInv
    PROVE  LongestUnderwater =
               Max({0} \cup {SpellFrom(i) : i \in {j \in 1..Len(points) : UnderWater(j)}})
<1>1. \E m : m = Len(points)
  OBVIOUS
<1>2. PICK n : n = Len(points)
  BY <1>1
<1>3. points \in Seq(Equities) /\ n \in Nat
  BY <1>2, PointsArePositive DEF ReportInv
<1>4. \A k \in 1..n : UnderWater(k) <=> Under(points, k)
  BY DEF UnderWater, Under, BestUntil, Best
<1> DEFINE U == {j \in 1..n : UnderWater(j)}
           V == {SpellFrom(i) : i \in U}
           d == LongestUnderwater
<1>5. /\ SinceOK(scan.since, points) /\ SpellsOK(scan.longest, points) /\ BackOK(scan.since, points)
      /\ scan.longest \in Nat /\ scan.since \in Int
  BY DEF ReportInv, ScanRows
<1>6. scan.since # NotUnderWater =>
         scan.since \in 1..n /\ \A k \in scan.since..n : Under(points, k)
  BY <1>2, <1>5 DEF SinceOK
<1>7. /\ d \in Nat /\ scan.longest <= d
      /\ scan.since # NotUnderWater => n - scan.since <= d
      /\ d = scan.longest \/ (scan.since # NotUnderWater /\ d = n - scan.since)
  BY <1>2, <1>3, <1>5, <1>6 DEF LongestUnderwater, Larger
<1> HIDE DEF d
<1>8. ASSUME NEW i \in U PROVE SpellFrom(i) \in Nat /\ SpellFrom(i) <= d
  <2>1. i \in 1..n /\ Under(points, i)
    BY <1>4
  <2>2. CASE (\A k \in i..n : Under(points, k)) /\ SpellFrom(i) = n - i
    <3>1. scan.since # NotUnderWater
      <4>1. n \in i..n /\ n # 0
        BY <1>3, <2>1
      <4> QED BY <1>2, <1>5, <2>2, <4>1 DEF SinceOK
    <3>2. ~(i < scan.since)
      <4> SUFFICES ASSUME i < scan.since PROVE FALSE
        OBVIOUS
      <4>1. i \in CameBack(points)
        BY <1>2, <1>5, <2>1 DEF BackOK
      <4>2. PICK j \in RecoveredIn(points) : i < j
        BY <4>1 DEF CameBack
      <4>3. j \in 2..n /\ ~Under(points, j)
        BY <1>2 DEF RecoveredIn
      <4>4. j \in i..n
        BY <1>3, <2>1, <4>2, <4>3
      <4> QED BY <2>2, <4>3, <4>4
    <3> QED BY <1>3, <1>5, <1>6, <1>7, <2>1, <2>2, <3>1, <3>2
  <2>3. CASE \E e \in 1..n : Spell(points, i, e) /\ SpellFrom(i) = e - i
    <3>1. PICK e \in 1..n : Spell(points, i, e) /\ SpellFrom(i) = e - i
      BY <2>3
    <3>2. e - i <= scan.longest /\ i < e
      BY <1>2, <1>5, <2>1, <3>1 DEF SpellsOK, Spell
    <3> QED BY <1>3, <1>5, <1>7, <2>1, <3>1, <3>2
  <2> QED BY <1>2, <2>1, <2>2, <2>3, SpellFromIs
<1>9. d = 0 \/ d \in V
  <2>1. CASE d = scan.longest /\ scan.longest # 0
    <3>1. PICK i \in 1..n, e \in 1..n : Spell(points, i, e) /\ scan.longest = e - i
      BY <1>2, <1>5, <2>1 DEF SpellsOK
    <3>2. i < e /\ (\A k \in i..(e - 1) : Under(points, k)) /\ ~Under(points, e)
      BY <3>1 DEF Spell
    <3>3. i \in i..(e - 1) /\ e \in i..n
      BY <1>3, <3>1, <3>2
    <3>4. Under(points, i) /\ i \in U
      BY <1>4, <3>2, <3>3
    <3>5. PICK f \in 1..n : Spell(points, i, f) /\ SpellFrom(i) = f - i
      <4>1. ~ \A k \in i..n : Under(points, k)
        BY <3>2, <3>3
      <4> QED BY <1>2, <3>4, <4>1, SpellFromIs
    <3>6. f = e
      BY <1>2, <1>3, <3>1, <3>5, OneSpell
    <3> QED BY <2>1, <3>1, <3>4, <3>5, <3>6
  <2>2. CASE scan.since # NotUnderWater /\ d = n - scan.since
    <3> DEFINE i == scan.since
    <3>1. i \in 1..n /\ \A k \in i..n : Under(points, k)
      BY <1>6, <2>2
    <3>2. Under(points, i) /\ i \in U
      <4>1. i \in i..n
        BY <1>3, <3>1
      <4> QED BY <1>4, <3>1, <4>1
    <3>3. SpellFrom(i) = n - i
      <4>1. ASSUME NEW e \in 1..n, Spell(points, i, e) PROVE FALSE
        <5>1. i < e /\ ~Under(points, e)
          BY <4>1 DEF Spell
        <5>2. e \in i..n
          BY <1>3, <3>1, <5>1
        <5> QED BY <3>1, <5>1, <5>2
      <4> HIDE DEF i
      <4> QED BY <1>2, <3>1, <3>2, <4>1, SpellFromIs
    <3> QED BY <2>2, <3>2, <3>3
  <2> QED BY <1>7, <2>1, <2>2
<1>10. IsFiniteSet(V)
  <2>1. IsFiniteSet(U)
    <3>1. IsFiniteSet(1..n)
      BY <1>3, FS_Interval
    <3> QED BY <3>1, FS_Subset
  <2> DEFINE g == [i \in U |-> SpellFrom(i)]
  <2>2. V = {g[i] : i \in U}
    OBVIOUS
  <2> HIDE DEF U, V, g
  <2>3. IsFiniteSet({g[i] : i \in U})
    BY <2>1, FiniteValues
  <2> QED BY <2>2, <2>3
<1>11. (\A x \in V : x \in Nat) /\ \A x \in V : x <= d
  BY <1>8
<1>12. Max({0} \cup V) = d
  <2> HIDE DEF V
  <2> QED BY <1>7, <1>9, <1>10, <1>11, LargestIs
<1> QED BY <1>2, <1>12 DEF d

LEMMA DrawdownIs ==
    ASSUME ReportInv
    PROVE  /\ scan.drawdown =
                  Max({0} \cup {Drawdown(BestUntil(i), points[i]) : i \in 1..Len(points)})
           /\ \A i, j \in 1..Len(points) : i < j /\ points[j] < points[i] =>
                  Drawdown(points[i], points[j]) <= scan.drawdown
<1> DEFINE n == Len(points)
           I == 1..n
           V == {LossAt(points, i) : i \in I}
           d == scan.drawdown
<1>1. points \in Seq(Equities) /\ n \in Nat /\ d \in Nat
  BY PointsArePositive DEF ReportInv, ScanRows
<1>2. /\ \A i \in I : LossAt(points, i) <= d
      /\ d = 0 \/ \E i \in I : d = LossAt(points, i)
  BY DEF ReportInv, DrawdownOK
<1>3. ASSUME NEW i \in I
      PROVE  /\ points[i] \in Nat /\ points[i] > 0 /\ Best(points, i) \in Nat /\ Best(points, i) > 0
             /\ points[i] <= Best(points, i) /\ LossAt(points, i) \in Nat
             /\ \A k \in 1..i : points[k] <= Best(points, i)
  <2>1. i \in 1..Len(points) /\ i \in 0..Len(points) /\ i \in 1..i
    BY <1>1
  <2>2. /\ points[i] \in Nat /\ points[i] > 0 /\ Best(points, i) \in Nat /\ Best(points, i) > 0
        /\ points[i] <= Best(points, i) /\ \A k \in 1..i : points[k] <= Best(points, i)
    BY <1>1, <2>1, BestIs, PointsArePositive
  <2>3. Drawdown(Best(points, i), points[i]) \in Nat
    <3> DEFINE p == Best(points, i)
               e == points[i]
    <3>1. p \in Nat /\ p > 0 /\ e \in Nat /\ e <= p /\ p <= p
      BY <2>2
    <3> HIDE DEF p, e
    <3>2. Drawdown(p, e) \in Nat
      BY <3>1, DeeperFromHigher
    <3> QED BY <3>2 DEF p, e
  <2> QED BY <2>2, <2>3 DEF LossAt
<1>4. IsFiniteSet(V)
  <2>1. IsFiniteSet(I)
    BY <1>1, FS_Interval
  <2> DEFINE g == [i \in I |-> LossAt(points, i)]
  <2>2. V = {g[i] : i \in I}
    OBVIOUS
  <2> HIDE DEF I, V, g
  <2>3. IsFiniteSet({g[i] : i \in I})
    BY <2>1, FiniteValues
  <2> QED BY <2>2, <2>3
<1>5. Max({0} \cup V) = d
  <2>1. (\A x \in V : x \in Nat /\ x <= d) /\ (d = 0 \/ d \in V)
    BY <1>2, <1>3
  <2> HIDE DEF V, d
  <2> QED BY <1>1, <1>4, <2>1, LargestIs
<1>6. V = {Drawdown(BestUntil(i), points[i]) : i \in 1..Len(points)}
  BY DEF LossAt, BestUntil, Best
<1>7. ASSUME NEW i \in I, NEW j \in I, i < j, points[j] < points[i]
      PROVE  Drawdown(points[i], points[j]) <= d
  <2> DEFINE p == points[i]
             q == Best(points, j)
             e == points[j]
  <2>1. p \in Nat /\ p > 0 /\ q \in Nat /\ e \in Nat /\ e <= p
    BY <1>3, <1>7
  <2>2. p <= q
    <3>1. i \in 1..j
      BY <1>1, <1>7
    <3> QED BY <1>3, <3>1
  <2>3. Drawdown(q, e) <= d
    BY <1>2 DEF LossAt
  <2> HIDE DEF p, q, e, d
  <2>4. Drawdown(p, e) \in Nat /\ Drawdown(q, e) \in Nat /\ Drawdown(p, e) <= Drawdown(q, e)
    BY <2>1, <2>2, DeeperFromHigher
  <2>5. Drawdown(p, e) <= d
    BY <1>1, <2>3, <2>4
  <2> QED BY <2>5 DEF p, e
<1> QED BY <1>5, <1>6, <1>7

\* The report of one pass over the equity points of a backtest is that of the points:
\* its drawdown is the largest loss from any earlier value to any later one, its longest
\* time under water the longest of the points, whether it ended or not, and its
\* recoveries and their candles all those that came back.
THEOREM ReportIsOfPoints == ReportSpec => []ReportMatchesPoints
<1>1. ReportInv => ReportMatchesPoints
  <2> SUFFICES ASSUME ReportInv PROVE ReportMatchesPoints
    OBVIOUS
  <2>1. RecoveredAt = RecoveredIn(points)
    <3>1. Len(points) \in Nat
      BY PointsArePositive DEF ReportInv
    <3>2. \A k \in 1..Len(points) : UnderWater(k) <=> Under(points, k)
      BY DEF UnderWater, Under, BestUntil, Best
    <3>3. \A k \in 2..Len(points) : k \in 1..Len(points) /\ k - 1 \in 1..Len(points)
      BY <3>1
    <3> QED BY <3>2, <3>3 DEF RecoveredAt, RecoveredIn
  <2>2. {i \in 1..Len(points) : UnderWater(i) /\ \E j \in RecoveredAt : i < j} = CameBack(points)
    BY <2>1 DEF CameBack, UnderWater, Under, BestUntil, Best
  <2>3. scan.recoveries = Cardinality(RecoveredIn(points)) /\ scan.recovered = Cardinality(CameBack(points))
    BY DEF ReportInv
  <2> QED BY <2>1, <2>2, <2>3, DrawdownIs, LongestIs DEF ReportMatchesPoints
<1> QED BY <1>1, ReportInvHolds, PTL

(***************************************************************************)
(* The simulator.  Its lots and the capital the report finds deployed are    *)
(* functions from levels: what they sum to when a lot comes or goes.         *)
(***************************************************************************)
Maps(V) == UNION {[L -> V] : L \in SUBSET Nat}

LEMMA MapIs ==
    ASSUME NEW V, NEW f \in Maps(V)
    PROVE  DOMAIN f \subseteq Nat /\ f \in [DOMAIN f -> V] /\ \A x \in DOMAIN f : f[x] \in V
<1>1. PICK L \in SUBSET Nat : f \in [L -> V]
  BY DEF Maps
<1> QED BY <1>1

LEMMA MapOf ==
    ASSUME NEW V, NEW L \in SUBSET Nat, NEW f \in [L -> V]
    PROVE  f \in Maps(V)
BY DEF Maps

IsPut(f, x, v, g) ==
    /\ DOMAIN g = DOMAIN f \cup {x} /\ g[x] = v
    /\ \A y \in DOMAIN f : y # x => g[y] = f[y]

LEMMA PutIs ==
    ASSUME NEW V, NEW f, f \in Maps(V), NEW x, x \in Nat, NEW v, v \in V
    PROVE  Put(f, x, v) \in Maps(V) /\ IsPut(f, x, v, Put(f, x, v))
<1>0. PICK g : g = Put(f, x, v)
  OBVIOUS
<1> DEFINE L == DOMAIN f \cup {x}
<1>1. DOMAIN f \subseteq Nat /\ \A y \in DOMAIN f : f[y] \in V
  BY MapIs
<1>2. g = [y \in L |-> IF y = x THEN v ELSE f[y]]
  BY <1>0 DEF Put
<1>3. L \in SUBSET Nat /\ \A y \in L : (IF y = x THEN v ELSE f[y]) \in V
  BY <1>1
<1> HIDE DEF L
<1>4. g \in [L -> V]
  BY <1>2, <1>3
<1>5. g \in Maps(V)
  BY <1>3, <1>4, MapOf
<1>6. IsPut(f, x, v, g)
  BY <1>2 DEF L, IsPut
<1> QED BY <1>0, <1>5, <1>6

LEMMA RestrictIs ==
    ASSUME NEW V, NEW f \in Maps(V), NEW S, S \subseteq DOMAIN f, NEW g, g = Restrict(f, S)
    PROVE  g \in Maps(V) /\ DOMAIN g = S /\ \A y \in S : g[y] = f[y]
<1>1. DOMAIN f \subseteq Nat /\ \A y \in DOMAIN f : f[y] \in V
  BY MapIs
<1>2. g = [y \in S |-> f[y]]
  BY DEF Restrict
<1>3. S \in SUBSET Nat /\ g \in [S -> V]
  BY <1>1, <1>2
<1>4. g \in Maps(V)
  BY <1>3, MapOf
<1> QED BY <1>2, <1>4

LEMMA NoLotsIs == NoLots \in Maps(Lots) /\ DOMAIN NoLots = {}
<1>1. NoLots \in [{} -> Lots] /\ {} \in SUBSET Nat
  BY DEF NoLots
<1> QED BY <1>1, MapOf DEF NoLots

-----------------------------------------------------------------------------
(* Sums over lots *)

CostAt(m) == [l \in DOMAIN m |-> m[l].cost]
CostSum(m) == SumOf(CostAt(m), DOMAIN m)

LEMMA CostsAre ==
    ASSUME NEW m \in Maps(Lots)
    PROVE  \A l \in DOMAIN m : m[l] \in Lots /\ CostAt(m)[l] = m[l].cost /\ CostAt(m)[l] \in Nat
<1> TAKE l \in DOMAIN m
<1>1. m[l] \in Lots
  BY MapIs
<1>2. m[l].cost \in Nat
  BY <1>1 DEF Lots
<1> QED BY <1>1, <1>2 DEF CostAt

LEMMA CostSumIsNat ==
    ASSUME NEW m \in Maps(Lots), IsFiniteSet(DOMAIN m)
    PROVE  CostSum(m) \in Nat
<1>1. \A l \in DOMAIN m : CostAt(m)[l] \in Nat
  BY CostsAre
<1>2. CostSum(m) \in Int
  BY <1>1, SumInteger DEF CostSum
<1> QED BY <1>1, <1>2, SumNonNegative DEF CostSum

LEMMA CostSumPut ==
    ASSUME NEW m \in Maps(Lots), IsFiniteSet(DOMAIN m), NEW x \in Nat, x \notin DOMAIN m,
           NEW v \in Lots, NEW g, g = Put(m, x, v)
    PROVE  IsFiniteSet(DOMAIN g) /\ CostSum(g) = CostSum(m) + v.cost
<1> DEFINE D == DOMAIN m
           E == DOMAIN g
<1>1. g \in Maps(Lots) /\ E = D \cup {x} /\ g[x] = v /\ \A y \in D : y # x => g[y] = m[y]
  <2>1. g \in Maps(Lots) /\ IsPut(m, x, v, g)
    BY PutIs
  <2> QED BY <2>1 DEF IsPut
<1>2. IsFiniteSet(E)
  BY <1>1, FS_AddElement
<1>3. \A l \in E : CostAt(g)[l] \in Int
  BY <1>1, CostsAre
<1>4. \A l \in D : CostAt(g)[l] = CostAt(m)[l]
  BY <1>1, CostsAre
<1>5. CostAt(g)[x] = v.cost
  BY <1>1, CostsAre
<1>6. SumOf(CostAt(g), D \cup {x}) = SumOf(CostAt(g), D) + CostAt(g)[x]
  BY <1>1, <1>3, SumAdd
<1>7. SumOf(CostAt(g), D) = SumOf(CostAt(m), D)
  BY <1>4, SumEqual
<1> QED BY <1>1, <1>2, <1>5, <1>6, <1>7 DEF CostSum

\* What is left and what is taken.
LEMMA CostSumRestrict ==
    ASSUME NEW m \in Maps(Lots), IsFiniteSet(DOMAIN m), NEW S, S \subseteq DOMAIN m,
           NEW g, g = Restrict(m, DOMAIN m \ S)
    PROVE  /\ IsFiniteSet(DOMAIN g) /\ IsFiniteSet(S)
           /\ CostSum(m) = CostSum(g) + SumOf([l \in S |-> m[l].cost], S)
           /\ SumOf([l \in S |-> m[l].cost], S) \in Nat
<1> DEFINE D == DOMAIN m
           R == D \ S
           f == [l \in S |-> m[l].cost]
<1>1. g \in Maps(Lots) /\ DOMAIN g = R /\ \A y \in R : g[y] = m[y]
  <2>1. R \subseteq DOMAIN m
    OBVIOUS
  <2> QED BY <2>1, RestrictIs
<1>2. IsFiniteSet(R) /\ IsFiniteSet(S)
  BY FS_Subset
<1>3. R \cap S = {} /\ D = R \cup S
  OBVIOUS
<1>4. \A l \in D : CostAt(m)[l] \in Int
  BY CostsAre
<1>5. \A l \in R : CostAt(g)[l] = CostAt(m)[l]
  <2> TAKE l \in R
  <2>1. l \in DOMAIN g /\ l \in D /\ g[l] = m[l]
    BY <1>1
  <2>2. CostAt(g)[l] = g[l].cost
    BY <1>1, <2>1 DEF CostAt
  <2>3. CostAt(m)[l] = m[l].cost
    BY <2>1 DEF CostAt
  <2> QED BY <2>1, <2>2, <2>3
<1>6. \A l \in S : f[l] = CostAt(m)[l] /\ f[l] \in Nat
  BY CostsAre
<1> HIDE DEF f, R
<1>7. SumOf(CostAt(m), R \cup S) = SumOf(CostAt(m), R) + SumOf(CostAt(m), S)
  BY <1>2, <1>3, <1>4, SumUnion
<1>8. SumOf(CostAt(g), R) = SumOf(CostAt(m), R)
  BY <1>2, <1>5, SumEqual
<1>9. SumOf(f, S) = SumOf(CostAt(m), S)
  BY <1>2, <1>6, SumEqual
<1>10. SumOf(f, S) \in Nat
  <2>1. SumOf(f, S) \in Int
    BY <1>2, <1>6, SumInteger
  <2> QED BY <1>2, <1>6, <2>1, SumNonNegative
<1>11. CostSum(m) = CostSum(g) + SumOf(f, S)
  BY <1>1, <1>3, <1>7, <1>8, <1>9 DEF CostSum
<1> QED BY <1>1, <1>2, <1>10, <1>11 DEF f

\* The report's map of costs sums to the same.
LEMMA SameCosts ==
    ASSUME NEW m \in Maps(Lots), IsFiniteSet(DOMAIN m), NEW f, DOMAIN f = DOMAIN m,
           \A l \in DOMAIN m : f[l] = m[l].cost
    PROVE  SumFunctionOnSet(f, DOMAIN f) = CostSum(m)
<1>1. \A l \in DOMAIN m : f[l] = CostAt(m)[l]
  BY CostsAre
<1>2. SumOf(f, DOMAIN m) = SumOf(CostAt(m), DOMAIN m)
  BY <1>1, SumEqual
<1> QED BY <1>2, SumFunctionIsSum DEF CostSum

-----------------------------------------------------------------------------
(* Amounts *)

\* A fee is less than what it is taken from.
LEMMA FeeIs ==
    ASSUME NEW q \in Nat
    PROVE  Fee(q) \in Nat /\ Fee(q) <= q /\ q - Fee(q) \in Nat
<1> DEFINE a == q * FeePercent
           d == a \div 100
<1>1. FeePercent \in Nat /\ FeePercent <= 100
  BY SimulatorAssumption
<1>2. a \in Nat /\ a <= q * 100
  BY <1>1, KeepsOrder
<1> HIDE DEF a
<1>3. d \in Nat /\ d <= q
  BY <1>2
<1> QED BY <1>3 DEF Fee, a

LEMMA NetIs ==
    ASSUME NEW lot \in Lots, sim.price \in Nat
    PROVE  Net(lot) \in Nat
<1> DEFINE gross == lot.quantity * sim.price
<1>1. gross \in Nat
  BY DEF Lots
<1> HIDE DEF gross
<1>2. gross - Fee(gross) \in Nat
  BY <1>1, FeeIs
<1> QED BY <1>2 DEF Net, gross

LEMMA QuantityIs ==
    ASSUME NEW spend \in Nat, sim.price \in Nat, sim.price > 0
    PROVE  Quantity(spend) \in Nat
<1> DEFINE a == spend - Fee(spend)
<1>1. a \in Nat
  BY FeeIs
<1> HIDE DEF a
<1>2. a \div sim.price \in Nat
  BY <1>1, WholePart
<1> QED BY <1>2 DEF Quantity, a

-----------------------------------------------------------------------------
(* What the simulation keeps *)

SimRows ==
    [bot : SimulatedBots, phase : Phases, candle : Nat, price : Nat,
     signals : [dip : BOOLEAN, bounce : BOOLEAN], balance : Nat, parent : Lots, legs : Maps(Lots),
     entries : Nat, cycleEntry : Nat, lastEntry : Nat, recovery : BOOLEAN, recoveryCount : Nat,
     anchor : Lots, awaiting : BOOLEAN, cycles : Nat, stops : Nat]
DeployedRows == [parent : Nat, legs : Maps(Nat), most : Nat]
TradeRows == [entries : Nat, exits : Nat, spent : Int, received : Int, realized : Int,
              deployed : DeployedRows]

Exposure(s) == s.parent.cost + CostSum(s.legs)

\* Every lot holds something, and the levels of the legs are those bought in this cycle.
LotsOK(s) ==
    /\ s \in SimRows
    /\ DOMAIN s.legs \subseteq 1..s.entries
    /\ \A l \in DOMAIN s.legs : s.legs[l].quantity > 0
    /\ s.parent.quantity = 0 => s.parent.cost = 0
    /\ Exposure(s) <= s.bot.riskBudget

CycleOK(s) ==
    /\ s.phase # "candle" => s.price > 0 /\ s.candle > 0 /\ ~s.awaiting
    /\ s.awaiting => s.candle > 0 /\ s.parent.quantity = 0 /\ DOMAIN s.legs = {}
    /\ s.recovery => s.parent.quantity > 0
    /\ s.entries = 0 => ~s.recovery /\ s.anchor = NoAnchor

\* The report knows the lots by what was paid for them.
ReportOf(s, d) ==
    /\ d \in DeployedRows /\ d.parent = s.parent.cost /\ DOMAIN d.legs = DOMAIN s.legs
    /\ \A l \in DOMAIN s.legs : d.legs[l] = s.legs[l].cost
    /\ d.most <= s.bot.riskBudget

Books(s, t) ==
    /\ t \in TradeRows
    /\ s.balance + Exposure(s) = Capital + t.realized
    /\ s.balance = Capital - t.spent + t.received
    /\ ReportOf(s, t.deployed)

SimInv == LotsOK(sim) /\ CycleOK(sim) /\ Books(sim, trades)

LEMMA RowIs ==
    ASSUME NEW s \in SimRows
    PROVE  /\ s.bot \in SimulatedBots /\ s.phase \in Phases /\ s.candle \in Nat /\ s.price \in Nat
           /\ s.balance \in Nat /\ s.parent \in Lots /\ s.parent.quantity \in Nat
           /\ s.parent.cost \in Nat /\ s.legs \in Maps(Lots) /\ s.entries \in Nat
           /\ s.recovery \in BOOLEAN /\ s.recoveryCount \in Nat /\ s.anchor \in Lots
           /\ s.awaiting \in BOOLEAN /\ s.bot.riskBudget \in Nat /\ s.cycles \in Nat /\ s.stops \in Nat
BY SimulatorAssumption DEF SimRows, Lots

LEMMA LotsAre ==
    ASSUME NEW s, LotsOK(s)
    PROVE  /\ s \in SimRows /\ IsFiniteSet(DOMAIN s.legs) /\ CostSum(s.legs) \in Nat
           /\ Exposure(s) \in Nat
           /\ \A l \in DOMAIN s.legs : s.legs[l] \in Lots
<1>1. s \in SimRows /\ s.legs \in Maps(Lots) /\ s.entries \in Nat /\ s.parent.cost \in Nat
  BY RowIs DEF LotsOK
<1>2. IsFiniteSet(DOMAIN s.legs)
  <2>1. PICK n \in Nat : n = s.entries
    BY <1>1
  <2>2. IsFiniteSet(1..n)
    BY FS_Interval
  <2> QED BY <2>1, <2>2, FS_Subset DEF LotsOK
<1>3. CostSum(s.legs) \in Nat
  BY <1>1, <1>2, CostSumIsNat
<1> QED BY <1>1, <1>2, <1>3, MapIs DEF Exposure

FitsIn(d, m, c, b) ==
    /\ d \in DeployedRows /\ d.parent = c /\ DOMAIN d.legs = DOMAIN m
    /\ \A l \in DOMAIN m : d.legs[l] = m[l].cost
    /\ d.most <= b
HighestOf(d, e, c, b) == e \in DeployedRows /\ e.parent = c /\ e.legs = d.legs /\ e.most <= b

LEMMA HighestIs ==
    ASSUME NEW m, m \in Maps(Lots), IsFiniteSet(DOMAIN m), NEW c, c \in Nat, NEW b, b \in Nat,
           c + CostSum(m) <= b, NEW d, FitsIn(d, m, c, b), NEW e, e = Highest(d)
    PROVE  HighestOf(d, e, c, b)
<1>0. /\ d \in DeployedRows /\ d.parent = c /\ DOMAIN d.legs = DOMAIN m
      /\ \A l \in DOMAIN m : d.legs[l] = m[l].cost
      /\ d.most <= b
  BY DEF FitsIn
<1> DEFINE x == DeployedQuote(d)
           y == IF x > d.most THEN x ELSE d.most
<1>1. x = c + CostSum(m)
  <2>1. \E f : f = d.legs
    OBVIOUS
  <2>2. PICK f : f = d.legs
    BY <2>1
  <2>3. SumFunctionOnSet(f, DOMAIN f) = CostSum(m)
    BY <1>0, <2>2, SameCosts
  <2> QED BY <1>0, <2>2, <2>3 DEF DeployedQuote
<1>2. x \in Nat /\ x <= b
  <2>1. CostSum(m) \in Nat
    BY CostSumIsNat
  <2> QED BY <1>1, <2>1
<1>3. d.most \in Nat /\ e = [d EXCEPT !.most = y]
  BY <1>0 DEF DeployedRows, Highest
<1> HIDE DEF x
<1>4. y \in Nat /\ y <= b
  BY <1>0, <1>2, <1>3
<1> HIDE DEF y
<1>5. e \in DeployedRows /\ e.parent = d.parent /\ e.legs = d.legs /\ e.most = y
  BY <1>0, <1>3, <1>4 DEF DeployedRows
<1> QED BY <1>0, <1>4, <1>5 DEF HighestOf

\* The trade of a purchase.
SpentTrade(t, type, level, spend) ==
    [t EXCEPT !.entries = @ + 1, !.spent = @ + spend,
              !.deployed = DeployedAfter(@, [type |-> type, level |-> level, quote |-> spend])]

WithPurchase(t, spend, e) == [t EXCEPT !.entries = @ + 1, !.spent = @ + spend, !.deployed = e]
Purchased(t, r, spend, e) ==
    /\ r \in TradeRows /\ r.realized = t.realized /\ r.received = t.received
    /\ r.spent = t.spent + spend /\ r.deployed = e

LEMMA TradeSpent ==
    ASSUME NEW t, t \in TradeRows, NEW spend, spend \in Nat, NEW e, e \in DeployedRows,
           NEW r, r = WithPurchase(t, spend, e)
    PROVE  Purchased(t, r, spend, e)
<1> DEFINE n == t.entries + 1
           x == t.spent + spend
<1>1. n \in Nat /\ x \in Int
  BY DEF TradeRows
<1>2. r = [t EXCEPT !.entries = n, !.spent = x, !.deployed = e]
  BY DEF TradeRows, WithPurchase
<1> HIDE DEF n, x
<1>3. /\ r \in TradeRows /\ r.realized = t.realized /\ r.received = t.received
      /\ r.spent = x /\ r.deployed = e
  BY <1>1, <1>2 DEF TradeRows
<1> QED BY <1>3 DEF x, Purchased

\* A purchase of the parent, or of a recovery leg that joins it.
LEMMA ParentBought ==
    ASSUME NEW s, LotsOK(s), NEW t, Books(s, t), NEW spend \in Nat,
           Exposure(s) + spend <= s.bot.riskBudget, NEW type, type # "INDEPENDENT_ENTRY", NEW level,
           NEW q \in SimRows, q.bot = s.bot, q.legs = s.legs, q.parent.cost = s.parent.cost + spend,
           q.balance = s.balance - spend, NEW r, r = SpentTrade(t, type, level, spend)
    PROVE  Books(q, r) /\ Exposure(q) = Exposure(s) + spend
<1> DEFINE d == t.deployed
           m == s.legs
           c == s.parent.cost + spend
           b == s.bot.riskBudget
           k == [d EXCEPT !.parent = @ + spend]
<1>1. /\ s \in SimRows /\ IsFiniteSet(DOMAIN m) /\ CostSum(m) \in Nat /\ m \in Maps(Lots)
      /\ s.parent.cost \in Nat /\ b \in Nat /\ s.balance \in Nat
  BY LotsAre, RowIs
<1>2. /\ t \in TradeRows /\ d \in DeployedRows /\ d.parent = s.parent.cost /\ DOMAIN d.legs = DOMAIN m
      /\ \A l \in DOMAIN m : d.legs[l] = m[l].cost
      /\ d.most <= b
      /\ s.balance + Exposure(s) = Capital + t.realized
      /\ s.balance = Capital - t.spent + t.received
  BY DEF Books, ReportOf
<1>3. Exposure(q) = Exposure(s) + spend /\ Exposure(q) = c + CostSum(m) /\ c \in Nat
      /\ c + CostSum(m) <= b
  BY <1>1 DEF Exposure
<1>4. /\ k \in DeployedRows /\ k.parent = c /\ k.legs = d.legs /\ k.most = d.most
  BY <1>1, <1>2 DEF DeployedRows
<1>5. \E e : e = Highest(k)
  OBVIOUS
<1>6. PICK e : e = Highest(k)
  BY <1>5
<1>7. e = DeployedAfter(d, [type |-> type, level |-> level, quote |-> spend])
  BY <1>6 DEF DeployedAfter
<1> HIDE DEF k, c, b, m, d
<1>8. e \in DeployedRows /\ e.parent = c /\ e.legs = k.legs /\ e.most <= b
  <2>1. FitsIn(k, m, c, b)
    BY <1>2, <1>4 DEF FitsIn
  <2>2. HighestOf(k, e, c, b)
    BY <1>1, <1>3, <1>6, <2>1, HighestIs
  <2> QED BY <2>2 DEF HighestOf
<1>9. r = WithPurchase(t, spend, e)
  BY <1>7 DEF SpentTrade, WithPurchase, d
<1>10. /\ r \in TradeRows /\ r.realized = t.realized /\ r.received = t.received
       /\ r.spent = t.spent + spend /\ r.deployed = e
  <2>1. spend \in Nat /\ t \in TradeRows /\ e \in DeployedRows
    BY <1>2, <1>8
  <2>2. Purchased(t, r, spend, e)
    BY <1>9, <2>1, TradeSpent
  <2> QED BY <2>2 DEF Purchased
<1>11. ReportOf(q, e)
  BY <1>2, <1>4, <1>8 DEF ReportOf, c, m, b
<1>12. /\ t.realized \in Int /\ t.received \in Int /\ t.spent \in Int /\ Capital \in Nat
       /\ Exposure(s) \in Nat
  BY <1>2, LotsAre, ReportAssumption DEF TradeRows
<1>13. q.balance + Exposure(q) = Capital + r.realized
       /\ q.balance = Capital - r.spent + r.received
  BY <1>1, <1>2, <1>3, <1>10, <1>12
<1> QED BY <1>3, <1>10, <1>11, <1>13 DEF Books

\* A purchase of a leg at a level that has none.
LEMMA LegBought ==
    ASSUME NEW s, LotsOK(s), NEW t, Books(s, t), NEW spend \in Nat,
           Exposure(s) + spend <= s.bot.riskBudget, NEW level \in Nat, level \notin DOMAIN s.legs,
           NEW lot \in Lots, lot.cost = spend, NEW g, g = Put(s.legs, level, lot),
           NEW q \in SimRows, q.bot = s.bot, q.legs = g, q.parent = s.parent,
           q.balance = s.balance - spend, NEW r, r = SpentTrade(t, "INDEPENDENT_ENTRY", level, spend)
    PROVE  Books(q, r) /\ Exposure(q) = Exposure(s) + spend
<1> DEFINE d == t.deployed
           m == s.legs
           c == s.parent.cost
           b == s.bot.riskBudget
<1>1. /\ s \in SimRows /\ IsFiniteSet(DOMAIN m) /\ CostSum(m) \in Nat /\ m \in Maps(Lots)
      /\ c \in Nat /\ b \in Nat /\ s.balance \in Nat
  BY LotsAre, RowIs
<1>2. /\ t \in TradeRows /\ d \in DeployedRows /\ d.parent = c /\ DOMAIN d.legs = DOMAIN m
      /\ \A l \in DOMAIN m : d.legs[l] = m[l].cost
      /\ d.most <= b
      /\ s.balance + Exposure(s) = Capital + t.realized
      /\ s.balance = Capital - t.spent + t.received
  BY DEF Books, ReportOf
<1>3. /\ g \in Maps(Lots) /\ DOMAIN g = DOMAIN m \cup {level} /\ g[level] = lot
      /\ \A l \in DOMAIN m : l # level => g[l] = m[l]
  <2>1. g \in Maps(Lots) /\ IsPut(m, level, lot, g)
    BY <1>1, PutIs
  <2> QED BY <2>1 DEF IsPut
<1>4. IsFiniteSet(DOMAIN g) /\ CostSum(g) = CostSum(m) + spend
  BY <1>1, CostSumPut
<1>5. Exposure(q) = Exposure(s) + spend /\ Exposure(q) = c + CostSum(g) /\ c + CostSum(g) <= b
  BY <1>1, <1>4 DEF Exposure
<1>6. \E f, k : f = Put(d.legs, level, spend) /\ k = [d EXCEPT !.legs = f]
  OBVIOUS
<1>7. PICK f, k : f = Put(d.legs, level, spend) /\ k = [d EXCEPT !.legs = f]
  BY <1>6
<1>8. d.legs \in Maps(Nat) /\ d.parent \in Nat
  BY <1>2 DEF DeployedRows
<1>9. PICK h : h = d.legs
  OBVIOUS
<1>10. /\ f \in Maps(Nat) /\ DOMAIN f = DOMAIN m \cup {level} /\ f[level] = spend
       /\ \A l \in DOMAIN m : l # level => f[l] = d.legs[l]
  <2>1. h \in Maps(Nat) /\ f = Put(h, level, spend)
    BY <1>7, <1>8, <1>9
  <2>2. /\ f \in Maps(Nat) /\ DOMAIN f = DOMAIN h \cup {level} /\ f[level] = spend
        /\ \A l \in DOMAIN h : l # level => f[l] = h[l]
    <3>1. f \in Maps(Nat) /\ IsPut(h, level, spend, f)
      BY <2>1, PutIs
    <3> QED BY <3>1 DEF IsPut
  <2> QED BY <1>2, <1>9, <2>2
<1>11. k \in DeployedRows /\ k.parent = c /\ k.legs = f /\ k.most = d.most
  BY <1>2, <1>7, <1>10 DEF DeployedRows
<1>12. \A l \in DOMAIN g : f[l] = g[l].cost
  BY <1>2, <1>3, <1>10
<1>13. \E e : e = Highest(k)
  OBVIOUS
<1>14. PICK e : e = Highest(k)
  BY <1>13
<1>15. e = DeployedAfter(d, [type |-> "INDEPENDENT_ENTRY", level |-> level, quote |-> spend])
  BY <1>7, <1>14 DEF DeployedAfter
<1> HIDE DEF c, b, m, d
<1>16. e \in DeployedRows /\ e.parent = c /\ e.legs = k.legs /\ e.most <= b
  <2>1. DOMAIN k.legs = DOMAIN g /\ (\A l \in DOMAIN g : k.legs[l] = g[l].cost) /\ k.most <= b
    BY <1>2, <1>3, <1>10, <1>11, <1>12
  <2>2. FitsIn(k, g, c, b)
    BY <1>11, <2>1 DEF FitsIn
  <2>3. HighestOf(k, e, c, b)
    BY <1>1, <1>3, <1>4, <1>5, <1>14, <2>2, HighestIs
  <2> QED BY <2>3 DEF HighestOf
<1>17. r = WithPurchase(t, spend, e)
  BY <1>15 DEF SpentTrade, WithPurchase, d
<1>18. /\ r \in TradeRows /\ r.realized = t.realized /\ r.received = t.received
       /\ r.spent = t.spent + spend /\ r.deployed = e
  <2>1. spend \in Nat /\ t \in TradeRows /\ e \in DeployedRows
    BY <1>2, <1>16
  <2>2. Purchased(t, r, spend, e)
    BY <1>17, <2>1, TradeSpent
  <2> QED BY <2>2 DEF Purchased
<1>19. ReportOf(q, e)
  <2>1. DOMAIN e.legs = DOMAIN g /\ \A l \in DOMAIN g : e.legs[l] = g[l].cost
    BY <1>3, <1>10, <1>11, <1>12, <1>16
  <2> QED BY <1>16, <2>1 DEF ReportOf, c, b
<1>20. /\ t.realized \in Int /\ t.received \in Int /\ t.spent \in Int /\ Capital \in Nat
       /\ Exposure(s) \in Nat
  BY <1>2, LotsAre, ReportAssumption DEF TradeRows
<1>21. q.balance + Exposure(q) = Capital + r.realized
       /\ q.balance = Capital - r.spent + r.received
  BY <1>1, <1>2, <1>5, <1>18, <1>20
<1> QED BY <1>5, <1>18, <1>19, <1>21 DEF Books

\* The trades of a sale that brings p for lots that cost k.
WithSale(t, n, p, k, e) ==
    [t EXCEPT !.exits = @ + n, !.received = @ + p, !.realized = @ + p - k, !.deployed = e]
SoldFor(t, r, p, k, e) ==
    /\ r \in TradeRows /\ r.realized = t.realized + p - k /\ r.received = t.received + p
    /\ r.spent = t.spent /\ r.deployed = e

LEMMA TradeSold ==
    ASSUME NEW t, t \in TradeRows, NEW n, n \in Nat, NEW p, p \in Nat, NEW k, k \in Nat,
           NEW e, e \in DeployedRows, NEW r, r = WithSale(t, n, p, k, e)
    PROVE  SoldFor(t, r, p, k, e)
<1> DEFINE a == t.exits + n
           b == t.received + p
           c == t.realized + p - k
<1>1. a \in Nat /\ b \in Int /\ c \in Int
  BY DEF TradeRows
<1>2. r = [t EXCEPT !.exits = a, !.received = b, !.realized = c, !.deployed = e]
  BY DEF TradeRows, WithSale
<1> HIDE DEF a, b, c
<1>3. /\ r \in TradeRows /\ r.realized = c /\ r.received = b
      /\ r.spent = t.spent /\ r.deployed = e
  BY <1>1, <1>2 DEF TradeRows
<1> QED BY <1>3 DEF b, c, SoldFor

\* What the lots sold together cost.
CostOfSale(s, parentSold, S) ==
    (IF parentSold THEN s.parent.cost ELSE 0) + SumOf([l \in S |-> s.legs[l].cost], S)

\* From the rows s and t to the rows q and r, by such a sale.
SaleStep(s, t, parentSold, S, p, n, k, g, e, q, r) ==
    /\ S \subseteq DOMAIN s.legs /\ p \in Nat /\ n \in Nat /\ k = CostOfSale(s, parentSold, S)
    /\ g = Restrict(s.legs, DOMAIN s.legs \ S)
    /\ q \in SimRows /\ q.bot = s.bot /\ q.legs = g /\ q.balance = s.balance + p
    /\ parentSold => q.parent.cost = 0
    /\ ~parentSold => q.parent.cost = s.parent.cost
    /\ e = DeployedAfterExits(t.deployed, parentSold, S) /\ r = WithSale(t, n, p, k, e)
Booked(s, q, r) == Books(q, r) /\ Exposure(q) <= s.bot.riskBudget

LEMMA SaleBooked ==
    ASSUME NEW s, LotsOK(s), NEW t, Books(s, t), NEW parentSold \in BOOLEAN, NEW S, NEW p, NEW n,
           NEW k, NEW g, NEW e, NEW q, NEW r, SaleStep(s, t, parentSold, S, p, n, k, g, e, q, r)
    PROVE  Booked(s, q, r)
<1>0. /\ S \subseteq DOMAIN s.legs /\ p \in Nat /\ n \in Nat /\ k = CostOfSale(s, parentSold, S)
      /\ g = Restrict(s.legs, DOMAIN s.legs \ S)
      /\ q \in SimRows /\ q.bot = s.bot /\ q.legs = g /\ q.balance = s.balance + p
      /\ parentSold => q.parent.cost = 0
      /\ ~parentSold => q.parent.cost = s.parent.cost
      /\ e = DeployedAfterExits(t.deployed, parentSold, S) /\ r = WithSale(t, n, p, k, e)
  BY DEF SaleStep
<1> DEFINE d == t.deployed
           m == s.legs
           c == IF parentSold THEN 0 ELSE s.parent.cost
           b == s.bot.riskBudget
           sum == SumOf([l \in S |-> m[l].cost], S)
<1>1. /\ s \in SimRows /\ IsFiniteSet(DOMAIN m) /\ CostSum(m) \in Nat /\ m \in Maps(Lots)
      /\ s.parent.cost \in Nat /\ c \in Nat /\ b \in Nat /\ s.balance \in Nat
      /\ Exposure(s) = s.parent.cost + CostSum(m) /\ Exposure(s) <= b
  BY LotsAre, RowIs DEF Exposure, LotsOK
<1>2. /\ t \in TradeRows /\ d \in DeployedRows /\ d.parent = s.parent.cost /\ DOMAIN d.legs = DOMAIN m
      /\ \A l \in DOMAIN m : d.legs[l] = m[l].cost
      /\ d.most <= b
      /\ s.balance + Exposure(s) = Capital + t.realized
      /\ s.balance = Capital - t.spent + t.received
  BY <1>0 DEF Books, ReportOf
<1>3. g \in Maps(Lots) /\ DOMAIN g = DOMAIN m \ S /\ \A l \in DOMAIN g : g[l] = m[l]
  <2>1. DOMAIN m \ S \subseteq DOMAIN m
    OBVIOUS
  <2>2. PICK f : f = m
    OBVIOUS
  <2>3. f \in Maps(Lots) /\ DOMAIN f \ S \subseteq DOMAIN f /\ g = Restrict(f, DOMAIN f \ S)
    BY <1>0, <1>1, <2>1, <2>2
  <2> QED BY <1>0, <2>2, <2>3, RestrictIs
<1>4. IsFiniteSet(DOMAIN g) /\ CostSum(m) = CostSum(g) + sum /\ sum \in Nat
  BY <1>0, <1>1, CostSumRestrict
<1>5. k = (IF parentSold THEN s.parent.cost ELSE 0) + sum
  BY <1>0 DEF CostOfSale
<1>6. CostSum(g) \in Nat
  BY <1>0, <1>3, <1>4, CostSumIsNat
<1> HIDE DEF sum
<1>7. /\ k \in Nat /\ Exposure(q) = Exposure(s) - k /\ Exposure(q) = c + CostSum(g)
      /\ c + CostSum(g) <= b /\ Exposure(q) \in Nat
  BY <1>0, <1>1, <1>4, <1>5, <1>6 DEF Exposure
<1>8. PICK f, h : h = d.legs /\ f = Restrict(h, DOMAIN h \ S)
  OBVIOUS
<1>9. \E x : x = [d EXCEPT !.parent = c, !.legs = f]
  OBVIOUS
<1>10. PICK x : x = [d EXCEPT !.parent = c, !.legs = f]
  BY <1>0, <1>9
<1>11. d.legs \in Maps(Nat) /\ d.parent \in Nat
  BY <1>0, <1>2 DEF DeployedRows
<1>12. f \in Maps(Nat) /\ DOMAIN f = DOMAIN m \ S /\ \A l \in DOMAIN f : f[l] = h[l]
  <2>1. h \in Maps(Nat) /\ DOMAIN h \ S \subseteq DOMAIN h
    BY <1>0, <1>8, <1>11
  <2>2. f \in Maps(Nat) /\ DOMAIN f = DOMAIN h \ S /\ \A l \in DOMAIN h \ S : f[l] = h[l]
    BY <1>0, <1>8, <2>1, RestrictIs
  <2> QED BY <1>0, <1>2, <1>8, <2>2
<1>13. x \in DeployedRows /\ x.parent = c /\ x.legs = f /\ x.most = d.most
  BY <1>0, <1>1, <1>2, <1>10, <1>12 DEF DeployedRows
<1>14. \A l \in DOMAIN g : f[l] = g[l].cost
  BY <1>0, <1>2, <1>3, <1>8, <1>12
<1>15. e = Highest(x)
  <2>1. x = [d EXCEPT !.parent = IF parentSold THEN 0 ELSE @, !.legs = Restrict(@, DOMAIN @ \ S)]
    BY <1>0, <1>2, <1>8, <1>10 DEF DeployedRows
  <2> QED BY <1>0, <2>1 DEF DeployedAfterExits
<1> HIDE DEF c, b, m, d
<1>16. e \in DeployedRows /\ e.parent = c /\ e.legs = f /\ e.most <= b
  <2>1. DOMAIN x.legs = DOMAIN g /\ (\A l \in DOMAIN g : x.legs[l] = g[l].cost) /\ x.most <= b
    BY <1>0, <1>2, <1>3, <1>12, <1>13, <1>14
  <2>2. /\ c \in Nat /\ b \in Nat /\ c + CostSum(g) <= b /\ x \in DeployedRows /\ x.parent = c
        /\ g \in Maps(Lots) /\ IsFiniteSet(DOMAIN g)
    BY <1>0, <1>1, <1>3, <1>4, <1>7, <1>13
  <2>3. FitsIn(x, g, c, b)
    BY <1>0, <2>1, <2>2 DEF FitsIn
  <2>4. HighestOf(x, e, c, b)
    BY <1>0, <1>15, <2>2, <2>3, HighestIs
  <2> QED BY <1>0, <1>13, <2>4 DEF HighestOf
<1>17. /\ r \in TradeRows /\ r.realized = t.realized + p - k /\ r.received = t.received + p
       /\ r.spent = t.spent /\ r.deployed = e
  <2>1. p \in Nat /\ n \in Nat /\ k \in Nat /\ t \in TradeRows /\ e \in DeployedRows
    BY <1>0, <1>2, <1>7, <1>16
  <2>2. SoldFor(t, r, p, k, e)
    BY <1>0, <2>1, TradeSold
  <2> QED BY <1>0, <2>2 DEF SoldFor
<1>18. ReportOf(q, e)
  <2>1. DOMAIN e.legs = DOMAIN g /\ \A l \in DOMAIN g : e.legs[l] = g[l].cost
    BY <1>0, <1>3, <1>12, <1>14, <1>16
  <2>2. q.parent.cost = c /\ q.bot.riskBudget = b
    BY <1>0 DEF c, b
  <2> QED BY <1>0, <1>16, <2>1, <2>2 DEF ReportOf
<1>19. /\ t.realized \in Int /\ t.received \in Int /\ t.spent \in Int /\ Capital \in Nat
       /\ Exposure(s) \in Nat
  BY <1>0, <1>2, LotsAre, ReportAssumption DEF TradeRows
<1>20. q.balance + Exposure(q) = Capital + r.realized
       /\ q.balance = Capital - r.spent + r.received
  BY <1>0, <1>1, <1>2, <1>7, <1>17, <1>19
<1>21. Exposure(q) <= s.bot.riskBudget
  BY <1>0, <1>7 DEF b
<1> QED BY <1>0, <1>17, <1>18, <1>20, <1>21 DEF Books, Booked

\* A step that buys and sells nothing.
LEMMA NothingTraded ==
    ASSUME NEW s, LotsOK(s), NEW t, Books(s, t), NEW q \in SimRows, q.bot = s.bot,
           q.balance = s.balance, q.parent = s.parent, q.legs = s.legs,
           DOMAIN s.legs = {} \/ q.entries = s.entries
    PROVE  LotsOK(q) /\ Books(q, t)
<1>1. Exposure(q) = Exposure(s)
  BY DEF Exposure
<1>2. LotsOK(q)
  BY <1>1 DEF LotsOK
<1>3. ReportOf(q, t.deployed)
  BY DEF Books, ReportOf
<1> QED BY <1>1, <1>2, <1>3 DEF Books

-----------------------------------------------------------------------------
(* The steps of a candle *)

LEMMA BotIs ==
    ASSUME SimInv
    PROVE  /\ Bot \in SimulatedBots /\ Bot.maxDcaOrders \in Nat /\ Bot.independentFrom \in Nat
           /\ Bot.independentFrom >= 2
           /\ Bot.riskBudget \in Nat /\ Bot.baseOrder \in Nat
           /\ Bot.recoveryMultipliers \in Seq(Nat) /\ Bot.recoveryMaxOrders \in Nat
           /\ Bot.recoveryMaxOrders <= Len(Bot.recoveryMultipliers)
           /\ \A l \in 1..(Bot.maxDcaOrders + 1) : Bot.baseOrder * MultiplierForLevel(Bot, l) \in Nat
<1>1. \E s : s = Bot
  OBVIOUS
<1>2. PICK s : s = Bot
  BY <1>1
<1>3. s \in SimulatedBots
  BY <1>2, RowIs DEF SimInv, LotsOK, Bot
<1>4. ValidPlanInput(s) /\ ValidRecovery(s)
  BY <1>3, SimulatorAssumption
<1>5. s.maxDcaOrders \in Nat /\ s.independentFrom \in Nat /\ s.independentFrom >= 2
  BY <1>4 DEF ValidPlanInput, MaxDcaLevels
<1>6. s.recoveryMaxOrders \in Nat /\ s.recoveryMaxOrders <= Len(s.recoveryMultipliers)
  BY <1>4 DEF ValidRecovery
<1>7. /\ s.riskBudget \in Nat /\ s.baseOrder \in Nat /\ s.recoveryMultipliers \in Seq(Nat)
      /\ \A l \in 1..(s.maxDcaOrders + 1) : s.baseOrder * MultiplierForLevel(s, l) \in Nat
  BY <1>3, SimulatorAssumption
<1> QED BY <1>2, <1>3, <1>5, <1>6, <1>7

LEMMA BasketCostIs ==
    ASSUME SimInv
    PROVE  SimBasket.cost = Exposure(sim)
<1>1. SimBasket.cost = sim.parent.cost + SumFunctionOnSet(CostAt(sim.legs), DOMAIN sim.legs)
  BY DEF SimBasket, CostAt
<1> QED BY <1>1, SumFunctionIsSum DEF Exposure, CostSum

\* What is left of the budget.
LEMMA RemainingIs ==
    ASSUME SimInv
    PROVE  /\ RiskRemaining \in Nat /\ Exposure(sim) \in Nat
           /\ Exposure(sim) + RiskRemaining <= sim.bot.riskBudget
<1>1. Exposure(sim) \in Nat /\ sim.bot.riskBudget \in Nat /\ Exposure(sim) <= sim.bot.riskBudget
  BY LotsAre, RowIs DEF SimInv, LotsOK
<1>2. RiskRemaining = Positive(sim.bot.riskBudget - Exposure(sim))
  BY BasketCostIs DEF RiskRemaining, Bot
<1> QED BY <1>1, <1>2 DEF Positive

LEMMA SimInvInit == SimulatorInit => SimInv
<1> SUFFICES ASSUME SimulatorInit PROVE SimInv
  OBVIOUS
<1>1. NoLots \in Maps(Lots) /\ DOMAIN NoLots = {} /\ Nothing \in Lots /\ NoAnchor \in Lots
      /\ Capital \in Nat
  BY NoLotsIs, ReportAssumption DEF Lots, Nothing, NoAnchor
<1>2. sim \in SimRows
  <2>1. [dip |-> FALSE, bounce |-> FALSE] \in [dip : BOOLEAN, bounce : BOOLEAN]
    OBVIOUS
  <2>2. PICK b \in SimulatedBots :
            sim = [bot |-> b, phase |-> "candle", candle |-> 0, price |-> 0,
                   signals |-> [dip |-> FALSE, bounce |-> FALSE],
                   balance |-> Capital, parent |-> Nothing, legs |-> NoLots, entries |-> 0,
                   cycleEntry |-> 0, lastEntry |-> 0, recovery |-> FALSE, recoveryCount |-> 0,
                   anchor |-> NoAnchor, awaiting |-> FALSE, cycles |-> 0, stops |-> 0]
    BY DEF SimulatorInit
  <2>3. "candle" \in Phases /\ 0 \in Nat /\ FALSE \in BOOLEAN
    BY DEF Phases
  <2> QED BY <1>1, <2>1, <2>2, <2>3 DEF SimRows
<1>3. /\ sim.legs = NoLots /\ sim.parent = Nothing /\ sim.phase = "candle" /\ ~sim.awaiting
      /\ ~sim.recovery /\ sim.anchor = NoAnchor /\ sim.balance = Capital
  BY DEF SimulatorInit
<1>4. CostSum(NoLots) = 0
  BY <1>1, SumEmpty DEF CostSum
<1>5. Exposure(sim) = 0 /\ sim.bot.riskBudget \in Nat
  BY <1>2, <1>3, <1>4, RowIs DEF Exposure, Nothing
<1>6. LotsOK(sim)
  BY <1>1, <1>2, <1>3, <1>5 DEF LotsOK, Nothing
<1>7. CycleOK(sim)
  BY <1>3 DEF CycleOK
<1>8. NothingDeployed \in DeployedRows
  <2>1. [l \in {} |-> 0] \in [{} -> Nat] /\ {} \in SUBSET Nat
    OBVIOUS
  <2>2. [l \in {} |-> 0] \in Maps(Nat)
    BY <2>1, MapOf
  <2> QED BY <2>2 DEF NothingDeployed, DeployedRows
<1>9. ReportOf(sim, NothingDeployed)
  BY <1>1, <1>3, <1>5, <1>8 DEF ReportOf, NothingDeployed, Nothing
<1>10. trades \in TradeRows /\ trades.spent = 0 /\ trades.received = 0 /\ trades.realized = 0
       /\ trades.deployed = NothingDeployed
  BY <1>8 DEF SimulatorInit, TradeRows
<1>11. Books(sim, trades)
  BY <1>1, <1>3, <1>5, <1>9, <1>10 DEF Books
<1> QED BY <1>6, <1>7, <1>11 DEF SimInv

LEMMA NextCandleKeeps ==
    ASSUME SimInv, NEW price \in Prices, NEW signals \in Signals, NextCandle(price, signals)
    PROVE  SimInv'
<1>1. \E q : q = sim'
  OBVIOUS
<1>2. PICK q : q = sim'
  BY <1>1
<1>3. sim \in SimRows /\ sim.phase = "candle" /\ trades' = trades
  BY DEF SimInv, LotsOK, NextCandle
<1>4. price \in Nat /\ price > 0 /\ signals \in [dip : BOOLEAN, bounce : BOOLEAN]
  BY PricesAssumption DEF Signals
<1>5. NoAnchor \in Lots /\ "entries" \in Phases /\ sim.candle \in Nat /\ sim.candle + 1 \in Nat
  BY <1>3, RowIs DEF NoAnchor, Lots, Phases
<1>6. PICK x : /\ x = CASE sim.candle = 0 -> [sim EXCEPT !.cycleEntry = price, !.lastEntry = price]
                        [] sim.awaiting ->
                             [sim EXCEPT !.entries = 0, !.recovery = FALSE, !.recoveryCount = 0,
                                         !.anchor = NoAnchor, !.cycleEntry = price,
                                         !.lastEntry = price, !.awaiting = FALSE]
                        [] OTHER -> sim
               /\ q = [x EXCEPT !.phase = "entries", !.candle = @ + 1, !.price = price,
                                !.signals = signals]
  BY <1>2, Zenon DEF NextCandle
<1>7. sim.awaiting => sim.candle > 0 /\ sim.parent.quantity = 0 /\ DOMAIN sim.legs = {}
  BY DEF SimInv, CycleOK
<1>8. /\ x \in SimRows /\ x.bot = sim.bot /\ x.balance = sim.balance /\ x.parent = sim.parent
      /\ x.legs = sim.legs /\ ~x.awaiting /\ x.candle = sim.candle
      /\ x.recovery => sim.recovery
      /\ \/ x.entries = sim.entries /\ x.recovery = sim.recovery /\ x.anchor = sim.anchor
         \/ /\ DOMAIN sim.legs = {} /\ ~x.recovery /\ x.anchor = NoAnchor
  <2>1. CASE sim.candle = 0
    <3>1. x = [sim EXCEPT !.cycleEntry = price, !.lastEntry = price]
      <4>1. x = CASE sim.candle = 0 -> [sim EXCEPT !.cycleEntry = price, !.lastEntry = price]
                  [] sim.awaiting ->
                       [sim EXCEPT !.entries = 0, !.recovery = FALSE, !.recoveryCount = 0,
                                   !.anchor = NoAnchor, !.cycleEntry = price,
                                   !.lastEntry = price, !.awaiting = FALSE]
                  [] OTHER -> sim
        BY <1>6
      <4>2. ~sim.awaiting
        BY <1>7, <2>1
      <4> HIDE <1>6
      <4> QED BY <2>1, <4>1, <4>2
    <3>2. ~sim.awaiting
      BY <1>7, <2>1
    <3> QED BY <1>3, <1>4, <3>1, <3>2 DEF SimRows
  <2>2. CASE sim.candle # 0 /\ sim.awaiting
    <3>1. x = [sim EXCEPT !.entries = 0, !.recovery = FALSE, !.recoveryCount = 0,
                          !.anchor = NoAnchor, !.cycleEntry = price,
                          !.lastEntry = price, !.awaiting = FALSE]
      BY <1>6, <2>2
    <3> QED BY <1>3, <1>4, <1>5, <1>7, <2>2, <3>1 DEF SimRows
  <2>3. CASE sim.candle # 0 /\ ~sim.awaiting
    <3>1. x = sim
      BY <1>6, <2>3
    <3> QED BY <1>3, <2>3, <3>1
  <2> QED BY <2>1, <2>2, <2>3
<1>9. PICK n : n = x.candle + 1
  OBVIOUS
<1>10. n \in Nat /\ n > 0
  BY <1>5, <1>8, <1>9
<1>11. /\ q \in SimRows /\ q.bot = x.bot /\ q.balance = x.balance /\ q.parent = x.parent
       /\ q.legs = x.legs /\ q.awaiting = x.awaiting /\ q.candle = n /\ q.phase = "entries"
       /\ q.price = price /\ q.recovery = x.recovery /\ q.anchor = x.anchor /\ q.entries = x.entries
  <2>1. q = [x EXCEPT !.phase = "entries", !.candle = n, !.price = price, !.signals = signals]
    BY <1>6, <1>8, <1>9 DEF SimRows
  <2> QED BY <1>4, <1>5, <1>8, <1>10, <2>1 DEF SimRows
<1>12. LotsOK(q) /\ Books(q, trades)
  <2>1. LotsOK(sim) /\ Books(sim, trades)
    BY DEF SimInv
  <2>2. q.bot = sim.bot /\ q.balance = sim.balance /\ q.parent = sim.parent /\ q.legs = sim.legs
        /\ (DOMAIN sim.legs = {} \/ q.entries = sim.entries)
    BY <1>8, <1>11
  <2> QED BY <1>11, <2>1, <2>2, NothingTraded
<1>13. CycleOK(q)
  <2>1. sim.recovery => sim.parent.quantity > 0
    BY DEF SimInv, CycleOK
  <2>2. sim.entries = 0 => ~sim.recovery /\ sim.anchor = NoAnchor
    BY DEF SimInv, CycleOK
  <2>3. q.entries = 0 => ~q.recovery /\ q.anchor = NoAnchor
    BY <1>8, <1>11, <2>2
  <2> QED BY <1>4, <1>8, <1>10, <1>11, <2>1, <2>3 DEF CycleOK
<1> QED BY <1>2, <1>3, <1>12, <1>13 DEF SimInv

\* A step that buys and sells nothing within a candle.
LEMMA NewPhaseKeeps ==
    ASSUME SimInv, sim.phase # "candle", NEW ph \in Phases, NEW a \in Lots,
           a = sim.anchor \/ sim.entries # 0,
           sim' = [sim EXCEPT !.phase = ph, !.anchor = a], trades' = trades
    PROVE  SimInv'
<1>1. \E q : q = sim'
  OBVIOUS
<1>2. PICK q : q = sim'
  BY <1>1
<1>3. /\ q \in SimRows /\ q.bot = sim.bot /\ q.balance = sim.balance /\ q.parent = sim.parent
      /\ q.legs = sim.legs /\ q.awaiting = sim.awaiting /\ q.candle = sim.candle
      /\ q.price = sim.price /\ q.recovery = sim.recovery /\ q.anchor = a /\ q.entries = sim.entries
  BY <1>2 DEF SimInv, LotsOK, SimRows
<1>4. LotsOK(q) /\ Books(q, trades)
  <2>1. LotsOK(sim) /\ Books(sim, trades)
    BY DEF SimInv
  <2> QED BY <1>3, <2>1, NothingTraded
<1>5. CycleOK(q)
  <2>1. CycleOK(sim)
    BY DEF SimInv
  <2> QED BY <1>3, <2>1 DEF CycleOK
<1> QED BY <1>2, <1>4, <1>5 DEF SimInv

LEMMA EndEntriesKeeps == SimInv /\ EndEntries => SimInv'
<1> SUFFICES ASSUME SimInv, EndEntries PROVE SimInv'
  OBVIOUS
<1> DEFINE new == ~sim.recovery /\ Bot.recoveryEnabled /\ Bot.independentFrom \in DOMAIN sim.legs
           a == IF new THEN sim.legs[Bot.independentFrom] ELSE sim.anchor
<1>1. sim \in SimRows /\ sim.anchor \in Lots
  BY RowIs DEF SimInv, LotsOK
<1>2. sim' = [sim EXCEPT !.phase = "recovery", !.anchor = a] /\ trades' = trades
      /\ sim.phase # "candle"
  BY <1>1 DEF EndEntries, SimRows
<1>3. a \in Lots
  <2>1. LotsOK(sim)
    BY DEF SimInv
  <2>2. \A l \in DOMAIN sim.legs : sim.legs[l] \in Lots
    BY <2>1, LotsAre
  <2> QED BY <1>1, <2>2
<1>4. a = sim.anchor \/ sim.entries # 0
  <2>1. DOMAIN sim.legs \subseteq 1..sim.entries
    BY DEF SimInv, LotsOK
  <2>2. sim.entries = 0 => 1..sim.entries = {}
    OBVIOUS
  <2> QED BY <2>1, <2>2
<1>5. "recovery" \in Phases
  BY DEF Phases
<1> HIDE DEF a
<1> QED BY <1>2, <1>3, <1>4, <1>5, NewPhaseKeeps

\* The phase alone changes.
LEMMA PhaseKeeps ==
    ASSUME SimInv, sim.phase # "candle", NEW ph \in Phases, sim' = [sim EXCEPT !.phase = ph],
           trades' = trades
    PROVE  SimInv'
<1> DEFINE a == sim.anchor
<1>1. sim \in SimRows /\ a \in Lots
  BY RowIs DEF SimInv, LotsOK
<1>2. sim' = [sim EXCEPT !.phase = ph, !.anchor = a]
  BY <1>1 DEF SimRows
<1>3. a = sim.anchor
  OBVIOUS
<1> HIDE DEF a
<1> QED BY <1>1, <1>2, <1>3, NewPhaseKeeps

LEMMA EndCandleKeeps == SimInv /\ EndCandle => SimInv'
<1> SUFFICES ASSUME SimInv, EndCandle PROVE SimInv'
  OBVIOUS
<1> DEFINE over == sim.entries > 0 /\ sim.parent.quantity = 0 /\ DOMAIN sim.legs = {}
           c == IF over /\ ~sim.awaiting THEN sim.cycles + 1 ELSE sim.cycles
           w == sim.awaiting \/ over
<1>1. \E q : q = sim'
  OBVIOUS
<1>2. PICK q : q = sim'
  BY <1>1
<1>3. sim \in SimRows /\ sim.cycles \in Nat /\ sim.awaiting \in BOOLEAN
  BY RowIs DEF SimInv, LotsOK
<1>4. q = [sim EXCEPT !.phase = "candle", !.cycles = c, !.awaiting = w] /\ trades' = trades
      /\ sim.phase # "candle"
  BY <1>2, <1>3 DEF EndCandle, SimRows
<1>5. c \in Nat /\ w \in BOOLEAN /\ "candle" \in Phases
  BY <1>3 DEF Phases
<1>6. w => over
  BY <1>4 DEF SimInv, CycleOK
<1> HIDE DEF c, w
<1>7. /\ q \in SimRows /\ q.bot = sim.bot /\ q.balance = sim.balance /\ q.parent = sim.parent
      /\ q.legs = sim.legs /\ q.awaiting = w /\ q.candle = sim.candle /\ q.phase = "candle"
      /\ q.price = sim.price /\ q.recovery = sim.recovery /\ q.anchor = sim.anchor
      /\ q.entries = sim.entries
  BY <1>3, <1>4, <1>5 DEF SimRows
<1>8. LotsOK(q) /\ Books(q, trades)
  <2>1. LotsOK(sim) /\ Books(sim, trades)
    BY DEF SimInv
  <2> QED BY <1>7, <2>1, NothingTraded
<1>9. CycleOK(q)
  <2>1. CycleOK(sim)
    BY DEF SimInv
  <2> QED BY <1>4, <1>6, <1>7, <2>1 DEF CycleOK
<1> QED BY <1>2, <1>4, <1>8, <1>9 DEF SimInv

\* What is spent on an entry is there, and within the budget.
LEMMA EntrySpendIs ==
    ASSUME SimInv, sim.phase # "candle", CanEnter, NEW spend, spend = EntrySpend
    PROVE  /\ spend \in Nat /\ spend > 0 /\ spend <= sim.balance
           /\ Exposure(sim) + spend <= sim.bot.riskBudget
           /\ Quantity(spend) \in Nat /\ Quantity(spend) > 0
<1> DEFINE a == Bot.baseOrder * MultiplierForLevel(Bot, sim.entries + 1)
<1>1. /\ sim.entries \in Nat /\ sim.balance \in Nat /\ sim.price \in Nat /\ sim.price > 0
      /\ sim.bot.riskBudget \in Nat
  BY RowIs DEF SimInv, LotsOK, CycleOK
<1>2. a \in Nat
  <2>1. sim.entries < Bot.maxDcaOrders + 1
    BY DEF CanEnter
  <2>2. sim.entries + 1 \in 1..(Bot.maxDcaOrders + 1)
    BY <1>1, <2>1, BotIs
  <2> QED BY <2>2, BotIs
<1>3. RiskRemaining \in Nat /\ Exposure(sim) \in Nat
      /\ Exposure(sim) + RiskRemaining <= sim.bot.riskBudget
  BY RemainingIs
<1>4. spend = Smaller(a, Smaller(sim.balance, RiskRemaining))
  BY DEF EntrySpend
<1> HIDE DEF a
<1>5. spend \in Nat /\ spend <= sim.balance /\ spend <= RiskRemaining
  BY <1>1, <1>2, <1>3, <1>4 DEF Smaller
<1>6. spend > 0 /\ Quantity(spend) > 0
  BY DEF CanEnter, Buys
<1>7. Quantity(spend) \in Nat
  BY <1>1, <1>5, QuantityIs
<1> QED BY <1>1, <1>3, <1>5, <1>6, <1>7

LEMMA BuyEntryKeeps == SimInv /\ BuyEntry => SimInv'
<1> SUFFICES ASSUME SimInv, BuyEntry PROVE SimInv'
  OBVIOUS
<1>1. \E q, r, spend : q = sim' /\ r = trades' /\ spend = EntrySpend
  OBVIOUS
<1>2. PICK q, r, spend : q = sim' /\ r = trades' /\ spend = EntrySpend
  BY <1>1
<1>3. sim.phase = "entries" /\ CanEnter
  BY DEF BuyEntry
<1>4. /\ spend \in Nat /\ spend > 0 /\ spend <= sim.balance
      /\ Exposure(sim) + spend <= sim.bot.riskBudget
      /\ Quantity(spend) \in Nat /\ Quantity(spend) > 0
  BY <1>2, <1>3, EntrySpendIs
<1>5. /\ sim \in SimRows /\ sim.entries \in Nat /\ sim.balance \in Nat /\ sim.price \in Nat
      /\ sim.parent \in Lots /\ sim.parent.quantity \in Nat /\ sim.parent.cost \in Nat
      /\ sim.legs \in Maps(Lots) /\ sim.bot.riskBudget \in Nat /\ sim.cycleEntry \in Nat
  BY RowIs DEF SimInv, LotsOK, SimRows
<1>6. LotsOK(sim) /\ CycleOK(sim) /\ Books(sim, trades)
  BY DEF SimInv
<1> DEFINE level == sim.entries + 1
           lot == [quantity |-> Quantity(spend), cost |-> spend]
           independent == level >= Bot.independentFrom
           money == sim.balance - spend
           entry == IF sim.entries = 0 /\ Bot.dipEntry THEN sim.price ELSE sim.cycleEntry
           base == [sim EXCEPT !.balance = money, !.entries = level, !.lastEntry = sim.price,
                               !.cycleEntry = entry]
           g == Put(sim.legs, level, lot)
           p == [quantity |-> sim.parent.quantity + Quantity(spend), cost |-> sim.parent.cost + spend]
<1>7. /\ q = IF independent THEN [base EXCEPT !.legs = g] ELSE [base EXCEPT !.parent = p]
      /\ r = SpentTrade(trades, IF independent THEN "INDEPENDENT_ENTRY" ELSE "PARENT_ENTRY", level, spend)
  <2>1. base = [sim EXCEPT !.balance = @ - spend, !.entries = @ + 1, !.lastEntry = sim.price,
                           !.cycleEntry = IF sim.entries = 0 /\ Bot.dipEntry THEN sim.price ELSE @]
    BY <1>5 DEF SimRows
  <2>2. base.legs = sim.legs /\ base.parent = sim.parent
    BY <1>5 DEF SimRows
  <2>3. r = SpentTrade(trades, IF independent THEN "INDEPENDENT_ENTRY" ELSE "PARENT_ENTRY", level, spend)
    BY <1>2 DEF BuyEntry, Spent, SpentTrade
  <2>4. q = IF independent THEN [base EXCEPT !.legs = Put(@, level, lot)]
            ELSE [base EXCEPT !.parent = [quantity |-> @.quantity + lot.quantity,
                                          cost |-> @.cost + lot.cost]]
    <3> HIDE DEF base
    <3> QED BY <1>2, <2>1 DEF BuyEntry
  <2>5. lot.quantity = Quantity(spend) /\ lot.cost = spend
    OBVIOUS
  <2> HIDE DEF base, lot
  <2> QED BY <2>2, <2>3, <2>4, <2>5
<1>8. /\ level \in Nat /\ level # 0 /\ money \in Nat /\ entry \in Nat /\ lot \in Lots /\ lot.cost = spend
      /\ lot.quantity > 0 /\ p \in Lots /\ p.cost = sim.parent.cost + spend /\ p.quantity > 0
  BY <1>4, <1>5 DEF Lots
<1>9. level \notin DOMAIN sim.legs
  BY <1>5, <1>6 DEF LotsOK
<1>10. PICK h : h = g
  OBVIOUS
<1>11. h \in Maps(Lots) /\ IsPut(sim.legs, level, lot, h)
  <2> HIDE DEF lot, level
  <2>1. PICK m : m = sim.legs
    OBVIOUS
  <2>2. Put(m, level, lot) \in Maps(Lots) /\ IsPut(m, level, lot, Put(m, level, lot))
    BY <1>5, <1>8, <2>1, PutIs
  <2> QED BY <1>10, <2>1, <2>2
<1>12. \A l \in DOMAIN sim.legs : l \in 1..level /\ sim.legs[l].quantity > 0
  BY <1>5, <1>6 DEF LotsOK
<1>13. level \in 1..level
  BY <1>5
<1> HIDE DEF level, lot, money, entry, g, p
<1>14. /\ base \in SimRows /\ base.bot = sim.bot /\ base.balance = money /\ base.parent = sim.parent
       /\ base.legs = sim.legs /\ base.awaiting = sim.awaiting /\ base.candle = sim.candle
       /\ base.phase = sim.phase /\ base.price = sim.price /\ base.recovery = sim.recovery
       /\ base.anchor = sim.anchor /\ base.entries = level
  BY <1>5, <1>8 DEF SimRows
<1>15. CASE independent
  <2>1. /\ q \in SimRows /\ q.bot = sim.bot /\ q.balance = money /\ q.parent = sim.parent
        /\ q.legs = h /\ q.awaiting = sim.awaiting /\ q.candle = sim.candle
        /\ q.phase = sim.phase /\ q.price = sim.price /\ q.recovery = sim.recovery
        /\ q.anchor = sim.anchor /\ q.entries = level
    <3>1. q = [base EXCEPT !.legs = h]
      BY <1>7, <1>10, <1>15
    <3> HIDE DEF base
    <3> QED BY <1>11, <1>14, <3>1 DEF SimRows
  <2>2. r = SpentTrade(trades, "INDEPENDENT_ENTRY", level, spend)
    BY <1>7, <1>15
  <2>3. h = Put(sim.legs, level, lot) /\ q.balance = sim.balance - spend
    BY <1>10, <2>1 DEF g, money
  <2>4. Books(q, r) /\ Exposure(q) = Exposure(sim) + spend
    BY <1>4, <1>6, <1>8, <1>9, <2>1, <2>2, <2>3, LegBought
  <2>5. LotsOK(q)
    <3>1. DOMAIN h = DOMAIN sim.legs \cup {level} /\ h[level] = lot
          /\ \A l \in DOMAIN sim.legs : l # level => h[l] = sim.legs[l]
      BY <1>11 DEF IsPut
    <3>2. DOMAIN h \subseteq 1..level
      BY <1>12, <1>13, <3>1
    <3>3. \A l \in DOMAIN h : h[l].quantity > 0
      BY <1>8, <1>9, <1>12, <3>1
    <3>4. sim.parent.quantity = 0 => sim.parent.cost = 0
      BY <1>6 DEF LotsOK
    <3> QED BY <1>4, <2>1, <2>4, <3>2, <3>3, <3>4 DEF LotsOK
  <2>6. CycleOK(q)
    BY <1>3, <1>6, <1>8, <2>1 DEF CycleOK
  <2> QED BY <1>2, <2>4, <2>5, <2>6 DEF SimInv
<1>16. CASE ~independent
  <2>1. /\ q \in SimRows /\ q.bot = sim.bot /\ q.balance = money /\ q.parent = p
        /\ q.legs = sim.legs /\ q.awaiting = sim.awaiting /\ q.candle = sim.candle
        /\ q.phase = sim.phase /\ q.price = sim.price /\ q.recovery = sim.recovery
        /\ q.anchor = sim.anchor /\ q.entries = level
    <3>1. q = [base EXCEPT !.parent = p]
      BY <1>7, <1>16
    <3> HIDE DEF base
    <3> QED BY <1>8, <1>14, <3>1 DEF SimRows
  <2>2. r = SpentTrade(trades, "PARENT_ENTRY", level, spend) /\ "PARENT_ENTRY" # "INDEPENDENT_ENTRY"
    BY <1>7, <1>16
  <2>3. q.parent.cost = sim.parent.cost + spend /\ q.balance = sim.balance - spend
    BY <1>8, <2>1 DEF money
  <2>4. Books(q, r) /\ Exposure(q) = Exposure(sim) + spend
    BY <1>4, <1>6, <2>1, <2>2, <2>3, ParentBought
  <2>5. LotsOK(q)
    <3>1. \A l \in DOMAIN sim.legs : sim.legs[l].quantity > 0
      BY <1>12
    <3>2. DOMAIN q.legs \subseteq 1..q.entries
      BY <1>12, <2>1
    <3> QED BY <1>4, <1>8, <2>1, <2>4, <3>1, <3>2 DEF LotsOK
  <2>6. CycleOK(q)
    BY <1>3, <1>6, <1>8, <2>1 DEF CycleOK, CanEnter
  <2> QED BY <1>2, <2>4, <2>5, <2>6 DEF SimInv
<1> QED BY <1>15, <1>16

\* A recovery leg is that of an anchor, and spends what is there.
LEMMA RecoverySpendIs ==
    ASSUME SimInv, sim.phase # "candle", CanRecover, NEW spend, spend = SimulatedLeg.quote
    PROVE  /\ spend \in Nat /\ spend > 0 /\ spend <= sim.balance
           /\ Exposure(sim) + spend <= sim.bot.riskBudget
           /\ Quantity(spend) \in Nat /\ Quantity(spend) > 0
           /\ sim.entries # 0
<1>1. /\ sim.entries \in Nat /\ sim.balance \in Nat /\ sim.price \in Nat /\ sim.price > 0
      /\ sim.bot.riskBudget \in Nat /\ sim.recoveryCount \in Nat
  BY RowIs DEF SimInv, LotsOK, CycleOK
<1>2. RiskRemaining \in Nat /\ Exposure(sim) \in Nat
      /\ Exposure(sim) + RiskRemaining <= sim.bot.riskBudget
  BY RemainingIs
<1>3. PICK rest : rest = Smaller(RiskRemaining, sim.balance)
  OBVIOUS
<1>4. rest \in Nat /\ rest <= RiskRemaining /\ rest <= sim.balance
  BY <1>1, <1>2, <1>3 DEF Smaller
<1>5. sim.anchor # NoAnchor /\ SimulatedLeg = NextLeg(Bot, sim.recoveryCount, sim.anchor, rest)
      /\ SimulatedLeg # NoLeg
  BY <1>3 DEF CanRecover, SimulatedLeg
<1> DEFINE n == sim.recoveryCount + 1
           a == Bot.baseOrder * Bot.recoveryMultipliers[n]
<1>6. ~(sim.recoveryCount >= Bot.recoveryMaxOrders) /\ spend = Smaller(a, rest)
  BY <1>5 DEF NextLeg
<1>7. n \in 1..Len(Bot.recoveryMultipliers)
  <2>1. Bot.recoveryMaxOrders \in Nat /\ Bot.recoveryMaxOrders <= Len(Bot.recoveryMultipliers)
        /\ Bot.recoveryMultipliers \in Seq(Nat)
    BY BotIs
  <2>2. Len(Bot.recoveryMultipliers) \in Nat
    BY <2>1
  <2> QED BY <1>1, <1>6, <2>1, <2>2
<1>8. a \in Nat
  <2>1. Bot.recoveryMultipliers \in Seq(Nat) /\ Bot.baseOrder \in Nat
    BY BotIs
  <2>2. Bot.recoveryMultipliers[n] \in Nat
    <3> HIDE DEF n
    <3> QED BY <1>7, <2>1
  <2> QED BY <2>1, <2>2
<1> HIDE DEF a, n
<1>9. spend \in Nat /\ spend <= rest
  BY <1>4, <1>6, <1>8 DEF Smaller
<1>10. spend > 0 /\ Quantity(spend) > 0
  BY DEF CanRecover, Buys
<1>11. Quantity(spend) \in Nat
  BY <1>1, <1>9, QuantityIs
<1>12. sim.entries # 0
  BY <1>5 DEF SimInv, CycleOK
<1> QED BY <1>1, <1>2, <1>4, <1>9, <1>10, <1>11, <1>12

LEMMA BuyRecoveryKeeps == SimInv /\ BuyRecovery => SimInv'
<1> SUFFICES ASSUME SimInv, BuyRecovery PROVE SimInv'
  OBVIOUS
<1>1. \E q, r, spend : q = sim' /\ r = trades' /\ spend = SimulatedLeg.quote
  OBVIOUS
<1>2. PICK q, r, spend : q = sim' /\ r = trades' /\ spend = SimulatedLeg.quote
  BY <1>1
<1>3. sim.phase = "recovery" /\ CanRecover
  BY DEF BuyRecovery
<1>4. /\ spend \in Nat /\ spend > 0 /\ spend <= sim.balance
      /\ Exposure(sim) + spend <= sim.bot.riskBudget
      /\ Quantity(spend) \in Nat /\ Quantity(spend) > 0
      /\ sim.entries # 0
  BY <1>2, <1>3, RecoverySpendIs
<1>5. /\ sim \in SimRows /\ sim.balance \in Nat /\ sim.recoveryCount \in Nat
      /\ sim.parent \in Lots /\ sim.parent.quantity \in Nat /\ sim.parent.cost \in Nat
      /\ sim.legs \in Maps(Lots)
  BY RowIs DEF SimInv, LotsOK
<1>6. LotsOK(sim) /\ CycleOK(sim) /\ Books(sim, trades)
  BY DEF SimInv
<1> DEFINE money == sim.balance - spend
           count == sim.recoveryCount + 1
           p == [quantity |-> sim.parent.quantity + Quantity(spend), cost |-> sim.parent.cost + spend]
           level == Bot.maxDcaOrders + 2 + sim.recoveryCount
<1>7. /\ q = [sim EXCEPT !.balance = money, !.recovery = TRUE, !.recoveryCount = count, !.parent = p]
      /\ r = SpentTrade(trades, "RECOVERY_ENTRY", level, spend)
  <2>1. q = [sim EXCEPT !.balance = @ - spend, !.recovery = TRUE, !.recoveryCount = @ + 1,
                        !.parent = [quantity |-> @.quantity + Quantity(spend), cost |-> @.cost + spend]]
    BY <1>2 DEF BuyRecovery
  <2>2. r = SpentTrade(trades, "RECOVERY_ENTRY", level, spend)
    BY <1>2 DEF BuyRecovery, Spent, SpentTrade
  <2> QED BY <1>5, <2>1, <2>2 DEF SimRows
<1>8. money \in Nat /\ count \in Nat /\ p \in Lots /\ p.cost = sim.parent.cost + spend /\ p.quantity > 0
  BY <1>4, <1>5 DEF Lots
<1> HIDE DEF money, count, p, level
<1>9. /\ q \in SimRows /\ q.bot = sim.bot /\ q.balance = money /\ q.parent = p
      /\ q.legs = sim.legs /\ q.awaiting = sim.awaiting /\ q.candle = sim.candle
      /\ q.phase = sim.phase /\ q.price = sim.price /\ q.recovery = TRUE
      /\ q.anchor = sim.anchor /\ q.entries = sim.entries
  BY <1>5, <1>7, <1>8 DEF SimRows
<1>10. q.parent.cost = sim.parent.cost + spend /\ q.balance = sim.balance - spend
       /\ "RECOVERY_ENTRY" # "INDEPENDENT_ENTRY"
  BY <1>8, <1>9 DEF money
<1>11. Books(q, r) /\ Exposure(q) = Exposure(sim) + spend
  <2>1. r = SpentTrade(trades, "RECOVERY_ENTRY", level, spend)
    BY <1>7
  <2>2. /\ q \in SimRows /\ q.bot = sim.bot /\ q.legs = sim.legs
    BY <1>9
  <2> QED BY <1>4, <1>6, <1>10, <2>1, <2>2, ParentBought
<1>12. LotsOK(q)
  BY <1>4, <1>6, <1>8, <1>9, <1>11 DEF LotsOK
<1>13. CycleOK(q)
  BY <1>3, <1>4, <1>6, <1>8, <1>9 DEF CycleOK
<1> QED BY <1>2, <1>11, <1>12, <1>13 DEF SimInv

\* A sale brings a whole amount.
LEMMA ProceedsAre ==
    ASSUME SimInv, NEW parentSold \in BOOLEAN, NEW S, S \subseteq DOMAIN sim.legs
    PROVE  Proceeds(parentSold, S) \in Nat
<1>1. sim.price \in Nat /\ sim.parent \in Lots
  BY RowIs DEF SimInv, LotsOK
<1>2. IsFiniteSet(S) /\ \A l \in S : sim.legs[l] \in Lots
  <2>1. LotsOK(sim)
    BY DEF SimInv
  <2>2. IsFiniteSet(DOMAIN sim.legs) /\ \A l \in DOMAIN sim.legs : sim.legs[l] \in Lots
    BY <2>1, LotsAre
  <2> QED BY <2>2, FS_Subset
<1> DEFINE f == [l \in S |-> Net(sim.legs[l])]
           x == IF parentSold THEN Net(sim.parent) ELSE 0
<1>3. x \in Nat
  BY <1>1, NetIs
<1>4. \A l \in S : f[l] \in Nat
  BY <1>1, <1>2, NetIs
<1>5. Proceeds(parentSold, S) = x + SumOf(f, S)
  BY SumFunctionIsSum DEF Proceeds
<1> HIDE DEF f, x
<1>6. SumOf(f, S) \in Int /\ SumOf(f, S) >= 0
  BY <1>2, <1>4, SumInteger, SumNonNegative
<1> QED BY <1>3, <1>5, <1>6

\* A sale of the parent, or not, and of the legs at some levels.
LEMMA SaleKeeps ==
    ASSUME SimInv, sim.phase # "candle", NEW parentSold \in BOOLEAN,
           parentSold => sim.parent.quantity > 0,
           NEW S, S \subseteq DOMAIN sim.legs, SoldLots(parentSold, S),
           NEW g, g = Restrict(sim.legs, DOMAIN sim.legs \ S),
           NEW q, q = sim', q \in SimRows, q.bot = sim.bot, q.legs = g,
           q.balance = sim.balance + Proceeds(parentSold, S),
           q.parent = (IF parentSold THEN Nothing ELSE sim.parent),
           q.entries = sim.entries, q.phase # "candle", q.price = sim.price, q.candle = sim.candle,
           q.awaiting = sim.awaiting, q.anchor \in {sim.anchor, NoAnchor},
           ~q.recovery
    PROVE  SimInv'
<1>1. /\ sim \in SimRows /\ sim.balance \in Nat /\ sim.price \in Nat /\ sim.parent \in Lots
      /\ sim.parent.cost \in Nat /\ sim.legs \in Maps(Lots)
  BY RowIs DEF SimInv, LotsOK
<1>2. LotsOK(sim) /\ CycleOK(sim) /\ Books(sim, trades)
  BY DEF SimInv
<1>3. IsFiniteSet(S) /\ \A l \in S : sim.legs[l] \in Lots
  <2>1. IsFiniteSet(DOMAIN sim.legs) /\ \A l \in DOMAIN sim.legs : sim.legs[l] \in Lots
    BY <1>2, LotsAre
  <2> QED BY <2>1, FS_Subset
<1>4. \E p, k, n, e, r : /\ p = Proceeds(parentSold, S) /\ k = CostSold(parentSold, S)
                         /\ n = Cardinality(S) + (IF parentSold THEN 1 ELSE 0)
                         /\ e = DeployedAfterExits(trades.deployed, parentSold, S) /\ r = trades'
  OBVIOUS
<1>5. PICK p, k, n, e, r :
          /\ p = Proceeds(parentSold, S) /\ k = CostSold(parentSold, S)
          /\ n = Cardinality(S) + (IF parentSold THEN 1 ELSE 0)
          /\ e = DeployedAfterExits(trades.deployed, parentSold, S) /\ r = trades'
  BY <1>4
<1>6. p \in Nat
  BY <1>5, ProceedsAre
<1>7. n \in Nat
  <2>1. Cardinality(S) \in Nat
    BY <1>3, FS_CardinalityType
  <2> QED BY <1>5, <2>1
<1>8. k = CostOfSale(sim, parentSold, S)
  BY <1>5, SumFunctionIsSum DEF CostSold, CostOfSale
<1>9. r = WithSale(trades, n, p, k, e)
  <2>1. r = [trades EXCEPT !.exits = @ + Cardinality(S) + (IF parentSold THEN 1 ELSE 0),
                           !.received = @ + p, !.realized = @ + p - k, !.deployed = e]
    BY <1>5 DEF SoldLots
  <2>2. trades.exits + Cardinality(S) + (IF parentSold THEN 1 ELSE 0) = trades.exits + n
    <3>1. trades.exits \in Nat /\ Cardinality(S) \in Nat
      BY <1>2, <1>3, FS_CardinalityType DEF Books, TradeRows
    <3> QED BY <1>5, <3>1
  <2>3. PICK a : a = trades.exits + n
    OBVIOUS
  <2>4. r = [trades EXCEPT !.exits = a, !.received = @ + p, !.realized = @ + p - k, !.deployed = e]
    BY <2>1, <2>2, <2>3
  <2> QED BY <2>3, <2>4 DEF WithSale
<1>10. q.parent.cost = (IF parentSold THEN 0 ELSE sim.parent.cost) /\ q.balance = sim.balance + p
  BY <1>5 DEF Nothing
<1>11. Books(q, r) /\ Exposure(q) <= sim.bot.riskBudget
  <2>1. e = DeployedAfterExits(trades.deployed, parentSold, S)
    BY <1>5
  <2>2. q.balance = sim.balance + p
    BY <1>10
  <2>3. (parentSold => q.parent.cost = 0) /\ (~parentSold => q.parent.cost = sim.parent.cost)
    BY <1>10
  <2>4. LotsOK(sim) /\ Books(sim, trades)
    BY <1>2
  <2>5. SaleStep(sim, trades, parentSold, S, p, n, k, g, e, q, r)
    BY <1>6, <1>7, <1>8, <1>9, <2>1, <2>2, <2>3 DEF SaleStep
  <2>6. Booked(sim, q, r)
    BY <2>4, <2>5, SaleBooked
  <2> QED BY <2>6 DEF Booked
<1>12. DOMAIN g = DOMAIN sim.legs \ S /\ \A l \in DOMAIN g : g[l] = sim.legs[l]
  BY DEF Restrict
<1>13. LotsOK(q)
  <2>1. q.parent.quantity = 0 => q.parent.cost = 0
    BY <1>2 DEF LotsOK, Nothing
  <2> QED BY <1>2, <1>11, <1>12, <2>1 DEF LotsOK
<1>14. CycleOK(q)
  <2>1. sim.price > 0 /\ sim.candle > 0 /\ ~sim.awaiting
        /\ (sim.entries = 0 => sim.anchor = NoAnchor)
    BY <1>2 DEF CycleOK
  <2> QED BY <2>1 DEF CycleOK
<1> QED BY <1>5, <1>11, <1>13, <1>14 DEF SimInv

LEMMA BasketSaleKeeps ==
    ASSUME SimInv, sim.phase # "candle", NEW ph \in Phases \ {"candle"}, SellBasket(ph)
    PROVE  SimInv'
<1> DEFINE parentSold == sim.parent.quantity > 0
           S == DOMAIN sim.legs
           parent == IF parentSold THEN Nothing ELSE sim.parent
           stops == IF ph = "end" THEN sim.stops + 1 ELSE sim.stops
           g == Restrict(sim.legs, DOMAIN sim.legs \ S)
           money == sim.balance + Proceeds(parentSold, S)
<1>1. /\ sim \in SimRows /\ sim.balance \in Nat /\ sim.parent \in Lots /\ sim.stops \in Nat
      /\ sim.parent.quantity \in Nat
  BY RowIs DEF SimInv, LotsOK
<1>2. SoldLots(parentSold, S)
  BY DEF SellBasket
<1>3. g = NoLots
  BY DEF Restrict, NoLots
<1>4. sim' = [sim EXCEPT !.balance = money, !.legs = NoLots, !.parent = parent, !.recovery = FALSE,
                         !.recoveryCount = 0, !.anchor = NoAnchor, !.phase = ph, !.stops = stops]
  BY <1>1 DEF SellBasket, SimRows
<1>5. money \in Nat
  <2>1. parentSold \in BOOLEAN /\ S \subseteq DOMAIN sim.legs
    OBVIOUS
  <2> HIDE DEF parentSold, S
  <2>2. Proceeds(parentSold, S) \in Nat
    BY <2>1, ProceedsAre
  <2> QED BY <1>1, <2>2
<1>6. parent \in Lots /\ stops \in Nat /\ NoAnchor \in Lots /\ NoLots \in Maps(Lots) /\ parentSold \in BOOLEAN
  BY <1>1, NoLotsIs DEF Lots, Nothing, NoAnchor
<1>7. PICK q : q = sim'
  OBVIOUS
<1> HIDE DEF parent, stops, money, g, S
<1>8. /\ q \in SimRows /\ q.bot = sim.bot /\ q.legs = NoLots /\ q.balance = money /\ q.parent = parent
      /\ q.entries = sim.entries /\ q.phase = ph /\ q.price = sim.price /\ q.candle = sim.candle
      /\ q.awaiting = sim.awaiting /\ q.anchor = NoAnchor /\ ~q.recovery
  BY <1>1, <1>4, <1>5, <1>6, <1>7 DEF SimRows
<1>9. /\ S \subseteq DOMAIN sim.legs /\ g = Restrict(sim.legs, DOMAIN sim.legs \ S) /\ q.legs = g
      /\ q.balance = sim.balance + Proceeds(parentSold, S)
      /\ q.parent = (IF parentSold THEN Nothing ELSE sim.parent)
  BY <1>3, <1>8 DEF S, g, money, parent
<1>10. q.phase # "candle" /\ q.anchor \in {sim.anchor, NoAnchor} /\ (parentSold => sim.parent.quantity > 0)
  BY <1>8
<1> HIDE DEF parentSold
<1> QED BY <1>2, <1>6, <1>7, <1>8, <1>9, <1>10, SaleKeeps

LEMMA ReachedSaleKeeps ==
    ASSUME SimInv, sim.phase # "candle", ~sim.recovery, SellReached
    PROVE  SimInv'
<1> DEFINE parentSold == sim.parent.quantity > 0 /\ Hit(sim.parent, Bot.takeProfit)
           S == {l \in DOMAIN sim.legs : Hit(sim.legs[l], Bot.subTakeProfit)}
           parent == IF parentSold THEN Nothing ELSE sim.parent
           g == Restrict(sim.legs, DOMAIN sim.legs \ S)
           money == sim.balance + Proceeds(parentSold, S)
<1>1. /\ sim \in SimRows /\ sim.balance \in Nat /\ sim.parent \in Lots /\ sim.legs \in Maps(Lots)
  BY RowIs DEF SimInv, LotsOK
<1>2. SoldLots(parentSold, S) /\ parentSold \in BOOLEAN /\ S \subseteq DOMAIN sim.legs
  BY DEF SellReached
<1>3. g \in Maps(Lots)
  <2>1. DOMAIN sim.legs \ S \subseteq DOMAIN sim.legs
    OBVIOUS
  <2>2. PICK f : f = sim.legs
    OBVIOUS
  <2> HIDE DEF S
  <2>3. f \in Maps(Lots) /\ DOMAIN f \ S \subseteq DOMAIN f /\ g = Restrict(f, DOMAIN f \ S)
    BY <1>1, <2>1, <2>2
  <2> HIDE DEF g
  <2> QED BY <2>3, RestrictIs
<1>4. sim' = [sim EXCEPT !.balance = money, !.parent = parent, !.legs = g, !.phase = "end"]
  BY <1>1 DEF SellReached, SimRows
<1>5. money \in Nat
  <2> HIDE DEF parentSold, S
  <2>1. Proceeds(parentSold, S) \in Nat
    BY <1>2, ProceedsAre
  <2> QED BY <1>1, <2>1
<1>6. parent \in Lots /\ "end" \in Phases
  BY <1>1 DEF Lots, Nothing, Phases
<1>7. PICK q : q = sim'
  OBVIOUS
<1>8. parentSold => sim.parent.quantity > 0
  OBVIOUS
<1> HIDE DEF parent, money, g, S, parentSold
<1>9. /\ q \in SimRows /\ q.bot = sim.bot /\ q.legs = g /\ q.balance = money /\ q.parent = parent
      /\ q.entries = sim.entries /\ q.phase = "end" /\ q.price = sim.price /\ q.candle = sim.candle
      /\ q.awaiting = sim.awaiting /\ q.anchor = sim.anchor /\ q.recovery = sim.recovery
  BY <1>1, <1>3, <1>4, <1>5, <1>6, <1>7 DEF SimRows
<1>10. /\ g = Restrict(sim.legs, DOMAIN sim.legs \ S) /\ q.legs = g
       /\ q.balance = sim.balance + Proceeds(parentSold, S)
       /\ q.parent = (IF parentSold THEN Nothing ELSE sim.parent)
  BY <1>9 DEF g, money, parent
<1>11. q.phase # "candle" /\ q.anchor \in {sim.anchor, NoAnchor} /\ ~q.recovery
  BY <1>9
<1> QED BY <1>2, <1>7, <1>8, <1>9, <1>10, <1>11, SaleKeeps

LEMMA SimInvNext == SimInv /\ [SimulatorNext]_simVars => SimInv'
<1> SUFFICES ASSUME SimInv, [SimulatorNext]_simVars PROVE SimInv'
  OBVIOUS
<1>1. CASE UNCHANGED simVars
  <2>1. sim' = sim /\ trades' = trades
    BY <1>1 DEF simVars
  <2> QED BY <2>1 DEF SimInv
<1>2. ASSUME NEW price \in Prices, NEW signals \in Signals, NextCandle(price, signals) PROVE SimInv'
  BY <1>2, NextCandleKeeps
<1>3. CASE BuyEntry
  BY <1>3, BuyEntryKeeps
<1>4. CASE EndEntries
  BY <1>4, EndEntriesKeeps
<1>5. CASE BuyRecovery
  BY <1>5, BuyRecoveryKeeps
<1>6. {"stop", "exits", "end", "exited"} \subseteq Phases
  BY DEF Phases
<1>7. CASE EndRecovery
  <2>1. sim.phase # "candle" /\ "stop" \in Phases /\ sim' = [sim EXCEPT !.phase = "stop"] /\ trades' = trades
    BY <1>6, <1>7 DEF EndRecovery
  <2> QED BY <2>1, PhaseKeeps
<1>8. CASE StopLoss
  <2>1. sim.phase # "candle"
    BY <1>8 DEF StopLoss
  <2>2. CASE SellBasket("end")
    <3>1. "end" \in Phases \ {"candle"}
      BY <1>6
    <3> QED BY <2>1, <2>2, <3>1, BasketSaleKeeps
  <2>3. CASE ~Stopped /\ sim' = [sim EXCEPT !.phase = "exits"] /\ UNCHANGED trades
    <3>1. "exits" \in Phases /\ trades' = trades
      BY <1>6, <2>3
    <3> QED BY <2>1, <2>3, <3>1, PhaseKeeps
  <2> QED BY <1>8, <2>2, <2>3 DEF StopLoss
<1>9. CASE Exits
  <2>1. sim.phase # "candle"
    BY <1>9 DEF Exits
  <2>2. CASE SellBasket("exited")
    <3>1. "exited" \in Phases \ {"candle"}
      BY <1>6
    <3> QED BY <2>1, <2>2, <3>1, BasketSaleKeeps
  <2>3. CASE sim' = [sim EXCEPT !.phase = "end"] /\ UNCHANGED trades
    <3>1. "end" \in Phases /\ trades' = trades
      BY <1>6, <2>3
    <3> QED BY <2>1, <2>3, <3>1, PhaseKeeps
  <2>4. CASE ~sim.recovery /\ SellReached
    BY <2>1, <2>4, ReachedSaleKeeps
  <2> QED BY <1>9, <2>2, <2>3, <2>4 DEF Exits
<1>10. CASE EndCandle
  BY <1>10, EndCandleKeeps
<1> QED BY <1>1, <1>2, <1>3, <1>4, <1>5, <1>7, <1>8, <1>9, <1>10 DEF SimulatorNext

\* The result of a simulation is explained by its trades: money and basket are the
\* capital plus the profit of the sales, the basket stays within the risk budget, and
\* the report, which sees the trades only, finds deployed what is in the basket.
THEOREM SimulationBooks == SimulatorSpec => []SimulationBooksBalance
<1>1. SimInv => SimulationBooksBalance
  <2> SUFFICES ASSUME SimInv PROVE SimulationBooksBalance
    OBVIOUS
  <2>1. LotsOK(sim) /\ CycleOK(sim) /\ Books(sim, trades)
    BY DEF SimInv
  <2>2. SimBasket.cost = Exposure(sim)
    BY BasketCostIs
  <2>3. /\ sim \in SimRows /\ IsFiniteSet(DOMAIN sim.legs) /\ sim.legs \in Maps(Lots)
        /\ sim.parent.quantity \in Nat /\ sim.balance \in Nat
        /\ \A l \in DOMAIN sim.legs : sim.legs[l] \in Lots
    BY <2>1, LotsAre, RowIs
  <2>4. sim.recovery => SimBasket.quantity > 0
    <3> DEFINE f == [l \in DOMAIN sim.legs |-> sim.legs[l].quantity]
    <3>1. \A l \in DOMAIN sim.legs : f[l] \in Nat
      BY <2>3 DEF Lots
    <3>2. SimBasket.quantity = sim.parent.quantity + SumOf(f, DOMAIN sim.legs)
      BY SumFunctionIsSum DEF SimBasket
    <3> HIDE DEF f
    <3>3. SumOf(f, DOMAIN sim.legs) \in Int /\ SumOf(f, DOMAIN sim.legs) >= 0
      BY <2>3, <3>1, SumInteger, SumNonNegative
    <3>4. sim.recovery => sim.parent.quantity > 0
      BY <2>1 DEF CycleOK
    <3> QED BY <2>3, <3>2, <3>3, <3>4
  <2>5. DeployedQuote(trades.deployed) = SimBasket.cost
    <3>1. PICK f, m : f = trades.deployed.legs /\ m = sim.legs
      OBVIOUS
    <3>2. DOMAIN f = DOMAIN m /\ (\A l \in DOMAIN m : f[l] = m[l].cost)
          /\ trades.deployed.parent = sim.parent.cost
      BY <2>1, <3>1 DEF Books, ReportOf
    <3>3. SumFunctionOnSet(f, DOMAIN f) = CostSum(m)
      BY <2>3, <3>1, <3>2, SameCosts
    <3> QED BY <2>2, <3>1, <3>2, <3>3 DEF DeployedQuote, Exposure
  <2>6. trades.deployed.most <= Bot.riskBudget
    BY <2>1 DEF Books, ReportOf, Bot
  <2>7. SimBasket.cost <= Bot.riskBudget
    BY <2>1, <2>2 DEF LotsOK, Bot
  <2>8. /\ sim.balance + SimBasket.cost = Capital + trades.realized
        /\ sim.balance = Capital - trades.spent + trades.received
    BY <2>1, <2>2 DEF Books
  <2>9. sim.balance >= 0
    BY <2>3
  <2> QED BY <2>1, <2>4, <2>5, <2>6, <2>7, <2>8, <2>9 DEF SimulationBooksBalance, CycleOK
<1>2. SimulatorInit => SimInv
  BY SimInvInit
<1>3. SimInv /\ [SimulatorNext]_simVars => SimInv'
  BY SimInvNext
<1> QED BY <1>1, <1>2, <1>3, PTL DEF SimulatorSpec

=============================================================================
