--------------------------- MODULE SchedulerPass ---------------------------
(***************************************************************************)
(* The cron pass every scheduler of the trading directory is built on, run  *)
(* by several application instances: a process-local flag `running`, the    *)
(* Redis lock of the scheduler, the work, and the release in `finally`.     *)
(* A LIVE strategy or order-sync pass renews its lock (keepLockAlive); the  *)
(* Testnet passes and both retry passes hold it for a fixed time.           *)
(*                                                                          *)
(* Time is a Tick.  A pass goes on for at most MaxPass ticks without setting *)
(* the life of its lock: the whole pass when the lock is fixed.  A renewal   *)
(* that does not reach Redis is swallowed (scheduler-concurrency.ts:32);     *)
(* MaxOutage bounds for how long that may go on.                             *)
(***************************************************************************)
EXTENDS RedisLock, FiniteSets

CONSTANTS
    Instances,  \* application processes that run this scheduler
    Renewing,   \* TRUE for the schedulers that call keepLockAlive
    MaxPass,    \* longest time a pass goes on after it last set the life of its lock
    MaxOutage   \* age a lock may reach while its renewals are being lost

ASSUME SchedulerPassAssumption == /\ Renewing \in BOOLEAN
                                  /\ MaxPass \in Nat
                                  /\ MaxOutage \in Nat

VARIABLES
    pass,   \* pass[i]: idle, acquiring, working or releasing
    lock,   \* lock[i]: the token the pass of i got from acquire
    age,    \* age[i]: ticks since i last set the life of the key
    timer   \* timer[i]: ticks until the renewal timer of i fires

vars == <<key, pass, lock, age, timer>>

\* Mutant: the renewal period is the life of the lock, not a third of it.
IntervalOfTTL == TTL

\* Math.max(Math.floor(ttl / 3), 1_000), a tick standing for the second.
Interval == IF TTL \div 3 > 1 THEN TTL \div 3 ELSE 1

Working == {i \in Instances : pass[i] = "working"}

\* A UUID never repeats: the new token is in nobody's hands and not in Redis.
Fresh == Tokens \ ({key.token} \cup {lock[i] : i \in Instances})

Init == /\ key = FreeKey
        /\ pass = [i \in Instances |-> "idle"]
        /\ lock = [i \in Instances |-> NoToken]
        /\ age = [i \in Instances |-> 0]
        /\ timer = [i \in Instances |-> 0]

----------------------------------------------------------------------------
\* `running` is FALSE exactly when the pass is idle.
Idle(i) == /\ pass' = [pass EXCEPT ![i] = "idle"]
           /\ lock' = [lock EXCEPT ![i] = NoToken]
           /\ age' = [age EXCEPT ![i] = 0]
           /\ timer' = [timer EXCEPT ![i] = 0]

\* The cron job fires; it returns at once while a pass of this process runs.
Fire(i) == /\ pass[i] = "idle"
           /\ pass' = [pass EXCEPT ![i] = "acquiring"]
           /\ UNCHANGED <<key, lock, age, timer>>

StartWork(i) == /\ pass[i] = "acquiring"
                /\ \E t \in Fresh : /\ Acquire(t)
                                    /\ lock' = [lock EXCEPT ![i] = t]
                /\ pass' = [pass EXCEPT ![i] = "working"]
                /\ age' = [age EXCEPT ![i] = 0]
                /\ timer' = [timer EXCEPT ![i] = Interval]

\* acquire answers null: another instance has the lock.
Refused(i) == /\ pass[i] = "acquiring"
              /\ key.token # NoToken
              /\ Idle(i)
              /\ UNCHANGED key

\* acquire throws: Redis never got the SET, or did it and the answer is lost.
AcquireThrows(i) == /\ pass[i] = "acquiring"
                    /\ \/ UNCHANGED key
                       \/ \E t \in Fresh : Acquire(t)
                    /\ Idle(i)

\* The timer of keepLockAlive fires; what extend answers is not looked at.
Renew(i) == /\ Renewing
            /\ pass[i] = "working"
            /\ timer[i] = 0
            /\ Extend(lock[i])
            /\ age' = [age EXCEPT ![i] = IF key.token = lock[i] THEN 0 ELSE @]
            /\ timer' = [timer EXCEPT ![i] = Interval]
            /\ UNCHANGED <<pass, lock>>

RenewalLost(i) == /\ Renewing
                  /\ pass[i] = "working"
                  /\ timer[i] = 0
                  /\ age[i] <= MaxOutage
                  /\ timer' = [timer EXCEPT ![i] = Interval]
                  /\ UNCHANGED <<key, pass, lock, age>>

\* The work is done or threw: `finally` stops the renewal and releases.
FinishWork(i) == /\ pass[i] = "working"
                 /\ pass' = [pass EXCEPT ![i] = "releasing"]
                 /\ UNCHANGED <<key, lock, age, timer>>

ReleaseLock(i) == /\ pass[i] = "releasing"
                  /\ Release(lock[i])
                  /\ Idle(i)

\* The release throws, which is logged and ignored: the key has to expire.
ReleaseThrows(i) == /\ pass[i] = "releasing"
                    /\ Idle(i)
                    /\ UNCHANGED key

\* The process is killed and restarted.
Crash(i) == /\ pass[i] # "idle"
            /\ Idle(i)
            /\ UNCHANGED key

\* A timer that is due fires before time goes on.
MayTick == \A i \in Working : age[i] < MaxPass /\ (Renewing => timer[i] > 0)

Tick == /\ MayTick
        /\ Age
        /\ age' = [i \in Instances |-> IF i \in Working THEN age[i] + 1 ELSE age[i]]
        /\ timer' = [i \in Instances |->
                        IF Renewing /\ i \in Working THEN timer[i] - 1 ELSE timer[i]]
        /\ UNCHANGED <<pass, lock>>

Next == \/ \E i \in Instances : \/ Fire(i)
                                \/ StartWork(i)
                                \/ Refused(i)
                                \/ AcquireThrows(i)
                                \/ Renew(i)
                                \/ RenewalLost(i)
                                \/ FinishWork(i)
                                \/ ReleaseLock(i)
                                \/ ReleaseThrows(i)
                                \/ Crash(i)
        \/ Tick

Spec == Init /\ [][Next]_vars

\* The work of a pass ends (every call it makes has a timeout), its release is
\* sent, and time goes on.
Fairness == /\ WF_vars(Tick)
            /\ \A i \in Instances : /\ WF_vars(FinishWork(i))
                                    /\ WF_vars(ReleaseLock(i))
                                    /\ WF_vars(Renew(i))

FairSpec == Spec /\ Fairness

----------------------------------------------------------------------------
\* The type invariant of the lock and of the passes of every instance.
TypeOK == /\ key \in KeyType
          /\ pass \in [Instances -> {"idle", "acquiring", "working", "releasing"}]
          /\ lock \in [Instances -> Tokens \cup {NoToken}]
          /\ age \in [Instances -> Nat]
          /\ timer \in [Instances -> 0..Interval]

\* Two instances never do the work of one scheduler at the same time
\* (README.md:96, acquire with NX, and keepLockAlive for the long passes).
OnePassAtATime == \A i, j \in Working : i = j

\* A key that is taken leaves Redis only when its own holder releases it or
\* when its time is up, and its life is prolonged only by its own holder: the
\* token compared in release and extend protects the lock of another instance
\* from a pass that outlived its own.
ForeignLockUntouched ==
    [][key.token # NoToken =>
          /\ key'.token # key.token =>
                \/ key'.token = NoToken /\ key.ttl = 1
                \/ \E i \in Instances : pass[i] = "releasing" /\ lock[i] = key.token
          /\ key'.token = key.token /\ key'.ttl > key.ttl =>
                \E i \in Working : lock[i] = key.token]_vars

\* A lock is never lost for good: after a crash, a lost answer or a failed
\* release the key expires (the PX of acquire), so the scheduler runs again.
LockComesBack == []<>(key.token = NoToken)

\* What the configuration must give for OnePassAtATime: a renewed lock
\* survives the longest outage and one more interval, a fixed one the pass.
LeaseOutlivesPass == IF Renewing THEN MaxOutage + Interval < TTL ELSE MaxPass < TTL
\* No two passes hold the same token, not even passes that lost their lock.
TokensDistinct == \A i, j \in Instances : lock[i] = lock[j] /\ lock[i] # NoToken => i = j

\* Why one pass runs at a time: the key of a working instance is its own, has
\* exactly the rest of its life left, and the next renewal comes before the end.
LeaseHeld ==
    \A i \in Working :
        /\ lock[i] \in Tokens
        /\ key.token = lock[i]
        /\ key.ttl + age[i] = TTL
        /\ IF Renewing THEN age[i] + timer[i] < TTL ELSE age[i] <= MaxPass
=============================================================================
