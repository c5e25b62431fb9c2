--------------------------- MODULE PlatformProofs ---------------------------
(***************************************************************************)
(* Proofs about the smaller parts of the platform.  The passes of a          *)
(* scheduler.  What a user owns: the settings of the bots, the keys of the   *)
(* exchanges and the orders placed with them, the Telegram chat the account  *)
(* is linked to, and the sign-in of the account.  What every user shares:    *)
(* quotes, markets, price streams and the counters of the webhook.  The fees *)
(* an order is recorded with.  And the platform they make up together, of    *)
(* which everything that is proved of a part holds.                          *)
(***************************************************************************)
EXTENDS Platform, LiveDeskProofs, BacktestProofs, SimulatedTradingProofs, FiniteSums, SequenceTheorems, FiniteSetTheorems,
        TLAPS

-----------------------------------------------------------------------------
(* The passes of one scheduler exclude each other as long as the lease        *)
(* outlives the pass, for every set of instances and every lock life.         *)

\* The renewal period is positive and never longer than the life of the lock.
LEMMA IntervalType == Interval \in Nat \ {0} /\ Interval <= TTL
  BY RedisLockAssumption DEF Interval

\* What one Redis operation leaves in the key is a key again.
LEMMA RedisStepType ==
    ASSUME key \in KeyType, NEW t \in Tokens \cup {NoToken},
           \/ t \in Tokens /\ Acquire(t)
           \/ Release(t)
           \/ Extend(t)
           \/ Age
    PROVE  key' \in KeyType
<1>1. CASE t \in Tokens /\ Acquire(t)
  BY <1>1, RedisLockAssumption DEF Acquire, KeyType
<1>2. CASE Release(t)
  BY <1>2, RedisLockAssumption DEF Release, FreeKey, KeyType
<1>3. CASE Extend(t)
  BY <1>3, RedisLockAssumption DEF Extend, KeyType
<1>4. CASE Age
  BY <1>4, RedisLockAssumption DEF Age, FreeKey, KeyType
<1> QED
  BY <1>1, <1>2, <1>3, <1>4

\* Every state of every behaviour is well typed (RedisLock and the passes).
THEOREM TypeCorrect == Spec => []TypeOK
<1>1. Init => TypeOK
  BY IntervalType, RedisLockAssumption DEF Init, TypeOK, KeyType, FreeKey
<1>2. TypeOK /\ [Next]_vars => TypeOK'
  <2> SUFFICES ASSUME TypeOK, [Next]_vars PROVE TypeOK'
    OBVIOUS
  <2> USE IntervalType DEF TypeOK
  <2>1. ASSUME NEW i \in Instances, Fire(i) PROVE TypeOK'
    BY <2>1 DEF Fire
  <2>2. ASSUME NEW i \in Instances, StartWork(i) PROVE TypeOK'
    <3>1. PICK t \in Fresh : Acquire(t) /\ lock' = [lock EXCEPT ![i] = t]
      BY <2>2 DEF StartWork
    <3>2. t \in Tokens /\ key' \in KeyType
      BY <3>1, RedisStepType DEF Fresh
    <3> QED
      BY <2>2, <3>1, <3>2 DEF StartWork
  <2>3. ASSUME NEW i \in Instances, Refused(i) PROVE TypeOK'
    BY <2>3 DEF Refused, Idle
  <2>4. ASSUME NEW i \in Instances, AcquireThrows(i) PROVE TypeOK'
    <3>1. key' \in KeyType
      BY <2>4, RedisStepType DEF AcquireThrows, Fresh
    <3> QED
      BY <2>4, <3>1 DEF AcquireThrows, Idle
  <2>5. ASSUME NEW i \in Instances, Renew(i) PROVE TypeOK'
    <3>1. key' \in KeyType
      BY <2>5, RedisStepType DEF Renew
    <3> QED
      BY <2>5, <3>1 DEF Renew
  <2>6. ASSUME NEW i \in Instances, RenewalLost(i) PROVE TypeOK'
    BY <2>6 DEF RenewalLost
  <2>7. ASSUME NEW i \in Instances, FinishWork(i) PROVE TypeOK'
    BY <2>7 DEF FinishWork
  <2>8. ASSUME NEW i \in Instances, ReleaseLock(i) PROVE TypeOK'
    <3>1. key' \in KeyType
      BY <2>8, RedisStepType DEF ReleaseLock
    <3> QED
      BY <2>8, <3>1 DEF ReleaseLock, Idle
  <2>9. ASSUME NEW i \in Instances, ReleaseThrows(i) PROVE TypeOK'
    BY <2>9 DEF ReleaseThrows, Idle
  <2>10. ASSUME NEW i \in Instances, Crash(i) PROVE TypeOK'
    BY <2>10 DEF Crash, Idle
  <2>11. ASSUME Tick PROVE TypeOK'
    <3>1. key' \in KeyType
      BY <2>11, RedisStepType DEF Tick
    <3>2. timer' \in [Instances -> 0..Interval]
      <4>1. \A i \in Instances : Renewing /\ i \in Working => timer[i] - 1 \in 0..Interval
        BY <2>11 DEF Tick, MayTick
      <4> QED
        BY <2>11, <4>1 DEF Tick
    <3> QED
      BY <2>11, <3>1, <3>2 DEF Tick
  <2>12. ASSUME UNCHANGED vars PROVE TypeOK'
    BY <2>12 DEF vars
  <2> QED
    BY <2>1, <2>2, <2>3, <2>4, <2>5, <2>6, <2>7, <2>8, <2>9, <2>10, <2>11, <2>12 DEF Next
<1> QED
  BY <1>1, <1>2, PTL DEF Spec

\* A token is fresh when acquire draws it, so no two passes share one
\* (randomUUID in acquire, redis-lock.service.ts:28).
LEMMA TokensStayDistinct == Spec => []TokensDistinct
<1>1. Init => TokensDistinct
  BY DEF Init, TokensDistinct
<1>2. TypeOK /\ TokensDistinct /\ [Next]_vars => TokensDistinct'
  <2> SUFFICES ASSUME TypeOK, TokensDistinct, [Next]_vars PROVE TokensDistinct'
    OBVIOUS
  <2>1. CASE lock' = lock
    BY <2>1 DEF TokensDistinct
  <2>2. ASSUME NEW i \in Instances, lock' = [lock EXCEPT ![i] = NoToken]
        PROVE  TokensDistinct'
    BY <2>2 DEF TokensDistinct, TypeOK
  <2>3. ASSUME NEW i \in Instances, NEW t \in Fresh, lock' = [lock EXCEPT ![i] = t]
        PROVE  TokensDistinct'
    BY <2>3 DEF TokensDistinct, TypeOK, Fresh
  <2> QED
    BY <2>1, <2>2, <2>3 DEF Next, vars, Fire, StartWork, Refused, AcquireThrows, Renew,
       RenewalLost, FinishWork, ReleaseLock, ReleaseThrows, Crash, Tick, Idle
<1> QED
  BY <1>1, <1>2, TypeCorrect, PTL DEF Spec

\* The inductive invariant: whoever works still owns the key, with the rest of
\* its life exactly accounted for.  It needs LeaseOutlivesPass.
THEOREM LeaseIsHeld == LeaseOutlivesPass => (Spec => []LeaseHeld)
<1> SUFFICES ASSUME LeaseOutlivesPass PROVE Spec => []LeaseHeld
  OBVIOUS
<1>1. Init => LeaseHeld
  BY DEF Init, LeaseHeld, Working
<1>2. TypeOK /\ TokensDistinct /\ LeaseHeld /\ [Next]_vars => LeaseHeld'
  <2> SUFFICES ASSUME TypeOK, TokensDistinct, LeaseHeld, [Next]_vars PROVE LeaseHeld'
    OBVIOUS
  <2> DEFINE Held(j) == /\ lock[j] \in Tokens
                        /\ key.token = lock[j]
                        /\ key.ttl + age[j] = TTL
                        /\ IF Renewing THEN age[j] + timer[j] < TTL ELSE age[j] <= MaxPass
  <2>h. \A j \in Working : Held(j)
    BY DEF LeaseHeld
  \* With the key untouched, an instance that stops working or does not start
  \* disturbs nobody else.
  <2>a. ASSUME NEW i \in Instances, key' = key, pass'[i] # "working",
               \A j \in Instances \ {i} : /\ pass'[j] = pass[j]
                                          /\ lock'[j] = lock[j]
                                          /\ age'[j] = age[j]
                                          /\ timer'[j] = timer[j]
        PROVE  LeaseHeld'
    <3>1. \A j \in Working' : j \in Working /\ j # i
      BY <2>a DEF Working
    <3> QED
      BY <2>a, <2>h, <3>1 DEF LeaseHeld, Working
  \* When nobody works before, only i can work afterwards.
  <2>b. ASSUME NEW i \in Instances, key.token = NoToken,
               \A j \in Instances \ {i} : pass'[j] = pass[j]
        PROVE  Working' \subseteq {i}
    BY <2>b, <2>h, RedisLockAssumption DEF Working
  <2>1. ASSUME NEW i \in Instances, Fire(i) PROVE LeaseHeld'
    BY <2>1, <2>a DEF Fire, TypeOK
  <2>2. ASSUME NEW i \in Instances, StartWork(i) PROVE LeaseHeld'
    <3>1. PICK t \in Fresh : Acquire(t) /\ lock' = [lock EXCEPT ![i] = t]
      BY <2>2 DEF StartWork
    <3>2. Working' \subseteq {i}
      BY <2>2, <2>b, <3>1 DEF StartWork, Acquire, TypeOK
    <3>3. /\ lock'[i] = t /\ t \in Tokens
          /\ key'.token = t /\ key'.ttl = TTL
          /\ age'[i] = 0
          /\ timer'[i] = Interval
      BY <2>2, <3>1 DEF StartWork, Acquire, Fresh, TypeOK
    <3>4. Renewing => Interval < TTL
      BY IntervalType, RedisLockAssumption, SchedulerPassAssumption DEF LeaseOutlivesPass
    <3>5. Held(i)'
      BY <3>3, <3>4, IntervalType, RedisLockAssumption, SchedulerPassAssumption
    <3> QED
      BY <3>2, <3>5 DEF LeaseHeld
  <2>3. ASSUME NEW i \in Instances, Refused(i) PROVE LeaseHeld'
    BY <2>3, <2>a DEF Refused, Idle, TypeOK
  <2>4. ASSUME NEW i \in Instances, AcquireThrows(i) PROVE LeaseHeld'
    <3>1. CASE UNCHANGED key
      BY <2>4, <3>1, <2>a DEF AcquireThrows, Idle, TypeOK
    <3>2. CASE \E t \in Fresh : Acquire(t)
      <4>1. Working' \subseteq {i}
        BY <2>4, <2>b, <3>2 DEF AcquireThrows, Acquire, Idle, TypeOK
      <4>2. pass'[i] # "working"
        BY <2>4 DEF AcquireThrows, Idle, TypeOK
      <4> QED
        BY <4>1, <4>2 DEF LeaseHeld, Working
    <3> QED
      BY <2>4, <3>1, <3>2 DEF AcquireThrows
  <2>5. ASSUME NEW i \in Instances, Renew(i) PROVE LeaseHeld'
    <3>1. Working' = Working /\ i \in Working /\ Renewing
      BY <2>5 DEF Renew, Working
    <3>2. Working = {i}
      BY <2>h, <3>1, RedisLockAssumption DEF TokensDistinct, Working
    <3>3. key.token = lock[i] /\ lock[i] \in Tokens
      BY <2>h, <3>1
    <3>4. /\ lock'[i] = lock[i]
          /\ key'.token = lock[i] /\ key'.ttl = TTL
          /\ age'[i] = 0
          /\ timer'[i] = Interval
      BY <2>5, <3>1, <3>3 DEF Renew, Extend, TypeOK, KeyType
    <3>5. Interval < TTL
      BY <3>1, IntervalType, RedisLockAssumption, SchedulerPassAssumption DEF LeaseOutlivesPass
    <3>6. Held(i)'
      BY <3>1, <3>3, <3>4, <3>5, IntervalType, RedisLockAssumption
         DEF Renew
    <3> QED
      BY <3>1, <3>2, <3>6 DEF LeaseHeld
  <2>6. ASSUME NEW i \in Instances, RenewalLost(i) PROVE LeaseHeld'
    <3>1. Working' = Working /\ i \in Working /\ Renewing
      BY <2>6 DEF RenewalLost, Working
    <3>2. age[i] + Interval < TTL
      BY <2>6, IntervalType, RedisLockAssumption, SchedulerPassAssumption
         DEF RenewalLost, LeaseOutlivesPass, TypeOK, Working
    <3>3. ASSUME NEW j \in Working PROVE Held(j)'
      <4>1. Held(j) /\ j \in Instances
        BY <2>h, <3>3 DEF Working
      <4>2. timer'[j] = IF j = i THEN Interval ELSE timer[j]
        BY <2>6, <4>1 DEF RenewalLost, TypeOK
      <4> QED
        BY <2>6, <3>1, <3>2, <4>1, <4>2 DEF RenewalLost
    <3> QED
      BY <3>1, <3>3 DEF LeaseHeld
  <2>7. ASSUME NEW i \in Instances, FinishWork(i) PROVE LeaseHeld'
    BY <2>7, <2>a DEF FinishWork, TypeOK
  <2>8. ASSUME NEW i \in Instances, ReleaseLock(i) PROVE LeaseHeld'
    <3>1. CASE key.token = lock[i] /\ lock[i] # NoToken
      <4>1. Working = {}
        BY <2>8, <2>h, <3>1 DEF ReleaseLock, TokensDistinct, Working
      <4>2. Working' = {}
        BY <2>8, <4>1 DEF ReleaseLock, Idle, Working, TypeOK
      <4> QED
        BY <4>2 DEF LeaseHeld
    <3>2. CASE key.token # lock[i]
      BY <2>8, <2>a, <3>2 DEF ReleaseLock, Release, Idle, TypeOK
    <3>3. CASE key.token = NoToken
      <4>1. Working' \subseteq {i}
        BY <2>8, <2>b, <3>3 DEF ReleaseLock, Idle, TypeOK
      <4>2. pass'[i] # "working"
        BY <2>8 DEF ReleaseLock, Idle, TypeOK
      <4> QED
        BY <4>1, <4>2 DEF LeaseHeld, Working
    <3> QED
      BY <3>1, <3>2, <3>3
  <2>9. ASSUME NEW i \in Instances, ReleaseThrows(i) PROVE LeaseHeld'
    BY <2>9, <2>a DEF ReleaseThrows, Idle, TypeOK
  <2>10. ASSUME NEW i \in Instances, Crash(i) PROVE LeaseHeld'
    BY <2>10, <2>a DEF Crash, Idle, TypeOK
  <2>11. ASSUME Tick PROVE LeaseHeld'
    <3>1. Working' = Working
      BY <2>11 DEF Tick, Working
    <3>2. ASSUME NEW j \in Working PROVE Held(j)'
      <4>1. Held(j) /\ j \in Instances /\ age[j] \in Nat /\ timer[j] \in Nat
        BY <2>h, <3>2, IntervalType DEF Working, TypeOK
      <4>2. /\ age'[j] = age[j] + 1
            /\ timer'[j] = IF Renewing THEN timer[j] - 1 ELSE timer[j]
            /\ lock'[j] = lock[j]
        BY <2>11, <3>2, <4>1 DEF Tick
      <4>3. IF Renewing THEN timer[j] > 0 ELSE age[j] < MaxPass
        BY <2>11, <3>2 DEF Tick, MayTick
      <4>4. key.ttl \in Nat /\ key.ttl > 1
        BY <4>1, <4>3, RedisLockAssumption, SchedulerPassAssumption
           DEF LeaseOutlivesPass, TypeOK, KeyType
      <4>5. key'.token = key.token /\ key'.ttl = key.ttl - 1
        BY <2>11, <4>4 DEF Tick, Age, TypeOK, KeyType
      <4> QED
        BY <4>1, <4>2, <4>3, <4>4, <4>5, RedisLockAssumption, SchedulerPassAssumption
    <3> QED
      BY <3>1, <3>2 DEF LeaseHeld
  <2>12. ASSUME UNCHANGED vars PROVE LeaseHeld'
    BY <2>12, <2>h DEF vars, LeaseHeld, Working
  <2> QED
    BY <2>1, <2>2, <2>3, <2>4, <2>5, <2>6, <2>7, <2>8, <2>9, <2>10, <2>11, <2>12 DEF Next
<1> QED
  BY <1>1, <1>2, TypeCorrect, TokensStayDistinct, PTL DEF Spec

\* Two instances never work at once, whatever the number of instances, the
\* life of the lock, the order of crashes, lost answers and lost renewals
\* (README.md:96 under the condition LeaseOutlivesPass).
THEOREM PassesExclude == LeaseOutlivesPass => (Spec => []OnePassAtATime)
<1> SUFFICES ASSUME LeaseOutlivesPass PROVE Spec => []OnePassAtATime
  OBVIOUS
<1>1. TokensDistinct /\ LeaseHeld => OnePassAtATime
  BY RedisLockAssumption DEF TokensDistinct, LeaseHeld, OnePassAtATime, Working
<1> QED
  BY <1>1, TokensStayDistinct, LeaseIsHeld, PTL

\* The token comparison protects a lock from every pass but its holder's, also
\* when the lock was lost: no assumption on the length of passes or outages.
THEOREM ForeignLockSafe == Spec => ForeignLockUntouched
<1>1. TypeOK /\ TokensDistinct /\ [Next]_vars =>
        [key.token # NoToken =>
          /\ key'.token # key.token =>
                \/ key'.token = NoToken /\ key.ttl = 1
                \/ \E i \in Instances : pass[i] = "releasing" /\ lock[i] = key.token
          /\ key'.token = key.token /\ key'.ttl > key.ttl =>
                \E i \in Working : lock[i] = key.token]_vars
  <2> SUFFICES ASSUME TypeOK, [Next]_vars, key.token # NoToken, key' # key
               PROVE  /\ key'.token # key.token =>
                            \/ key'.token = NoToken /\ key.ttl = 1
                            \/ \E i \in Instances : pass[i] = "releasing" /\ lock[i] = key.token
                      /\ key'.token = key.token /\ key'.ttl > key.ttl =>
                            \E i \in Working : lock[i] = key.token
    BY RedisLockAssumption DEF TypeOK, KeyType
  <2>1. ASSUME NEW i \in Instances, Renew(i), key.token = lock[i]
        PROVE  key'.token = key.token /\ \E j \in Working : lock[j] = key.token
    BY <2>1 DEF Renew, Extend, Working, TypeOK, KeyType
  <2>2. ASSUME NEW i \in Instances, ReleaseLock(i), key.token = lock[i]
        PROVE  /\ key'.token # key.token
               /\ \E j \in Instances : pass[j] = "releasing" /\ lock[j] = key.token
    BY <2>2 DEF ReleaseLock, Release, FreeKey
  <2>3. ASSUME Tick
        PROVE  \/ key'.token = NoToken /\ key.ttl = 1
               \/ key'.token = key.token /\ ~(key'.ttl > key.ttl)
    BY <2>3, RedisLockAssumption DEF Tick, Age, FreeKey, TypeOK, KeyType
  <2> QED
    BY <2>1, <2>2, <2>3 DEF Next, vars, Fire, StartWork, Refused, AcquireThrows, Renew,
       RenewalLost, FinishWork, ReleaseLock, ReleaseThrows, Crash, Idle, Acquire, Extend, Release
<1> QED
  BY <1>1, TypeCorrect, TokensStayDistinct, PTL DEF Spec, ForeignLockUntouched

-----------------------------------------------------------------------------
(* Settings: whatever partial updates overlap, every row is valid as a whole. *)

\* What an update will write was validated as a whole, whatever happened to its
\* row since; and a request is about a row that was made once.
EditorsValidated ==
    \A q \in Editors :
        /\ editor[q].pc \in {"update", "set"} => editor[q].bot \in OwnRows /\ own[editor[q].bot] # NoRow
        /\ editor[q].pc = "update" => ValidStrategy(editor[q].row)

SettingsInv == SettingsTypeOK /\ EditorsValidated /\ SettingsAlwaysValid

LEMMA SettingsInvInit == SettingsInit => SettingsInv
BY DEF SettingsInit, SettingsInv, SettingsTypeOK, EditorsValidated, SettingsAlwaysValid, IdleEditor, NoRow

LEMMA StartEditKeeps ==
    ASSUME SettingsInv, NEW q \in Editors, NEW r, StartEdit(q, r), UNCHANGED own,
           r.pc \in {"update", "set"} => r.bot \in OwnRows /\ own[r.bot] # NoRow,
           r.pc = "update" => ValidStrategy(r.row)
    PROVE  SettingsInv'
BY DEF SettingsInv, SettingsTypeOK, Made, EditorsValidated, SettingsAlwaysValid, StartEdit

LEMMA CreateKeeps ==
    ASSUME SettingsInv, NEW q \in Editors, NEW b \in OwnRows, NEW s, CreateStrategy(q, b, s)
    PROVE  SettingsInv'
<1> DEFINE row == [status |-> "STOPPED", settings |-> s]
<1> USE DEF SettingsInv, CreateStrategy, StartEdit
<1>1. own' = [c \in OwnRows |-> IF c = b THEN row ELSE own[c]]
  BY DEF SettingsTypeOK
<1>2. row # NoRow
  BY DEF NoRow
<1>3. SettingsTypeOK'
  BY <1>1 DEF SettingsTypeOK, Made
<1>4. EditorsValidated'
  BY <1>1, <1>2 DEF EditorsValidated, SettingsTypeOK, IdleEditor
<1>5. SettingsAlwaysValid'
  BY <1>1 DEF SettingsAlwaysValid
<1> QED BY <1>3, <1>4, <1>5

LEMMA WriteUpdateKeeps ==
    ASSUME SettingsInv, NEW q \in Editors, WriteUpdate(q)
    PROVE  SettingsInv'
<1> DEFINE w == editor[q]
           row == [status |-> own[w.bot].status, settings |-> w.row]
<1> USE DEF SettingsInv, WriteUpdate
<1>1. w.bot \in OwnRows /\ own[w.bot] # NoRow /\ ValidStrategy(w.row)
  BY DEF EditorsValidated
<1>2. CASE own[w.bot] = Deleted
  BY <1>2 DEF SettingsTypeOK, Made, EditorsValidated, SettingsAlwaysValid, IdleEditor
<1>3. CASE own[w.bot] # Deleted
  <2>1. Made(w.bot)
    BY <1>1, <1>3 DEF SettingsTypeOK
  <2>2. own' = [c \in OwnRows |-> IF c = w.bot THEN row ELSE own[c]]
    BY <1>1, <1>3, <2>1 DEF SettingsTypeOK, Made, WritesRow
  <2>3. row # NoRow
    BY DEF NoRow
  <2>4. SettingsTypeOK'
    BY <2>2 DEF SettingsTypeOK, Made
  <2>5. EditorsValidated'
    BY <2>2, <2>3 DEF EditorsValidated, SettingsTypeOK, IdleEditor
  <2>6. SettingsAlwaysValid'
    BY <2>2, <1>1 DEF SettingsAlwaysValid
  <2> QED BY <2>4, <2>5, <2>6
<1> QED BY <1>2, <1>3

LEMMA WriteStatusKeeps ==
    ASSUME SettingsInv, NEW q \in Editors, WriteStatus(q)
    PROVE  SettingsInv'
<1> DEFINE w == editor[q]
           row == IF w.status = "DELETED" THEN Deleted
                  ELSE [status |-> w.status, settings |-> own[w.bot].settings]
<1> USE DEF SettingsInv, WriteStatus
<1>1. w.bot \in OwnRows /\ own[w.bot] # NoRow
  BY DEF EditorsValidated
<1>2. CASE own[w.bot] = Deleted
  BY <1>2 DEF SettingsTypeOK, Made, EditorsValidated, SettingsAlwaysValid, IdleEditor
<1>3. CASE own[w.bot] # Deleted
  <2>1. Made(w.bot) /\ ValidStrategy(own[w.bot].settings)
    BY <1>1, <1>3 DEF SettingsTypeOK, SettingsAlwaysValid
  <2>2. own' = [c \in OwnRows |-> IF c = w.bot THEN row ELSE own[c]]
    BY <1>1, <1>3, <2>1 DEF SettingsTypeOK, Made
  <2>3. row # NoRow
    BY DEF NoRow, Deleted
  <2>4. SettingsTypeOK'
    BY <2>2 DEF SettingsTypeOK, Made
  <2>5. EditorsValidated'
    BY <2>2, <2>3 DEF EditorsValidated, SettingsTypeOK, IdleEditor
  <2>6. SettingsAlwaysValid'
    BY <2>2, <2>1 DEF SettingsAlwaysValid
  <2> QED BY <2>4, <2>5, <2>6
<1> QED BY <1>2, <1>3

LEMMA SettingsInvNext == SettingsInv /\ [SettingsNext]_settingsVars => SettingsInv'
<1> SUFFICES ASSUME SettingsInv, [SettingsNext]_settingsVars PROVE SettingsInv'
  OBVIOUS
<1>1. CASE UNCHANGED settingsVars
  BY <1>1 DEF settingsVars, SettingsInv, SettingsTypeOK, Made, EditorsValidated, SettingsAlwaysValid
<1>2. CASE SettingsNext
  <2>1. PICK q \in Editors :
            \/ \E b \in OwnRows :
                   \/ \E s \in NewSettings : CreateStrategy(q, b, s)
                   \/ \E edit \in Edits : ReadForUpdate(q, b, edit)
                   \/ \E status \in {"RUNNING", "PAUSED", "STOPPED", "DELETED"} : ReadToSet(q, b, status)
            \/ WriteUpdate(q) \/ WriteStatus(q)
    BY <1>2 DEF SettingsNext
  <2>2. ASSUME NEW b \in OwnRows, NEW edit \in Edits, ReadForUpdate(q, b, edit)
        PROVE  SettingsInv'
    BY <2>2, StartEditKeeps DEF ReadForUpdate, NoRow
  <2>3. ASSUME NEW b \in OwnRows, NEW status, ReadToSet(q, b, status)
        PROVE  SettingsInv'
    BY <2>3, StartEditKeeps DEF ReadToSet
  <2> QED BY <2>1, <2>2, <2>3, CreateKeeps, WriteUpdateKeeps, WriteStatusKeeps
<1> QED BY <1>1, <1>2

\* StrategyService: for any number of bots and overlapping requests, and whatever
\* the rules between the settings are, every stored bot satisfies all of them.
THEOREM EveryBotValid == SettingsSpec => []SettingsAlwaysValid
<1>1. SettingsInv => SettingsAlwaysValid
  BY DEF SettingsInv
<1> QED BY SettingsInvInit, SettingsInvNext, <1>1, PTL DEF SettingsSpec

-----------------------------------------------------------------------------
(* Exchanges: an account has at most as many orders with an id as calls about *)
(* it were under way at once, and the LIVE key may not withdraw.              *)

\* A LIVE key that is about to be stored has been asked about; so was the one stored.
LiveKeysValidated ==
    /\ credential["LIVE"].key # NoApiKey => Rights[credential["LIVE"].key] = {"spot"}
    /\ \A q \in KeyRequests :
           keyRequest[q].at = "save" /\ keyRequest[q].exchange = "LIVE" => Acceptable(keyRequest[q].key)

\* A request that saves or validates has a key.
RequestsHaveKeys ==
    \A q \in KeyRequests : keyRequest[q].at \in {"validate", "save"} => keyRequest[q].key \in ApiKeys

\* A call that has begun has an id and a key; one that reads an order back or answers
\* with it has seen it.
LookedOK(c) ==
    /\ demoCall[c].at \notin {"none", "ended"} =>
           demoCall[c].key \in ApiKeys /\ demoCall[c].id \in ClientIds
    /\ demoCall[c].answer \in {"placed", "recovered"} =>
           /\ demoCall[c].key \in ApiKeys /\ demoCall[c].id \in ClientIds
           /\ OrdersTaken(OnBook(c)) >= 1
    /\ demoCall[c].at = "history" => OnBybit(c)
    /\ demoCall[c].at = "readback" => OrdersTaken(OnBook(c)) >= 1

CallsLooked == \A c \in PlaceCalls : LookedOK(c)

\* A call that may place an order without another look: one that is about to, or one
\* whose last look, at the history, will find nothing there.
MayPlace(c) == demoCall[c].at = "place" \/ (demoCall[c].at = "history" /\ OnBook(c).done = 0)
Placing(a, id) == {c \in UnderWay(a, id) : MayPlace(c)}

\* Once there is an order, every call that may still add one is a call that was under way
\* together with those that did.
OnceAt(a, id) ==
    /\ Cardinality(UnderWay(a, id)) <= atOnce[a][id]
    /\ OrdersTaken(demoBook[a][id]) >= 1 =>
           OrdersTaken(demoBook[a][id]) + Cardinality(Placing(a, id)) <= atOnce[a][id]

BooksOnce == \A a \in DemoAccounts, id \in ClientIds : OnceAt(a, id)

DemoInv == DemoTypeOK /\ LiveKeysValidated /\ RequestsHaveKeys /\ CallsLooked /\ BooksOnce

LEMMA AcceptedOf ==
    ASSUME NEW row \in DemoRows
    PROVE  /\ OrdersTaken(row) \in Nat /\ row.open \in BOOLEAN /\ row.done \in Nat
           /\ OrdersTaken(row) = 0 <=> ~row.open /\ row.done = 0
BY DEF OrdersTaken, DemoRows

LEMMA UnderWayFinite ==
    ASSUME NEW a, NEW id
    PROVE  /\ IsFiniteSet(UnderWay(a, id)) /\ Cardinality(UnderWay(a, id)) \in Nat
           /\ IsFiniteSet(Placing(a, id)) /\ Cardinality(Placing(a, id)) \in Nat
           /\ Cardinality(Placing(a, id)) <= Cardinality(UnderWay(a, id))
<1>1. IsFiniteSet(PlaceCalls)
  BY FS_Interval, DemoOrdersAssumption DEF PlaceCalls
<1>2. UnderWay(a, id) \subseteq PlaceCalls /\ Placing(a, id) \subseteq UnderWay(a, id)
  BY DEF UnderWay, Placing
<1>3. IsFiniteSet(UnderWay(a, id))
  BY <1>1, <1>2, FS_Subset
<1>4. IsFiniteSet(Placing(a, id)) /\ Cardinality(Placing(a, id)) <= Cardinality(UnderWay(a, id))
  BY <1>2, <1>3, FS_Subset
<1> QED BY <1>3, <1>4, FS_CardinalityType

LEMMA KeysOfAccounts ==
    \A c \in PlaceCalls : DemoTypeOK /\ demoCall[c].key \in ApiKeys => AccountOf(c) \in DemoAccounts
BY DEF DemoTypeOK, DemoCalls, AccountOf, DemoAccounts

LEMMA DemoInvInit == DemoInit => DemoInv
<1> SUFFICES ASSUME DemoInit PROVE DemoInv
  OBVIOUS
<1> USE DEF DemoInit, KeysInit
<1>1. DemoTypeOK
  BY DEF DemoTypeOK, KeysTypeOK, KeyRows, KeyAsked, DemoCalls, CallPlaces, CallAnswers, DemoRows,
         NoCredential, NoKeyRequest, NoDemoOrder, NoDemoCall, Exchanges, DemoExchanges
<1>2. LiveKeysValidated
  BY DEF LiveKeysValidated, NoCredential, NoKeyRequest, Exchanges
<1>3. RequestsHaveKeys
  BY DEF RequestsHaveKeys, NoKeyRequest
<1>4. CallsLooked
  BY DEF CallsLooked, LookedOK, NoDemoCall
<1>5. BooksOnce
  <2> SUFFICES ASSUME NEW a \in DemoAccounts, NEW id \in ClientIds PROVE OnceAt(a, id)
    BY DEF BooksOnce
  <2>1. UnderWay(a, id) = {}
    BY DEF UnderWay, NoDemoCall
  <2>2. Cardinality(UnderWay(a, id)) = 0
    BY <2>1, FS_EmptySet
  <2>3. OrdersTaken(demoBook[a][id]) = 0
    BY DEF NoDemoOrder, OrdersTaken
  <2> QED BY <2>2, <2>3 DEF OnceAt
<1> QED BY <1>1, <1>2, <1>3, <1>4, <1>5 DEF DemoInv

\* A step of a request that leaves the rows.
LEMMA KeyRequestKeeps ==
    ASSUME DemoInv, NEW q \in KeyRequests,
           UNCHANGED <<credential, keyChanges, demoBook, demoCall, atOnce>>,
           keyRequest' = [keyRequest EXCEPT ![q] = keyRequest'[q]], keyRequest'[q] \in KeyAsked,
           keyRequest'[q].at \in {"validate", "save"} => keyRequest'[q].key \in ApiKeys,
           keyRequest'[q].at = "save" /\ keyRequest'[q].exchange = "LIVE" => Acceptable(keyRequest'[q].key)
    PROVE  DemoInv'
<1> USE DEF DemoInv
<1>1. DemoTypeOK'
  BY DEF DemoTypeOK, KeysTypeOK
<1>2. \A other \in KeyRequests : other # q => keyRequest'[other] = keyRequest[other]
  BY DEF DemoTypeOK, KeysTypeOK
<1>3. LiveKeysValidated'
  BY <1>2 DEF LiveKeysValidated, Acceptable, MayTrade
<1>4. RequestsHaveKeys'
  BY <1>2 DEF RequestsHaveKeys
<1>5. CallsLooked' /\ BooksOnce'
  BY DEF CallsLooked, LookedOK, BooksOnce, OnceAt, UnderWay, Placing, MayPlace, OnBook, OnBybit, AccountOf
<1> QED BY <1>1, <1>3, <1>4, <1>5

\* A step that writes a row and ends the request.
LEMMA KeyRowKeeps ==
    ASSUME DemoInv, NEW q \in KeyRequests, NEW exchange \in Exchanges, NEW row \in KeyRows,
           credential' = [credential EXCEPT ![exchange] = row],
           keyRequest' = [keyRequest EXCEPT ![q] = NoKeyRequest],
           keyChanges' \in Nat, UNCHANGED <<demoBook, demoCall, atOnce>>,
           exchange = "LIVE" /\ row.key # NoApiKey => Rights[row.key] = {"spot"}
    PROVE  DemoInv'
<1> USE DEF DemoInv
<1>1. NoKeyRequest \in KeyAsked /\ NoKeyRequest.at = "idle"
  BY DEF NoKeyRequest, KeyAsked, Exchanges
<1>2. DemoTypeOK'
  BY <1>1 DEF DemoTypeOK, KeysTypeOK
<1>3. LiveKeysValidated'
  BY <1>1 DEF LiveKeysValidated, DemoTypeOK, KeysTypeOK, Exchanges, KeyRows, Acceptable, MayTrade
<1>4. RequestsHaveKeys'
  BY <1>1 DEF RequestsHaveKeys, DemoTypeOK, KeysTypeOK
<1>5. CallsLooked' /\ BooksOnce'
  BY DEF CallsLooked, LookedOK, BooksOnce, OnceAt, UnderWay, Placing, MayPlace, OnBook, OnBybit, AccountOf
<1> QED BY <1>2, <1>3, <1>4, <1>5

LEMMA KeyStepKeeps ==
    ASSUME DemoInv, NEW q \in KeyRequests, KeyStep(q), UNCHANGED <<demoBook, demoCall, atOnce>>
    PROVE  DemoInv'
<1>0. /\ keyRequest[q] \in KeyAsked /\ keyChanges \in Nat
      /\ \A exchange \in Exchanges : credential[exchange] \in KeyRows
      /\ "LIVE" \in Exchanges
  BY DEF DemoInv, DemoTypeOK, KeysTypeOK, Exchanges
<1>1. ASSUME NEW exchange \in Exchanges, AskToRemove(q, exchange)
      PROVE  DemoInv'
  <2>1. keyRequest'[q] = [NoKeyRequest EXCEPT !.at = "remove", !.exchange = exchange,
                                              !.row = credential[exchange].row]
    BY <1>1 DEF AskToRemove, DemoInv, DemoTypeOK, KeysTypeOK
  <2>2. credential[exchange].row \in Nat
    BY <1>0 DEF KeyRows
  <2>3. keyRequest'[q] \in KeyAsked /\ keyRequest'[q].at = "remove"
    BY <2>1, <2>2 DEF KeyAsked, NoKeyRequest
  <2>4. keyRequest' = [keyRequest EXCEPT ![q] = keyRequest'[q]]
    BY <1>1, <2>1 DEF AskToRemove
  <2> QED BY <1>1, <2>3, <2>4, KeyRequestKeeps DEF AskToRemove
<1>2. ASSUME NEW exchange \in Exchanges, NEW k \in ApiKeys, AskToSave(q, exchange, k)
      PROVE  DemoInv'
  <2> DEFINE at == IF exchange = "LIVE" THEN "validate" ELSE "save"
  <2>1. keyRequest'[q] = [NoKeyRequest EXCEPT !.at = at, !.exchange = exchange, !.key = k]
    BY <1>2 DEF AskToSave, DemoInv, DemoTypeOK, KeysTypeOK
  <2>2. NoKeyRequest \in KeyAsked
    BY DEF NoKeyRequest, KeyAsked, Exchanges
  <2>3. at \in {"idle", "validate", "save", "remove"} /\ ~(at = "save" /\ exchange = "LIVE")
    OBVIOUS
  <2> HIDE DEF at
  <2>4. /\ keyRequest'[q] \in KeyAsked /\ keyRequest'[q].key = k
        /\ keyRequest'[q].at = at /\ keyRequest'[q].exchange = exchange
    BY <2>1, <2>2, <2>3 DEF KeyAsked
  <2>5. keyRequest' = [keyRequest EXCEPT ![q] = keyRequest'[q]]
    BY <1>2, <2>1 DEF AskToSave
  <2> QED BY <1>2, <2>5, <2>3, <2>4, KeyRequestKeeps DEF AskToSave
<1>3. CASE ValidateKey(q)
  <2>1. keyRequest'[q] = IF Acceptable(keyRequest[q].key) THEN [keyRequest[q] EXCEPT !.at = "save"]
                         ELSE NoKeyRequest
    BY <1>3 DEF ValidateKey, DemoInv, DemoTypeOK, KeysTypeOK
  <2>2. keyRequest'[q] \in KeyAsked
    BY <1>0, <2>1 DEF KeyAsked, NoKeyRequest
  <2>3. keyRequest'[q].at \in {"validate", "save"} =>
            keyRequest'[q].key \in ApiKeys /\ Acceptable(keyRequest'[q].key)
    BY <1>0, <1>3, <2>1 DEF KeyAsked, NoKeyRequest, ValidateKey, DemoInv, RequestsHaveKeys
  <2>4. keyRequest' = [keyRequest EXCEPT ![q] = keyRequest'[q]]
    BY <1>3, <2>1 DEF ValidateKey
  <2> QED BY <1>3, <2>2, <2>3, <2>4, KeyRequestKeeps DEF ValidateKey
<1>4. CASE SaveKey(q)
  <2> DEFINE exchange == keyRequest[q].exchange
             row == [row |-> IF credential[exchange].row = 0 THEN keyChanges + 1
                             ELSE credential[exchange].row,
                     key |-> keyRequest[q].key]
  <2>1. exchange \in Exchanges /\ row \in KeyRows
    BY <1>0 DEF KeyAsked, KeyRows
  <2>2. exchange = "LIVE" => Acceptable(row.key) /\ row.key \in ApiKeys
    BY <1>4 DEF SaveKey, DemoInv, LiveKeysValidated, RequestsHaveKeys
  <2>3. exchange = "LIVE" => Rights[row.key] = {"spot"}
    BY <2>2, ExchangeKeysAssumption DEF Acceptable, MayTrade
  <2>4. /\ credential' = [credential EXCEPT ![exchange] = row]
        /\ keyRequest' = [keyRequest EXCEPT ![q] = NoKeyRequest]
        /\ keyChanges' \in Nat
    BY <1>0, <1>4 DEF SaveKey
  <2> HIDE DEF row, exchange
  <2> QED BY <2>1, <2>3, <2>4, KeyRowKeeps
<1>5. CASE RemoveKey(q)
  <2> DEFINE exchange == keyRequest[q].exchange
             row == IF credential[exchange].row = keyRequest[q].row THEN NoCredential
                    ELSE credential[exchange]
  <2>1. exchange \in Exchanges /\ row \in KeyRows
    BY <1>0 DEF KeyAsked, KeyRows, NoCredential
  <2>2. exchange = "LIVE" /\ row.key # NoApiKey => Rights[row.key] = {"spot"}
    BY DEF DemoInv, LiveKeysValidated, NoCredential
  <2>3. credential = [credential EXCEPT ![exchange] = credential[exchange]]
    BY <2>1 DEF DemoInv, DemoTypeOK, KeysTypeOK
  <2>4. credential' = [credential EXCEPT ![exchange] = row]
    BY <1>5, <2>3 DEF RemoveKey
  <2>5. keyRequest' = [keyRequest EXCEPT ![q] = NoKeyRequest] /\ keyChanges' \in Nat
    BY <1>0, <1>5 DEF RemoveKey
  <2> HIDE DEF row, exchange
  <2> QED BY <2>1, <2>2, <2>4, <2>5, KeyRowKeeps
<1>6. CASE KeyRequestFails(q)
  <2>1. keyRequest'[q] = NoKeyRequest
    BY <1>6 DEF KeyRequestFails, DemoInv, DemoTypeOK, KeysTypeOK
  <2>2. keyRequest'[q] \in KeyAsked /\ keyRequest'[q].at = "idle"
    BY <2>1 DEF NoKeyRequest, KeyAsked, Exchanges
  <2>3. keyRequest' = [keyRequest EXCEPT ![q] = keyRequest'[q]]
    BY <1>6, <2>1 DEF KeyRequestFails
  <2> QED BY <1>6, <2>2, <2>3, KeyRequestKeeps DEF KeyRequestFails
<1> QED BY <1>1, <1>2, <1>3, <1>4, <1>5, <1>6 DEF KeyStep

\* What holds of the orders of one id lasts while no order and no call is added and no
\* call that had looked in vain comes about.
LEMMA OnceShrinks ==
    ASSUME DemoInv, DemoTypeOK', NEW a \in DemoAccounts, NEW id \in ClientIds,
           atOnce[a][id] <= atOnce'[a][id],
           UnderWay(a, id)' \subseteq UnderWay(a, id),
           OrdersTaken(demoBook[a][id])' = OrdersTaken(demoBook[a][id]),
           OrdersTaken(demoBook[a][id]) >= 1 => Placing(a, id)' \subseteq Placing(a, id)
    PROVE  OnceAt(a, id)'
<1>1. /\ OnceAt(a, id) /\ demoBook[a][id] \in DemoRows
      /\ atOnce[a][id] \in Nat /\ atOnce'[a][id] \in Nat
  BY DEF DemoInv, BooksOnce, DemoTypeOK
<1>2. OrdersTaken(demoBook[a][id]) \in Nat
  BY <1>1, AcceptedOf
<1>3. /\ Cardinality(UnderWay(a, id)) \in Nat /\ Cardinality(UnderWay(a, id)') \in Nat
      /\ Cardinality(UnderWay(a, id)') <= Cardinality(UnderWay(a, id))
  BY UnderWayFinite, FS_Subset, FS_CardinalityType
<1>4. Cardinality(UnderWay(a, id)') <= atOnce'[a][id]
  BY <1>1, <1>3 DEF OnceAt
<1>5. ASSUME OrdersTaken(demoBook[a][id])' >= 1
      PROVE  OrdersTaken(demoBook[a][id])' + Cardinality(Placing(a, id)') <= atOnce'[a][id]
  <2>1. Cardinality(Placing(a, id)) \in Nat /\ Cardinality(Placing(a, id)') \in Nat
        /\ Cardinality(Placing(a, id)') <= Cardinality(Placing(a, id))
    BY <1>5, UnderWayFinite, FS_Subset, FS_CardinalityType
  <2>2. OrdersTaken(demoBook[a][id]) + Cardinality(Placing(a, id)) <= atOnce[a][id]
    BY <1>1, <1>5 DEF OnceAt
  <2> QED BY <1>1, <1>2, <2>1, <2>2
<1> QED BY <1>4, <1>5 DEF OnceAt

\* A step of a call that leaves the books and what the call is about.
LEMMA CallStepKeeps ==
    ASSUME DemoInv, NEW c \in PlaceCalls, UNCHANGED <<keyVars, demoBook, atOnce>>,
           demoCall' = [demoCall EXCEPT ![c] = demoCall'[c]], demoCall'[c] \in DemoCalls,
           demoCall'[c].id = demoCall[c].id, demoCall'[c].key = demoCall[c].key,
           demoCall'[c].exchange = demoCall[c].exchange,
           demoCall[c].at \notin {"none", "ended"}, LookedOK(c)',
           MayPlace(c)' => MayPlace(c) \/ OrdersTaken(OnBook(c)) = 0
    PROVE  DemoInv'
<1>1. DemoTypeOK'
  BY DEF DemoInv, DemoTypeOK, KeysTypeOK, keyVars
<1>2. LiveKeysValidated' /\ RequestsHaveKeys'
  BY DEF DemoInv, LiveKeysValidated, RequestsHaveKeys, keyVars
<1>3. \A d \in PlaceCalls : d # c => demoCall'[d] = demoCall[d]
  BY DEF DemoInv, DemoTypeOK
<1>4. \A d \in PlaceCalls : /\ AccountOf(d)' = AccountOf(d) /\ demoCall'[d].id = demoCall[d].id
                           /\ OnBook(d)' = OnBook(d) /\ OnBybit(d)' = OnBybit(d)
  BY <1>3 DEF AccountOf, OnBook, OnBybit
<1>5. CallsLooked'
  BY <1>3, <1>4 DEF DemoInv, CallsLooked, LookedOK
<1>6. BooksOnce'
  <2> SUFFICES ASSUME NEW a \in DemoAccounts, NEW id \in ClientIds PROVE OnceAt(a, id)'
    BY DEF BooksOnce
  <2>1. UnderWay(a, id)' \subseteq UnderWay(a, id)
    BY <1>3, <1>4 DEF UnderWay
  <2>2. ASSUME NEW d \in Placing(a, id)', OrdersTaken(demoBook[a][id]) >= 1
        PROVE  d \in Placing(a, id)
    <3>1. d \in PlaceCalls /\ d \in UnderWay(a, id) /\ MayPlace(d)'
      BY <2>1, <2>2 DEF Placing, UnderWay
    <3>2. OnBook(d) = demoBook[a][id]
      BY <3>1 DEF UnderWay, OnBook
    <3>3. MayPlace(d)
      BY <1>3, <1>4, <2>2, <3>1, <3>2 DEF MayPlace
    <3> QED BY <3>1, <3>3 DEF Placing
  <2>3. atOnce[a][id] \in Nat /\ atOnce'[a][id] = atOnce[a][id] /\ demoBook' = demoBook
    BY DEF DemoInv, DemoTypeOK
  <2> QED BY <1>1, <2>1, <2>2, <2>3, OnceShrinks
<1> QED BY <1>1, <1>2, <1>5, <1>6 DEF DemoInv

LEMMA DemoCallOf ==
    ASSUME DemoInv, NEW c \in PlaceCalls
    PROVE  demoCall[c] \in DemoCalls /\ LookedOK(c)
BY DEF DemoInv, DemoTypeOK, CallsLooked

\* The orders a call is about.
LEMMA BookOf ==
    ASSUME DemoInv, NEW c \in PlaceCalls, demoCall[c].at \notin {"none", "ended"}
    PROVE  /\ AccountOf(c) \in DemoAccounts /\ demoCall[c].id \in ClientIds
           /\ demoCall[c].key \in ApiKeys /\ OnBook(c) \in DemoRows
<1>1. AccountOf(c) \in DemoAccounts /\ demoCall[c].id \in ClientIds /\ demoCall[c].key \in ApiKeys
  BY DemoCallOf, KeysOfAccounts DEF LookedOK, DemoInv
<1> QED BY <1>1 DEF DemoInv, DemoTypeOK, OnBook

LEMMA StartDemoOrderKeeps ==
    ASSUME DemoInv, NEW c \in PlaceCalls, NEW id \in ClientIds, NEW exchange \in DemoExchanges,
           StartDemoOrder(c, id, exchange)
    PROVE  DemoInv'
<1> DEFINE sent == credential[exchange].key
           a == <<exchange, Account[sent]>>
           n == Cardinality(UnderWay(a, id)) + 1
<1>1. demoCall[c].at = "none" /\ UNCHANGED <<keyVars, demoBook>>
  <2>1. c >= c
    BY DEF PlaceCalls
  <2> QED BY <2>1 DEF StartDemoOrder
<1>2. sent \in ApiKeys
  BY DEF StartDemoOrder, DemoInv, DemoTypeOK, KeysTypeOK, KeyRows, Exchanges
<1>3. a \in DemoAccounts
  BY <1>2 DEF DemoAccounts
<1>4. demoCall'[c] = [NoDemoCall EXCEPT !.at = "test", !.id = id, !.exchange = exchange,
                                       !.attempt = 1, !.key = sent]
  BY DEF StartDemoOrder, DemoInv, DemoTypeOK
<1>5. /\ demoCall'[c] \in DemoCalls /\ demoCall'[c].at = "test" /\ demoCall'[c].answer = "none"
      /\ demoCall'[c].key = sent /\ demoCall'[c].id = id /\ demoCall'[c].exchange = exchange
  <2> HIDE DEF sent
  <2>1. NoDemoCall \in DemoCalls /\ NoDemoCall.answer = "none"
    BY DEF NoDemoCall, DemoCalls, CallPlaces, CallAnswers, DemoExchanges
  <2> DEFINE begun == [NoDemoCall EXCEPT !.at = "test", !.exchange = exchange, !.attempt = 1]
  <2>2. begun \in DemoCalls /\ begun.at = "test" /\ begun.exchange = exchange /\ begun.answer = "none"
    BY <2>1 DEF DemoCalls, CallPlaces
  <2>3. demoCall'[c] = [begun EXCEPT !.id = id, !.key = sent]
    BY <1>4, <2>1 DEF DemoCalls
  <2> HIDE DEF begun
  <2> QED BY <1>2, <2>2, <2>3 DEF DemoCalls
<1>6. \A d \in PlaceCalls : d # c => demoCall'[d] = demoCall[d]
  BY DEF StartDemoOrder, DemoInv, DemoTypeOK
<1>7. n \in Nat /\ n = Cardinality(UnderWay(a, id)) + 1
  BY UnderWayFinite
<1>8. atOnce' = [atOnce EXCEPT ![a][id] = IF n > atOnce[a][id] THEN n ELSE atOnce[a][id]]
  BY <1>3 DEF StartDemoOrder, DemoInv, DemoTypeOK
<1> HIDE DEF n
<1>9. /\ atOnce' \in [DemoAccounts -> [ClientIds -> Nat]] /\ atOnce'[a][id] >= n
      /\ \A b \in DemoAccounts, i \in ClientIds : atOnce[b][i] \in Nat /\ atOnce[b][i] <= atOnce'[b][i]
  <2> HIDE DEF a
  <2>1. atOnce \in [DemoAccounts -> [ClientIds -> Nat]]
    BY DEF DemoInv, DemoTypeOK
  <2>2. (IF n > atOnce[a][id] THEN n ELSE atOnce[a][id]) \in Nat
    BY <1>3, <1>7, <2>1
  <2> QED BY <1>3, <1>7, <1>8, <2>1, <2>2
<1>10. demoCall' \in [PlaceCalls -> DemoCalls]
  BY <1>5, <1>6 DEF StartDemoOrder, DemoInv, DemoTypeOK
<1>11. DemoTypeOK'
  BY <1>1, <1>9, <1>10 DEF DemoInv, DemoTypeOK, KeysTypeOK, keyVars
<1>12. LiveKeysValidated' /\ RequestsHaveKeys'
  BY <1>1 DEF DemoInv, LiveKeysValidated, RequestsHaveKeys, keyVars
<1>13. \A d \in PlaceCalls : d # c => /\ AccountOf(d)' = AccountOf(d) /\ OnBook(d)' = OnBook(d)
                                     /\ OnBybit(d)' = OnBybit(d)
  BY <1>1, <1>6 DEF AccountOf, OnBook, OnBybit
<1>14. CallsLooked'
  BY <1>2, <1>5, <1>6, <1>13 DEF DemoInv, CallsLooked, LookedOK
<1>15. ASSUME NEW b \in DemoAccounts, NEW i \in ClientIds
       PROVE  OnceAt(b, i)'
  <2>1. UnderWay(b, i)' \subseteq UnderWay(b, i) \cup {c}
    BY <1>6, <1>13 DEF UnderWay
  <2>2. Placing(b, i)' \subseteq Placing(b, i)
    BY <1>5, <1>6, <1>13 DEF UnderWay, Placing, MayPlace
  <2>3. CASE c \notin UnderWay(b, i)'
    BY <1>1, <1>9, <1>11, <2>1, <2>2, <2>3, OnceShrinks
  <2>4. CASE c \in UnderWay(b, i)'
    <3>1. b = a /\ i = id
      BY <1>5, <2>4 DEF UnderWay, AccountOf
    <3>2. /\ Cardinality(UnderWay(b, i)') <= Cardinality(UnderWay(b, i)) + 1
          /\ Cardinality(UnderWay(b, i)') \in Nat
      <4>1. IsFiniteSet(UnderWay(b, i)) /\ Cardinality(UnderWay(b, i)) \in Nat
        BY UnderWayFinite
      <4>2. c \notin UnderWay(b, i)
        BY <1>1 DEF UnderWay
      <4>3. /\ IsFiniteSet(UnderWay(b, i) \cup {c})
            /\ Cardinality(UnderWay(b, i) \cup {c}) = Cardinality(UnderWay(b, i)) + 1
        BY <4>1, <4>2, FS_AddElement
      <4> QED BY <2>1, <4>1, <4>3, FS_Subset, FS_CardinalityType
    <3>3. Cardinality(UnderWay(b, i)') <= atOnce'[b][i]
      BY <1>7, <1>9, <3>1, <3>2, UnderWayFinite
    <3>4. /\ demoBook'[b][i] = demoBook[b][i] /\ OnceAt(b, i)
          /\ atOnce[b][i] \in Nat /\ atOnce'[b][i] \in Nat /\ atOnce[b][i] <= atOnce'[b][i]
      BY <1>1, <1>9 DEF DemoInv, BooksOnce
    <3>5. /\ Cardinality(Placing(b, i)') <= Cardinality(Placing(b, i))
          /\ Cardinality(Placing(b, i)') \in Nat /\ Cardinality(Placing(b, i)) \in Nat
      BY <2>2, UnderWayFinite, FS_Subset, FS_CardinalityType
    <3>6. OrdersTaken(demoBook[b][i]) \in Nat
      BY AcceptedOf DEF DemoInv, DemoTypeOK
    <3>7. OrdersTaken(demoBook'[b][i]) = OrdersTaken(demoBook[b][i])
      BY <3>4
    <3>8. OrdersTaken(demoBook'[b][i]) >= 1 =>
              OrdersTaken(demoBook'[b][i]) + Cardinality(Placing(b, i)') <= atOnce'[b][i]
      BY <3>4, <3>5, <3>6, <3>7 DEF OnceAt
    <3> QED BY <3>3, <3>8 DEF OnceAt
  <2> QED BY <2>3, <2>4
<1> QED BY <1>11, <1>12, <1>14, <1>15 DEF DemoInv, BooksOnce

\* What a call is about does not change as it goes on or ends.
LEMMA GoKeeps ==
    ASSUME DemoInv, NEW c \in PlaceCalls, NEW at \in CallPlaces \ {"none", "ended"}, DemoGo(c, at),
           UNCHANGED <<keyVars, demoBook, atOnce>>, demoCall[c].at \notin {"none", "ended"},
           at = "history" => OnBybit(c) /\ (OnBook(c).done > 0 \/ OrdersTaken(OnBook(c)) = 0),
           at = "place" => MayPlace(c) \/ OrdersTaken(OnBook(c)) = 0,
           at = "readback" => OrdersTaken(OnBook(c)) >= 1
    PROVE  DemoInv'
<1>1. demoCall[c] \in DemoCalls /\ LookedOK(c) /\ OnBook(c) \in DemoRows
  BY DemoCallOf, BookOf
<1>2. demoCall'[c] = [demoCall[c] EXCEPT !.at = at]
  BY DEF DemoGo, DemoInv, DemoTypeOK
<1>3. /\ demoCall'[c] \in DemoCalls /\ demoCall'[c].at = at
      /\ demoCall'[c].answer = demoCall[c].answer /\ demoCall'[c].id = demoCall[c].id
      /\ demoCall'[c].key = demoCall[c].key /\ demoCall'[c].exchange = demoCall[c].exchange
  BY <1>1, <1>2 DEF DemoCalls
<1>4. demoCall' = [demoCall EXCEPT ![c] = demoCall'[c]]
  <2>1. demoCall' = [demoCall EXCEPT ![c] = [demoCall[c] EXCEPT !.at = at]]
    BY DEF DemoGo, DemoInv, DemoTypeOK
  <2> QED BY <1>2, <2>1
<1>5. OnBook(c)' = OnBook(c) /\ OnBybit(c)' = OnBybit(c)
  BY <1>3 DEF OnBook, OnBybit, AccountOf
<1>6. LookedOK(c)'
  BY <1>1, <1>3, <1>5 DEF LookedOK
<1>7. OnBook(c).done \in Nat
  BY <1>1, AcceptedOf
<1>8. MayPlace(c)' => MayPlace(c) \/ OrdersTaken(OnBook(c)) = 0
  BY <1>3, <1>5, <1>7 DEF MayPlace
<1> QED BY <1>3, <1>4, <1>6, <1>8, CallStepKeeps

LEMMA AnswerKeeps ==
    ASSUME DemoInv, NEW c \in PlaceCalls, NEW answer \in {"placed", "recovered", "failed"},
           DemoAnswer(c, answer), UNCHANGED <<keyVars, demoBook, atOnce>>,
           demoCall[c].at \notin {"none", "ended"},
           answer \in {"placed", "recovered"} => OrdersTaken(OnBook(c)) >= 1
    PROVE  DemoInv'
<1>1. /\ demoCall[c] \in DemoCalls /\ LookedOK(c)
      /\ demoCall[c].key \in ApiKeys /\ demoCall[c].id \in ClientIds
  BY DemoCallOf, BookOf
<1>2. demoCall'[c] = [demoCall[c] EXCEPT !.at = "ended", !.answer = answer]
  BY DEF DemoAnswer, DemoInv, DemoTypeOK
<1>3. /\ demoCall'[c] \in DemoCalls /\ demoCall'[c].at = "ended"
      /\ demoCall'[c].answer = answer /\ demoCall'[c].id = demoCall[c].id
      /\ demoCall'[c].key = demoCall[c].key /\ demoCall'[c].exchange = demoCall[c].exchange
  BY <1>1, <1>2 DEF DemoCalls, CallPlaces, CallAnswers
<1>4. demoCall' = [demoCall EXCEPT ![c] = demoCall'[c]]
  <2>1. demoCall' = [demoCall EXCEPT ![c] = [demoCall[c] EXCEPT !.at = "ended", !.answer = answer]]
    BY DEF DemoAnswer, DemoInv, DemoTypeOK
  <2> QED BY <1>2, <2>1
<1>5. OnBook(c)' = OnBook(c)
  BY <1>3 DEF OnBook, AccountOf
<1>6. LookedOK(c)'
  BY <1>1, <1>3, <1>5 DEF LookedOK
<1>7. ~MayPlace(c)'
  BY <1>3 DEF MayPlace
<1> QED BY <1>3, <1>4, <1>6, <1>7, CallStepKeeps

LEMMA LookForOrderKeeps ==
    ASSUME DemoInv, NEW c \in PlaceCalls, LookForOrder(c)
    PROVE  DemoInv'
<1>1. /\ demoCall[c].at \in {"open", "history"} /\ UNCHANGED <<keyVars, demoBook, atOnce>>
      /\ LookedOK(c)
  BY DemoCallOf DEF LookForOrder
<1>2. OnBook(c) \in DemoRows
  BY <1>1, BookOf
<1>3. /\ OrdersTaken(OnBook(c)) \in Nat /\ OnBook(c).done \in Nat /\ OnBook(c).open \in BOOLEAN
      /\ OrdersTaken(OnBook(c)) = 0 <=> ~OnBook(c).open /\ OnBook(c).done = 0
  BY <1>2, AcceptedOf
<1>4. CASE Listed(c)
  <2>1. OnBook(c).open \/ OnBook(c).done > 0
    BY <1>4 DEF Listed
  <2>2. OrdersTaken(OnBook(c)) >= 1
    BY <1>3, <2>1
  <2> QED BY <1>1, <1>4, <2>2, AnswerKeeps DEF LookForOrder
<1>5. CASE ~Listed(c) /\ demoCall[c].at = "open" /\ OnBybit(c)
  <2>1. ~OnBook(c).open /\ DemoGo(c, "history")
    BY <1>5 DEF Listed, LookForOrder
  <2>2. OnBook(c).done > 0 \/ OrdersTaken(OnBook(c)) = 0
    BY <1>3, <2>1
  <2> QED BY <1>1, <1>5, <2>1, <2>2, GoKeeps DEF CallPlaces
<1>6. CASE ~Listed(c) /\ ~(demoCall[c].at = "open" /\ OnBybit(c))
  <2>1. DemoGo(c, "place")
    BY <1>6 DEF LookForOrder
  <2>2. CASE demoCall[c].at = "history"
    <3>1. OnBook(c).done = 0
      BY <1>3, <1>6, <2>2 DEF Listed
    <3> QED BY <1>1, <2>1, <2>2, <3>1, GoKeeps DEF CallPlaces, MayPlace
  <2>3. CASE demoCall[c].at = "open" /\ ~OnBybit(c)
    <3>1. OrdersTaken(OnBook(c)) = 0
      BY <1>3, <1>6, <2>3 DEF Listed
    <3> QED BY <1>1, <2>1, <3>1, GoKeeps DEF CallPlaces
  <2> QED BY <1>1, <1>6, <2>2, <2>3
<1> QED BY <1>4, <1>5, <1>6

LEMMA RetryDemoOrderKeeps ==
    ASSUME DemoInv, NEW c \in PlaceCalls, RetryDemoOrder(c)
    PROVE  DemoInv'
<1>1. demoCall[c].at = "retry" /\ UNCHANGED <<keyVars, demoBook, atOnce>>
  BY DEF RetryDemoOrder
<1>2. CASE demoCall[c].attempt = MaxAttempts
  BY <1>1, <1>2, AnswerKeeps DEF RetryDemoOrder
<1>3. CASE demoCall[c].attempt # MaxAttempts
  <2>1. demoCall[c] \in DemoCalls /\ LookedOK(c)
    BY DemoCallOf
  <2>2. demoCall'[c] = [demoCall[c] EXCEPT !.at = "open", !.attempt = demoCall[c].attempt + 1]
    BY <1>3 DEF RetryDemoOrder, DemoInv, DemoTypeOK
  <2>3. demoCall[c].attempt + 1 \in Nat
    BY <2>1 DEF DemoCalls
  <2>4. /\ demoCall'[c] \in DemoCalls /\ demoCall'[c].at = "open"
        /\ demoCall'[c].answer = demoCall[c].answer /\ demoCall'[c].id = demoCall[c].id
        /\ demoCall'[c].key = demoCall[c].key /\ demoCall'[c].exchange = demoCall[c].exchange
    BY <2>1, <2>2, <2>3 DEF DemoCalls, CallPlaces
  <2>5. demoCall' = [demoCall EXCEPT ![c] = demoCall'[c]]
    BY <1>3, <2>2 DEF RetryDemoOrder, DemoInv, DemoTypeOK
  <2>6. OnBook(c)' = OnBook(c)
    BY <1>1, <2>4 DEF OnBook, AccountOf
  <2>7. LookedOK(c)' /\ ~MayPlace(c)'
    BY <1>1, <2>1, <2>4, <2>6 DEF LookedOK, MayPlace
  <2> QED BY <1>1, <2>4, <2>5, <2>7, CallStepKeeps
<1> QED BY <1>2, <1>3

\* A step of the books: the row of an id changes and loses nothing, the keys do not.
LEMMA BookRowKeeps ==
    ASSUME DemoInv, NEW a \in DemoAccounts, NEW id \in ClientIds, NEW row \in DemoRows,
           UNCHANGED <<keyVars, atOnce>>, demoBook' = [demoBook EXCEPT ![a][id] = row],
           OrdersTaken(row) >= OrdersTaken(demoBook[a][id]), row.done >= demoBook[a][id].done
    PROVE  /\ demoBook' \in [DemoAccounts -> [ClientIds -> DemoRows]]
           /\ LiveKeysValidated' /\ RequestsHaveKeys' /\ demoBook'[a][id] = row
           /\ \A b \in DemoAccounts, i \in ClientIds :
                  /\ <<b, i>> # <<a, id>> => demoBook'[b][i] = demoBook[b][i]
                  /\ OrdersTaken(demoBook'[b][i]) >= OrdersTaken(demoBook[b][i])
                  /\ demoBook'[b][i].done >= demoBook[b][i].done
<1>1. demoBook \in [DemoAccounts -> [ClientIds -> DemoRows]]
  BY DEF DemoInv, DemoTypeOK
<1>2. demoBook' \in [DemoAccounts -> [ClientIds -> DemoRows]] /\ demoBook'[a][id] = row
  <2> DEFINE Row == DemoRows
  <2> HIDE DEF Row
  <2>1. demoBook \in [DemoAccounts -> [ClientIds -> Row]] /\ row \in Row
    BY <1>1 DEF Row
  <2>2. demoBook' \in [DemoAccounts -> [ClientIds -> Row]] /\ demoBook'[a][id] = row
    BY <2>1
  <2> QED BY <2>2 DEF Row
<1>3. \A b \in DemoAccounts, i \in ClientIds : <<b, i>> # <<a, id>> => demoBook'[b][i] = demoBook[b][i]
  BY <1>1
<1>4. ASSUME NEW b \in DemoAccounts, NEW i \in ClientIds
      PROVE  /\ OrdersTaken(demoBook'[b][i]) >= OrdersTaken(demoBook[b][i])
             /\ demoBook'[b][i].done >= demoBook[b][i].done
  <2>1. demoBook[b][i] \in DemoRows
    BY <1>1
  <2>2. OrdersTaken(demoBook[b][i]) \in Nat /\ demoBook[b][i].done \in Nat
    BY <2>1, AcceptedOf
  <2>3. CASE b = a /\ i = id
    BY <1>2, <2>3
  <2>4. CASE <<b, i>> # <<a, id>>
    BY <1>3, <2>2, <2>4
  <2> QED BY <2>3, <2>4
<1>5. LiveKeysValidated' /\ RequestsHaveKeys'
  BY DEF DemoInv, LiveKeysValidated, RequestsHaveKeys, keyVars
<1> QED BY <1>2, <1>3, <1>4, <1>5

\* The order that is placed is one more, and the call that placed it does not again.
LEMMA PlaceDemoOrderKeeps ==
    ASSUME DemoInv, NEW c \in PlaceCalls, PlaceDemoOrder(c)
    PROVE  DemoInv'
<1> DEFINE a == AccountOf(c)
           id == demoCall[c].id
<1>1. /\ demoCall[c] \in DemoCalls /\ demoCall[c].at = "place" /\ LookedOK(c)
      /\ ~OnBook(c).open /\ UNCHANGED <<keyVars, atOnce>>
  BY DemoCallOf DEF PlaceDemoOrder
<1>2. /\ a \in DemoAccounts /\ id \in ClientIds /\ demoCall[c].key \in ApiKeys
      /\ OnBook(c) \in DemoRows /\ OnBook(c) = demoBook[a][id]
  BY <1>1, BookOf DEF OnBook
<1>3. PICK row \in {[OnBook(c) EXCEPT !.open = TRUE], [OnBook(c) EXCEPT !.done = OnBook(c).done + 1]} :
          demoBook' = [demoBook EXCEPT ![a][id] = row]
  BY DEF PlaceDemoOrder
<1>4. /\ row \in DemoRows /\ OrdersTaken(row) = OrdersTaken(OnBook(c)) + 1
      /\ OrdersTaken(OnBook(c)) \in Nat /\ row.done >= OnBook(c).done
  <2>1. PICK order \in DemoRows : order = OnBook(c) /\ ~order.open
    BY <1>1, <1>2
  <2>2. CASE row = [OnBook(c) EXCEPT !.open = TRUE]
    <3>1. row = [order EXCEPT !.open = TRUE]
      BY <2>1, <2>2
    <3>2. row \in DemoRows /\ row.open /\ row.done = order.done /\ order.done \in Nat
      BY <2>1, <3>1 DEF DemoRows
    <3>3. OrdersTaken(row) = order.done + 1 /\ OrdersTaken(order) = order.done
      BY <2>1, <3>2 DEF OrdersTaken
    <3> QED BY <2>1, <3>2, <3>3
  <2>3. CASE row = [OnBook(c) EXCEPT !.done = OnBook(c).done + 1]
    <3>1. row = [order EXCEPT !.done = order.done + 1]
      BY <2>1, <2>3
    <3>2. row \in DemoRows /\ ~row.open /\ row.done = order.done + 1 /\ order.done \in Nat
      BY <2>1, <3>1 DEF DemoRows
    <3>3. OrdersTaken(row) = order.done + 1 /\ OrdersTaken(order) = order.done
      BY <2>1, <3>2 DEF OrdersTaken
    <3> QED BY <2>1, <3>2, <3>3
  <2> QED BY <1>3, <2>2, <2>3
<1>5. PICK next \in {"readback", "retry", "ended"}, answer \in CallAnswers :
          /\ demoCall' = [demoCall EXCEPT ![c] = [demoCall[c] EXCEPT !.at = next, !.answer = answer]]
          /\ answer = "failed" \/ answer = demoCall[c].answer
  <2>1. CASE DemoAnswer(c, "failed")
    BY <2>1 DEF DemoAnswer, DemoInv, DemoTypeOK, CallAnswers
  <2>2. ASSUME NEW at \in {"readback", "retry"}, DemoGo(c, at)
        PROVE  demoCall' = [demoCall EXCEPT ![c] = [demoCall[c] EXCEPT !.at = at,
                                                                     !.answer = demoCall[c].answer]]
    <3>1. demoCall' = [demoCall EXCEPT ![c] = [demoCall[c] EXCEPT !.at = at]]
      BY <2>2 DEF DemoGo, DemoInv, DemoTypeOK
    <3>2. [demoCall[c] EXCEPT !.at = at] =
              [demoCall[c] EXCEPT !.at = at, !.answer = demoCall[c].answer]
      BY <1>1 DEF DemoCalls
    <3> QED BY <3>1, <3>2
  <2>3. demoCall[c].answer \in CallAnswers
    BY <1>1 DEF DemoCalls
  <2> QED BY <2>1, <2>2, <2>3 DEF PlaceDemoOrder
<1>6. demoCall'[c] = [demoCall[c] EXCEPT !.at = next, !.answer = answer]
  BY <1>5 DEF DemoInv, DemoTypeOK
<1>7. /\ demoCall'[c] \in DemoCalls /\ demoCall'[c].at = next /\ demoCall'[c].answer = answer
      /\ demoCall'[c].id = id /\ demoCall'[c].key = demoCall[c].key
      /\ demoCall'[c].exchange = demoCall[c].exchange
  BY <1>1, <1>6 DEF DemoCalls, CallPlaces
<1>8. \A d \in PlaceCalls : d # c => demoCall'[d] = demoCall[d]
  BY <1>5 DEF DemoInv, DemoTypeOK
<1>9. demoCall' \in [PlaceCalls -> DemoCalls]
  BY <1>5, <1>7, <1>8 DEF DemoInv, DemoTypeOK
<1>10. /\ demoBook' \in [DemoAccounts -> [ClientIds -> DemoRows]]
       /\ LiveKeysValidated' /\ RequestsHaveKeys' /\ demoBook'[a][id] = row
       /\ \A b \in DemoAccounts, i \in ClientIds :
              /\ <<b, i>> # <<a, id>> => demoBook'[b][i] = demoBook[b][i]
              /\ OrdersTaken(demoBook'[b][i]) >= OrdersTaken(demoBook[b][i])
              /\ demoBook'[b][i].done >= demoBook[b][i].done
  <2>1. OrdersTaken(row) >= OrdersTaken(demoBook[a][id]) /\ row.done >= demoBook[a][id].done
    BY <1>2, <1>4
  <2> HIDE DEF a, id
  <2> QED BY <1>1, <1>2, <1>3, <1>4, <2>1, BookRowKeeps
<1>11. DemoTypeOK'
  BY <1>1, <1>9, <1>10 DEF DemoInv, DemoTypeOK, KeysTypeOK, keyVars
<1>12. \A d \in PlaceCalls : AccountOf(d)' = AccountOf(d) /\ demoCall'[d].id = demoCall[d].id
                           /\ OnBybit(d)' = OnBybit(d)
  BY <1>7, <1>8 DEF AccountOf, OnBybit
<1>13. CallsLooked'
  <2> SUFFICES ASSUME NEW d \in PlaceCalls PROVE LookedOK(d)'
    BY DEF CallsLooked
  <2>1. LookedOK(d) /\ demoCall[d] \in DemoCalls
    BY DemoCallOf
  <2>2. ASSUME demoCall[d].key \in ApiKeys, demoCall[d].id \in ClientIds
        PROVE  OrdersTaken(OnBook(d)') >= OrdersTaken(OnBook(d)) /\ OrdersTaken(OnBook(d)) \in Nat
               /\ OrdersTaken(OnBook(d)') \in Nat
    <3>1. AccountOf(d) \in DemoAccounts
      BY <2>2, KeysOfAccounts DEF DemoInv
    <3>2. OnBook(d)' = demoBook'[AccountOf(d)][demoCall[d].id]
      BY <1>12 DEF OnBook
    <3>3. OnBook(d) \in DemoRows /\ OnBook(d)' \in DemoRows
      BY <1>10, <2>2, <3>1, <3>2 DEF OnBook, DemoInv, DemoTypeOK
    <3> QED BY <1>10, <2>2, <3>1, <3>2, <3>3, AcceptedOf DEF OnBook
  <2>3. CASE d = c
    <3>1. OnBook(c)' = row
      BY <1>10, <1>12 DEF OnBook
    <3>2. OrdersTaken(OnBook(c)') >= 1
      BY <1>4, <3>1
    <3> QED BY <1>2, <1>5, <1>7, <1>12, <2>3, <3>2 DEF LookedOK
  <2>4. CASE d # c
    BY <1>8, <1>12, <2>1, <2>2, <2>4 DEF LookedOK
  <2> QED BY <2>3, <2>4
<1>14. ASSUME NEW b \in DemoAccounts, NEW i \in ClientIds
       PROVE  OnceAt(b, i)'
  <2>1. UnderWay(b, i)' \subseteq UnderWay(b, i)
    <3>1. ASSUME NEW d \in UnderWay(b, i)'
          PROVE  d \in UnderWay(b, i)
      <4>1. /\ d \in PlaceCalls /\ demoCall'[d].at \notin {"none", "ended"}
            /\ demoCall'[d].id = i /\ AccountOf(d)' = b
        BY <3>1 DEF UnderWay
      <4>2. demoCall[d].at \notin {"none", "ended"}
        BY <1>1, <1>8, <4>1
      <4> QED BY <1>12, <4>1, <4>2 DEF UnderWay
    <3> QED BY <3>1
  <2>2. Placing(b, i)' \subseteq Placing(b, i) \ {c}
    <3>1. ASSUME NEW d \in Placing(b, i)'
          PROVE  d \in Placing(b, i) /\ d # c
      <4>1. d \in PlaceCalls /\ d \in UnderWay(b, i)' /\ d \in UnderWay(b, i) /\ MayPlace(d)'
        BY <2>1, <3>1 DEF Placing, UnderWay
      <4>2. d # c
        BY <1>7, <4>1 DEF MayPlace
      <4>3. AccountOf(d) = b /\ demoCall[d].id = i
        BY <4>1 DEF UnderWay
      <4>4. OnBook(d) = demoBook[b][i] /\ OnBook(d)' = demoBook'[b][i]
        BY <1>12, <4>1, <4>3 DEF OnBook
      <4>5. OnBook(d)'.done = 0 => OnBook(d).done = 0
        <5>1. demoBook[b][i].done \in Nat /\ demoBook'[b][i].done \in Nat
          BY <1>10 DEF DemoInv, DemoTypeOK, DemoRows
        <5> QED BY <1>10, <4>4, <5>1
      <4>6. MayPlace(d)
        BY <1>8, <4>1, <4>2, <4>5 DEF MayPlace
      <4> QED BY <4>1, <4>2, <4>6 DEF Placing
    <3> QED BY <3>1
  <2>3. CASE <<b, i>> # <<a, id>>
    <3>1. demoBook'[b][i] = demoBook[b][i] /\ atOnce' = atOnce /\ atOnce[b][i] \in Nat
      BY <1>1, <1>10, <2>3 DEF DemoInv, DemoTypeOK
    <3> QED BY <1>11, <2>1, <2>2, <3>1, OnceShrinks
  <2>4. CASE b = a /\ i = id
    <3>1. c \in Placing(b, i)
      BY <1>1, <2>4 DEF Placing, UnderWay, MayPlace
    <3>2. /\ IsFiniteSet(Placing(b, i)) /\ IsFiniteSet(UnderWay(b, i))
          /\ Cardinality(Placing(b, i)) \in Nat /\ Cardinality(UnderWay(b, i)) \in Nat
          /\ Cardinality(Placing(b, i)) <= Cardinality(UnderWay(b, i))
      BY UnderWayFinite
    <3>3. /\ IsFiniteSet(Placing(b, i) \ {c})
          /\ Cardinality(Placing(b, i) \ {c}) = Cardinality(Placing(b, i)) - 1
      BY <3>1, <3>2, FS_RemoveElement
    <3>4. /\ Cardinality(Placing(b, i)') <= Cardinality(Placing(b, i)) - 1
          /\ Cardinality(Placing(b, i)') \in Nat
      BY <2>2, <3>3, FS_Subset, FS_CardinalityType
    <3>5. /\ Cardinality(UnderWay(b, i)') <= Cardinality(UnderWay(b, i))
          /\ Cardinality(UnderWay(b, i)') \in Nat
      BY <2>1, <3>2, FS_Subset, FS_CardinalityType
    <3>6. /\ OnceAt(b, i) /\ atOnce' = atOnce /\ atOnce[b][i] \in Nat
          /\ OnBook(c) = demoBook[b][i] /\ demoBook'[b][i] = row
      BY <1>1, <1>2, <1>10, <2>4 DEF DemoInv, BooksOnce, DemoTypeOK
    <3>7. Cardinality(UnderWay(b, i)') <= atOnce'[b][i]
      BY <3>2, <3>5, <3>6 DEF OnceAt
    <3>8. OrdersTaken(row) + Cardinality(Placing(b, i)') <= atOnce[b][i]
      <4>1. CASE OrdersTaken(OnBook(c)) = 0
        BY <1>4, <3>2, <3>4, <3>6, <4>1 DEF OnceAt
      <4>2. CASE OrdersTaken(OnBook(c)) >= 1
        BY <1>4, <3>2, <3>4, <3>6, <4>2 DEF OnceAt
      <4> QED BY <1>4, <4>1, <4>2
    <3> QED BY <3>6, <3>7, <3>8 DEF OnceAt
  <2> QED BY <2>3, <2>4
<1> QED BY <1>10, <1>11, <1>13, <1>14 DEF DemoInv, BooksOnce

LEMMA DemoOrderEndsKeeps ==
    ASSUME DemoInv, NEW a \in DemoAccounts, NEW id \in ClientIds, DemoOrderEnds(a, id)
    PROVE  DemoInv'
<1> DEFINE row == [open |-> FALSE, done |-> demoBook[a][id].done + 1]
<1>1. demoBook[a][id].open /\ demoBook[a][id] \in DemoRows /\ UNCHANGED <<keyVars, demoCall, atOnce>>
  BY DEF DemoOrderEnds, DemoInv, DemoTypeOK
<1>2. demoBook' = [demoBook EXCEPT ![a][id] = row]
  BY DEF DemoOrderEnds, DemoInv, DemoTypeOK
<1>3. /\ row \in DemoRows /\ OrdersTaken(row) = OrdersTaken(demoBook[a][id])
      /\ OrdersTaken(row) \in Nat /\ row.done >= demoBook[a][id].done
  BY <1>1 DEF DemoRows, OrdersTaken
<1> HIDE DEF row
<1>4. OrdersTaken(row) >= OrdersTaken(demoBook[a][id])
  BY <1>3
<1>5. /\ demoBook' \in [DemoAccounts -> [ClientIds -> DemoRows]]
      /\ LiveKeysValidated' /\ RequestsHaveKeys' /\ demoBook'[a][id] = row
      /\ \A b \in DemoAccounts, i \in ClientIds :
             /\ <<b, i>> # <<a, id>> => demoBook'[b][i] = demoBook[b][i]
             /\ OrdersTaken(demoBook'[b][i]) >= OrdersTaken(demoBook[b][i])
             /\ demoBook'[b][i].done >= demoBook[b][i].done
  BY <1>1, <1>2, <1>3, <1>4, BookRowKeeps
<1>6. DemoTypeOK'
  BY <1>1, <1>5 DEF DemoInv, DemoTypeOK, KeysTypeOK, keyVars
<1>7. \A d \in PlaceCalls : AccountOf(d)' = AccountOf(d) /\ OnBybit(d)' = OnBybit(d)
  BY <1>1 DEF AccountOf, OnBybit
<1>8. \A b \in DemoAccounts, i \in ClientIds : OrdersTaken(demoBook'[b][i]) = OrdersTaken(demoBook[b][i])
  BY <1>3, <1>5
<1>9. CallsLooked'
  <2> SUFFICES ASSUME NEW d \in PlaceCalls PROVE LookedOK(d)'
    BY DEF CallsLooked
  <2>1. LookedOK(d)
    BY DemoCallOf
  <2>2. ASSUME demoCall[d].key \in ApiKeys, demoCall[d].id \in ClientIds
        PROVE  OrdersTaken(OnBook(d)') = OrdersTaken(OnBook(d))
    <3>1. AccountOf(d) \in DemoAccounts
      BY <2>2, KeysOfAccounts DEF DemoInv
    <3> QED BY <1>1, <1>7, <1>8, <2>2, <3>1 DEF OnBook
  <2> QED BY <1>1, <1>7, <2>1, <2>2 DEF LookedOK
<1>10. ASSUME NEW b \in DemoAccounts, NEW i \in ClientIds
       PROVE  OnceAt(b, i)'
  <2>1. UnderWay(b, i)' = UnderWay(b, i)
    BY <1>1, <1>7 DEF UnderWay
  <2>2. Placing(b, i)' \subseteq Placing(b, i)
    <3>1. ASSUME NEW d \in Placing(b, i)'
          PROVE  d \in Placing(b, i)
      <4>1. d \in PlaceCalls /\ d \in UnderWay(b, i) /\ MayPlace(d)'
        BY <2>1, <3>1 DEF Placing, UnderWay
      <4>2. OnBook(d) = demoBook[b][i] /\ OnBook(d)' = demoBook'[b][i]
        BY <1>1, <1>7, <4>1 DEF OnBook, UnderWay
      <4>3. OnBook(d)'.done = 0 => OnBook(d).done = 0
        <5>1. demoBook[b][i].done \in Nat /\ demoBook'[b][i].done \in Nat
          BY <1>5 DEF DemoInv, DemoTypeOK, DemoRows
        <5> QED BY <1>5, <4>2, <5>1
      <4>4. MayPlace(d)
        BY <1>1, <4>1, <4>3 DEF MayPlace
      <4> QED BY <4>1, <4>4 DEF Placing
    <3> QED BY <3>1
  <2>3. atOnce' = atOnce /\ atOnce[b][i] \in Nat
    BY <1>1 DEF DemoInv, DemoTypeOK
  <2> QED BY <1>6, <1>8, <2>1, <2>2, <2>3, OnceShrinks
<1> QED BY <1>5, <1>6, <1>9, <1>10 DEF DemoInv, BooksOnce

LEMMA DemoInvNext == DemoInv /\ [DemoNext]_demoVars => DemoInv'
<1> SUFFICES ASSUME DemoInv, [DemoNext]_demoVars PROVE DemoInv'
  OBVIOUS
<1>1. CASE UNCHANGED demoVars
  BY <1>1 DEF demoVars, DemoInv, DemoTypeOK, KeysTypeOK, LiveKeysValidated, RequestsHaveKeys,
              CallsLooked, LookedOK, BooksOnce, OnceAt, UnderWay, Placing, MayPlace, OnBook, OnBybit,
              AccountOf
<1>2. ASSUME NEW q \in KeyRequests, KeyStep(q), UNCHANGED <<demoBook, demoCall, atOnce>>
      PROVE  DemoInv'
  BY <1>2, KeyStepKeeps
<1>3. ASSUME NEW c \in PlaceCalls, NEW id \in ClientIds, NEW exchange \in DemoExchanges,
             StartDemoOrder(c, id, exchange)
      PROVE  DemoInv'
  BY <1>3, StartDemoOrderKeeps
<1>4. ASSUME NEW c \in PlaceCalls, TestConnection(c)
      PROVE  DemoInv'
  BY <1>4, GoKeeps, AnswerKeeps DEF TestConnection, CallPlaces
<1>5. ASSUME NEW c \in PlaceCalls, ReadBack(c)
      PROVE  DemoInv'
  <2>1. demoCall[c].at = "readback" /\ OrdersTaken(OnBook(c)) >= 1 /\ UNCHANGED <<keyVars, demoBook, atOnce>>
    BY <1>5, DemoCallOf DEF ReadBack, LookedOK
  <2> QED BY <1>5, <2>1, GoKeeps, AnswerKeeps DEF ReadBack, CallPlaces
<1>6. ASSUME NEW c \in PlaceCalls, AttemptFails(c)
      PROVE  DemoInv'
  BY <1>6, GoKeeps, AnswerKeeps DEF AttemptFails, CallPlaces
<1> QED BY <1>1, <1>2, <1>3, <1>4, <1>5, <1>6, LookForOrderKeeps, PlaceDemoOrderKeeps,
           RetryDemoOrderKeeps, DemoOrderEndsKeeps DEF DemoNext

\* For every set of keys and ids and any number of requests, attempts and calls: an account
\* has at most as many orders with an id as calls about it were under way at once, a call
\* that names an order saw it there, and the LIVE key may not withdraw
\* (DemoExchangeExecutionService, ExchangeAccountManagementService).
THEOREM ExchangeAccess == DemoSpec => []ExchangeAccessSound
<1>1. DemoInv => ExchangeAccessSound
  <2> SUFFICES ASSUME DemoInv PROVE ExchangeAccessSound
    OBVIOUS
  <2>1. ASSUME NEW a \in DemoAccounts, NEW id \in ClientIds
        PROVE  OrdersTaken(demoBook[a][id]) <= atOnce[a][id]
    <3>1. OnceAt(a, id) /\ demoBook[a][id] \in DemoRows /\ atOnce[a][id] \in Nat
      BY DEF DemoInv, BooksOnce, DemoTypeOK
    <3>2. OrdersTaken(demoBook[a][id]) \in Nat
      BY <3>1, AcceptedOf
    <3>3. Cardinality(Placing(a, id)) \in Nat
      BY UnderWayFinite
    <3> QED BY <3>1, <3>2, <3>3 DEF OnceAt
  <2>2. ASSUME NEW c \in PlaceCalls, demoCall[c].answer \in {"placed", "recovered"}
        PROVE  OrdersTaken(OnBook(c)) >= 1
    BY <2>2, DemoCallOf DEF LookedOK
  <2> QED BY <2>1, <2>2 DEF DemoInv, LiveKeysValidated, ExchangeAccessSound,
          DemoOrderPlacedOnce, LiveKeyCannotWithdraw
<1> QED BY <1>1, DemoInvInit, DemoInvNext, PTL DEF DemoSpec

-----------------------------------------------------------------------------
(* Telegram: a token connects at most once, whatever Telegram delivers again *)
(* and whichever call restarts, and a chat belongs to one account.           *)

Claimed(h) == update[h].pc \in {"check", "connect"}

\* A call that has claimed a token is the only one that ever did, and has not
\* connected yet.
ClaimsAreExclusive ==
    /\ \A h \in Updates : update[h].pc # "idle" => update[h].token \in 1..Len(token) /\ update[h].chat \in Chats
    /\ \A h \in Updates : Claimed(h) => token[update[h].token].used /\ connects[update[h].token] = 0
    /\ \A g, h \in Updates : g # h /\ Claimed(g) /\ Claimed(h) => update[g].token # update[h].token
    /\ \A t \in 1..Len(token) : connects[t] <= 1 /\ (connects[t] # 0 => token[t].used)

\* A request that is about to write knows its user, and enables a channel only
\* with the chat it has read.
RequestsRead ==
    \A r \in LinkRequests : linkRequest[r].pc # "idle" =>
        /\ linkRequest[r].user \in Users
        /\ linkRequest[r].enable => linkRequest[r].view.chat # NoChat

ChatsAreOwned ==
    /\ \A u, v \in Users : u # v /\ preference[u].chat # NoChat => preference[u].chat # preference[v].chat
    /\ \A u \in Users : preference[u].enabled => preference[u].chat # NoChat

LinkInv == LinkTypeOK /\ ClaimsAreExclusive /\ RequestsRead /\ ChatsAreOwned

LEMMA LinkInvInit == LinkInit => LinkInv
<1> SUFFICES ASSUME LinkInit PROVE LinkInv
  OBVIOUS
<1>1. token = <<>> /\ connects = <<>>
  BY DEF LinkInit
<1>2. LinkTypeOK
  BY DEF LinkInit, LinkTypeOK, NoPreference, IdleUpdate, IdleLinkRequest, PreferenceRows, UpdateStates,
         RequestStates
<1>3. ClaimsAreExclusive
  BY DEF LinkInit, ClaimsAreExclusive, Claimed, IdleUpdate
<1>4. RequestsRead /\ ChatsAreOwned
  BY DEF LinkInit, RequestsRead, ChatsAreOwned, NoPreference, IdleLinkRequest
<1> QED BY <1>2, <1>3, <1>4 DEF LinkInv

\* A call of the webhook reads its message or stops: nothing else changes.
LEMMA UpdateMoves ==
    ASSUME LinkInv, NEW h \in Updates, UNCHANGED <<preference, token, connects, linkRequest, linkRequests>>,
           update' = [update EXCEPT ![h] = update'[h]], update'[h] \in UpdateStates,
           update'[h].pc # "idle" => update'[h].token \in 1..Len(token) /\ update'[h].chat \in Chats,
           update'[h].pc \in {"check", "connect"} => Claimed(h) /\ update'[h].token = update[h].token
    PROVE  LinkInv'
<1>1. \A g \in Updates : g # h => update'[g] = update[g]
  BY DEF LinkInv, LinkTypeOK
<1>2. LinkTypeOK'
  BY DEF LinkInv, LinkTypeOK
<1>3. ClaimsAreExclusive'
  BY <1>1 DEF LinkInv, ClaimsAreExclusive, Claimed
<1>4. RequestsRead' /\ ChatsAreOwned'
  BY DEF LinkInv, RequestsRead, ChatsAreOwned
<1> QED BY <1>2, <1>3, <1>4 DEF LinkInv

\* Tokens that are used or expire stay in their places.
LEMMA TokensAge ==
    ASSUME LinkInv, UNCHANGED <<connects, update>>, token' \in Seq(TokenRows), Len(token') = Len(token),
           \A t \in 1..Len(token) : token[t].used => token'[t].used
    PROVE  ClaimsAreExclusive'
<1>1. \A h \in Updates : Claimed(h) => update[h].token \in 1..Len(token)
  BY DEF LinkInv, ClaimsAreExclusive, Claimed
<1> QED BY <1>1 DEF LinkInv, ClaimsAreExclusive, Claimed

LEMMA RetireTokensAges ==
    ASSUME LinkInv, NEW u, RetireTokens(u)
    PROVE  /\ token' \in Seq(TokenRows) /\ Len(token') = Len(token)
           /\ \A t \in 1..Len(token) : token[t].used => token'[t].used
<1>1. token \in Seq(TokenRows) /\ DOMAIN token = 1..Len(token) /\ Len(token) \in Nat
  BY DEF LinkInv, LinkTypeOK
<1>2. token' = [t \in 1..Len(token) |-> [token[t] EXCEPT !.used = @ \/ token[t].user = u]]
  BY <1>1 DEF RetireTokens
<1>3. \A t \in 1..Len(token) : token'[t] = [token[t] EXCEPT !.used = token[t].used \/ token[t].user = u]
  BY <1>2
<1>4. \A t \in 1..Len(token) : token[t] \in TokenRows
  BY <1>1
<1>5. \A t \in 1..Len(token) : token'[t] \in TokenRows
  BY <1>3, <1>4 DEF TokenRows
<1>6. \A t \in 1..Len(token) : token[t].used => token'[t].used
  BY <1>3, <1>4 DEF TokenRows
<1>7. token' \in Seq(TokenRows) /\ Len(token') = Len(token)
  BY <1>1, <1>2, <1>5
<1> QED BY <1>6, <1>7

\* The rows of requests.
LEMMA RequestMoves ==
    ASSUME LinkInv, NEW r \in LinkRequests,
           linkRequest' = [linkRequest EXCEPT ![r] = linkRequest'[r]], linkRequest'[r] \in RequestStates,
           linkRequest'[r].pc # "idle" =>
               linkRequest'[r].user \in Users /\ (linkRequest'[r].enable => linkRequest'[r].view.chat # NoChat)
    PROVE  linkRequest' \in [LinkRequests -> RequestStates] /\ RequestsRead'
<1>1. \A q \in LinkRequests : q # r => linkRequest'[q] = linkRequest[q]
  BY DEF LinkInv, LinkTypeOK
<1> QED BY <1>1 DEF LinkInv, LinkTypeOK, RequestsRead

LEMMA StartLinkRequestMoves ==
    ASSUME LinkInv, NEW r \in LinkRequests, NEW u \in Users, NEW pc \in {"create", "retire", "write"},
           NEW view \in PreferenceRows, NEW enable \in BOOLEAN, StartLinkRequest(r, u, pc, view, enable),
           enable => view.chat # NoChat
    PROVE  /\ linkRequest' \in [LinkRequests -> RequestStates] /\ RequestsRead'
           /\ linkRequests' \in Nat
<1>1. linkRequest'[r] = [pc |-> pc, user |-> u, view |-> view, enable |-> enable]
  BY DEF StartLinkRequest, LinkInv, LinkTypeOK
<1>2. linkRequest' = [linkRequest EXCEPT ![r] = linkRequest'[r]]
  BY <1>1 DEF StartLinkRequest
<1>3. /\ linkRequest'[r] \in RequestStates /\ linkRequest'[r].user \in Users
      /\ linkRequest'[r].enable => linkRequest'[r].view.chat # NoChat
  BY <1>1 DEF RequestStates
<1>4. linkRequests' \in Nat
  BY DEF StartLinkRequest, LinkInv, LinkTypeOK
<1> QED BY <1>2, <1>3, <1>4, RequestMoves

LEMMA EndLinkRequestMoves ==
    ASSUME LinkInv, NEW r \in LinkRequests,
           linkRequest' = [linkRequest EXCEPT ![r] = IdleLinkRequest]
    PROVE  linkRequest' \in [LinkRequests -> RequestStates] /\ RequestsRead'
<1>1. linkRequest'[r] = IdleLinkRequest
  BY DEF LinkInv, LinkTypeOK
<1>2. IdleLinkRequest \in RequestStates /\ IdleLinkRequest.pc = "idle"
  BY DEF IdleLinkRequest, RequestStates, NoPreference, PreferenceRows
<1> QED BY <1>1, <1>2, RequestMoves

\* A preference is written with a chat that is free, and enabled only with a chat.
LEMMA PreferenceWritten ==
    ASSUME LinkInv, NEW u \in Users, NEW row \in PreferenceRows, ChatFree(u, row.chat),
           row.enabled => row.chat # NoChat, preference' = [preference EXCEPT ![u] = row]
    PROVE  preference' \in [Users -> PreferenceRows] /\ ChatsAreOwned'
<1>1. preference'[u] = row /\ \A v \in Users : v # u => preference'[v] = preference[v]
  BY DEF LinkInv, LinkTypeOK
<1>2. preference' \in [Users -> PreferenceRows]
  BY DEF LinkInv, LinkTypeOK
<1>3. ChatsAreOwned'
  BY <1>1 DEF LinkInv, ChatsAreOwned, ChatFree
<1> QED BY <1>2, <1>3

-----------------------------------------------------------------------------
(* One lemma for each step of the webhook and of the requests. *)

LEMMA ReceiveStartKeeps ==
    ASSUME LinkInv, NEW h \in Updates, NEW t \in DOMAIN token, NEW c \in Chats, ReceiveStart(h, t, c)
    PROVE  LinkInv'
<1>1. t \in 1..Len(token) /\ t \in Nat
  BY DEF LinkInv, LinkTypeOK
<1> DEFINE pc == IF Live(t) THEN "claim" ELSE "idle"
<1>2. pc \in {"claim", "idle"}
  OBVIOUS
<1>3. /\ update'[h] = [pc |-> pc, token |-> t, chat |-> c]
      /\ UNCHANGED <<preference, token, connects, linkRequest, linkRequests>>
  BY DEF ReceiveStart, LinkInv, LinkTypeOK
<1>4. update' = [update EXCEPT ![h] = update'[h]]
  BY <1>3 DEF ReceiveStart
<1> HIDE DEF pc
<1>5. /\ update'[h] \in UpdateStates /\ update'[h].token \in 1..Len(token) /\ update'[h].chat \in Chats
      /\ update'[h].pc \notin {"check", "connect"}
  BY <1>1, <1>2, <1>3 DEF UpdateStates
<1> QED BY <1>3, <1>4, <1>5, UpdateMoves

LEMMA UpdateIdles ==
    ASSUME LinkInv, NEW h \in Updates, update' = [update EXCEPT ![h] = IdleUpdate],
           UNCHANGED <<preference, token, connects, linkRequest, linkRequests>>
    PROVE  LinkInv'
<1>1. update'[h] = IdleUpdate
  BY DEF LinkInv, LinkTypeOK
<1>2. update'[h] \in UpdateStates /\ update'[h].pc = "idle"
  BY <1>1 DEF IdleUpdate, UpdateStates
<1> QED BY <1>1, <1>2, UpdateMoves

LEMMA ClaimTokenKeeps ==
    ASSUME LinkInv, NEW h \in Updates, ClaimToken(h)
    PROVE  LinkInv'
<1> DEFINE t == update[h].token
<1>1. /\ t \in 1..Len(token) /\ update[h].chat \in Chats /\ update[h].pc = "claim"
      /\ update[h] \in UpdateStates /\ token[t] \in TokenRows
      /\ UNCHANGED <<preference, connects, linkRequest, linkRequests>>
  BY DEF ClaimToken, LinkInv, LinkTypeOK, ClaimsAreExclusive
<1>2. CASE ~Live(t)
  <2>1. token[t] = [token[t] EXCEPT !.used = token[t].used \/ Live(t)]
    BY <1>1, <1>2 DEF TokenRows
  <2>2. token' = [token EXCEPT ![t] = token[t]]
    BY <2>1 DEF ClaimToken, LinkInv, LinkTypeOK
  <2>3. token' = token
    BY <1>1, <2>2 DEF LinkInv, LinkTypeOK
  <2> QED BY <1>1, <1>2, <2>3, UpdateIdles DEF ClaimToken
<1>3. CASE Live(t)
  <2>1. update'[h] = [update[h] EXCEPT !.pc = "check"]
    BY <1>3 DEF ClaimToken, LinkInv, LinkTypeOK
  <2>2. /\ update'[h] \in UpdateStates /\ update'[h].pc = "check" /\ update'[h].token = t
        /\ update'[h].chat \in Chats
    BY <1>1, <2>1 DEF UpdateStates
  <2>3. \A g \in Updates : g # h => update'[g] = update[g]
    BY DEF ClaimToken, LinkInv, LinkTypeOK
  <2>4. update' \in [Updates -> UpdateStates]
    BY <2>2 DEF ClaimToken, LinkInv, LinkTypeOK
  <2>5. token' = [token EXCEPT ![t] = [token[t] EXCEPT !.used = TRUE]]
    BY <1>3 DEF ClaimToken, LinkInv, LinkTypeOK
  <2>6. [token[t] EXCEPT !.used = TRUE] \in TokenRows
    BY <1>1 DEF TokenRows
  <2>7. token' \in Seq(TokenRows) /\ Len(token') = Len(token)
    BY <1>1, <2>5, <2>6 DEF LinkInv, LinkTypeOK
  <2>8. token'[t].used /\ \A s \in 1..Len(token) : s # t => token'[s] = token[s]
    BY <1>1, <2>5 DEF LinkInv, LinkTypeOK, TokenRows
  <2>9. ~token[t].used
    BY <1>3 DEF Live
  <2>10. connects[t] = 0 /\ \A g \in Updates : Claimed(g) => update[g].token # t
    BY <1>1, <2>9 DEF LinkInv, ClaimsAreExclusive
  <2>11. LinkTypeOK'
    BY <1>1, <2>4, <2>7 DEF LinkInv, LinkTypeOK
  <2>12. ClaimsAreExclusive'
    <3>1. \A g \in Updates : update'[g].pc # "idle" =>
              update'[g].token \in 1..Len(token') /\ update'[g].chat \in Chats
      BY <1>1, <2>2, <2>3, <2>7 DEF LinkInv, ClaimsAreExclusive
    <3>2. \A g \in Updates : Claimed(g)' =>
              token'[update'[g].token].used /\ connects'[update'[g].token] = 0
      BY <1>1, <2>2, <2>3, <2>8, <2>10, <3>1, <2>7 DEF LinkInv, ClaimsAreExclusive, Claimed
    <3>3. \A g, i \in Updates : g # i /\ Claimed(g)' /\ Claimed(i)' => update'[g].token # update'[i].token
      BY <2>2, <2>3, <2>10 DEF LinkInv, ClaimsAreExclusive, Claimed
    <3>4. \A s \in 1..Len(token') : connects'[s] <= 1 /\ (connects'[s] # 0 => token'[s].used)
      BY <1>1, <2>7, <2>8, <2>10 DEF LinkInv, ClaimsAreExclusive
    <3> QED BY <3>1, <3>2, <3>3, <3>4 DEF ClaimsAreExclusive
  <2>13. RequestsRead' /\ ChatsAreOwned'
    BY <1>1 DEF LinkInv, RequestsRead, ChatsAreOwned
  <2> QED BY <2>11, <2>12, <2>13 DEF LinkInv
<1> QED BY <1>2, <1>3

LEMMA CheckOtherAccountKeeps ==
    ASSUME LinkInv, NEW h \in Updates, CheckOtherAccount(h)
    PROVE  LinkInv'
<1>1. /\ update[h].pc = "check" /\ update[h] \in UpdateStates
      /\ update[h].token \in 1..Len(token) /\ update[h].chat \in Chats
      /\ UNCHANGED <<preference, token, connects, linkRequest, linkRequests>>
  BY DEF CheckOtherAccount, LinkInv, LinkTypeOK, ClaimsAreExclusive
<1>2. CASE ~ChatFree(token[update[h].token].user, update[h].chat)
  BY <1>1, <1>2, UpdateIdles DEF CheckOtherAccount
<1>3. CASE ChatFree(token[update[h].token].user, update[h].chat)
  <2>1. update'[h] = [update[h] EXCEPT !.pc = "connect"]
    BY <1>3 DEF CheckOtherAccount, LinkInv, LinkTypeOK
  <2>2. /\ update'[h] \in UpdateStates /\ update'[h].pc = "connect"
        /\ update'[h].token = update[h].token /\ update'[h].chat = update[h].chat
    BY <1>1, <2>1 DEF UpdateStates
  <2>3. update' = [update EXCEPT ![h] = update'[h]]
    BY <1>3, <2>1 DEF CheckOtherAccount
  <2> QED BY <1>1, <2>2, <2>3, UpdateMoves DEF Claimed
<1> QED BY <1>2, <1>3

LEMMA ConnectChatKeeps ==
    ASSUME LinkInv, NEW h \in Updates, ConnectChat(h)
    PROVE  LinkInv'
<1> DEFINE t == update[h].token
           u == token[t].user
           c == update[h].chat
<1>1. /\ t \in 1..Len(token) /\ c \in Chats /\ c # NoChat /\ u \in Users /\ Claimed(h)
      /\ token[t].used /\ connects[t] = 0
      /\ update' = [update EXCEPT ![h] = IdleUpdate] /\ UNCHANGED <<token, linkRequest, linkRequests>>
  <2>1. /\ update[h].pc = "connect" /\ Claimed(h)
        /\ update' = [update EXCEPT ![h] = IdleUpdate] /\ UNCHANGED <<token, linkRequest, linkRequests>>
    BY DEF ConnectChat, Claimed
  <2>2. t \in 1..Len(token) /\ c \in Chats /\ token[t].used /\ connects[t] = 0
    BY <2>1 DEF LinkInv, ClaimsAreExclusive
  <2>3. token[t] \in TokenRows
    BY <2>2 DEF LinkInv, LinkTypeOK
  <2> QED BY <2>1, <2>2, <2>3, LinkAssumption DEF TokenRows
<1>2. CASE ~ChatFree(u, c)
  BY <1>1, <1>2, UpdateIdles DEF ConnectChat
<1>3. CASE ChatFree(u, c)
  <2>1. /\ preference' = [preference EXCEPT ![u] = [chat |-> c, enabled |-> TRUE]]
        /\ connects' = [connects EXCEPT ![t] = connects[t] + 1]
    BY <1>3 DEF ConnectChat, LinkInv, LinkTypeOK
  <2>2. /\ connects' \in Seq(Nat) /\ Len(connects') = Len(token) /\ connects'[t] = 1
        /\ \A s \in 1..Len(token) : s # t => connects'[s] = connects[s]
    BY <1>1, <2>1 DEF LinkInv, LinkTypeOK
  <2>3. preference' \in [Users -> PreferenceRows] /\ ChatsAreOwned'
    <3> DEFINE row == [chat |-> c, enabled |-> TRUE]
    <3>1. row \in PreferenceRows /\ row.chat = c
      BY <1>1 DEF PreferenceRows
    <3>2. preference' = [preference EXCEPT ![u] = row]
      BY <2>1
    <3> HIDE DEF row, u, c, t
    <3> QED BY <1>1, <1>3, <3>1, <3>2, PreferenceWritten
  <2>4. /\ update' \in [Updates -> UpdateStates] /\ update'[h].pc = "idle"
        /\ \A g \in Updates : g # h => update'[g] = update[g]
    BY <1>1 DEF IdleUpdate, UpdateStates, LinkInv, LinkTypeOK
  <2>5. LinkTypeOK'
    BY <1>1, <2>2, <2>3, <2>4 DEF LinkInv, LinkTypeOK
  <2>6. ClaimsAreExclusive'
    <3>1. \A g \in Updates : g # h /\ Claimed(g) => update[g].token # t
      BY <1>1 DEF LinkInv, ClaimsAreExclusive
    <3>2. \A g \in Updates : Claimed(g) => update[g].token \in 1..Len(token)
      BY DEF LinkInv, ClaimsAreExclusive, Claimed
    <3> HIDE DEF t, u, c
    <3>3. \A g \in Updates : Claimed(g)' =>
              /\ g # h /\ Claimed(g)
              /\ token'[update'[g].token].used /\ connects'[update'[g].token] = 0
      BY <1>1, <2>2, <2>4, <3>1, <3>2 DEF LinkInv, ClaimsAreExclusive, Claimed
    <3>4. \A s \in 1..Len(token') : connects'[s] <= 1 /\ (connects'[s] # 0 => token'[s].used)
      BY <1>1, <2>2 DEF LinkInv, ClaimsAreExclusive, t
    <3> QED BY <1>1, <2>4, <3>3, <3>4 DEF LinkInv, ClaimsAreExclusive, Claimed
  <2>7. RequestsRead'
    BY <1>1 DEF LinkInv, RequestsRead
  <2> QED BY <2>3, <2>5, <2>6, <2>7 DEF LinkInv
<1> QED BY <1>2, <1>3

LEMMA ExpireTokenKeeps ==
    ASSUME LinkInv, NEW t \in DOMAIN token, ExpireToken(t)
    PROVE  LinkInv'
<1>1. t \in 1..Len(token) /\ token[t] \in TokenRows
      /\ UNCHANGED <<preference, connects, update, linkRequest, linkRequests>>
  BY DEF ExpireToken, LinkInv, LinkTypeOK
<1>2. token' = [token EXCEPT ![t] = [token[t] EXCEPT !.expired = TRUE]]
  BY DEF ExpireToken, LinkInv, LinkTypeOK
<1>3. [token[t] EXCEPT !.expired = TRUE] \in TokenRows
  BY <1>1 DEF TokenRows
<1>4. [token[t] EXCEPT !.expired = TRUE].used = token[t].used
  BY <1>1 DEF TokenRows
<1>5. token' \in Seq(TokenRows) /\ Len(token') = Len(token)
  BY <1>1, <1>2, <1>3 DEF LinkInv, LinkTypeOK
<1>6. \A s \in 1..Len(token) : token[s].used => token'[s].used
  BY <1>1, <1>2, <1>4 DEF LinkInv, LinkTypeOK
<1>7. ClaimsAreExclusive'
  BY <1>1, <1>5, <1>6, TokensAge
<1> QED BY <1>1, <1>5, <1>7 DEF LinkInv, LinkTypeOK, RequestsRead, ChatsAreOwned

LEMMA RequestLinkKeeps ==
    ASSUME LinkInv, NEW r \in LinkRequests, NEW u \in Users, RequestLink(r, u)
    PROVE  LinkInv'
<1>1. NoPreference \in PreferenceRows
  BY DEF NoPreference, PreferenceRows
<1>2. linkRequest' \in [LinkRequests -> RequestStates] /\ RequestsRead' /\ linkRequests' \in Nat
  BY <1>1, StartLinkRequestMoves DEF RequestLink
<1>3. /\ token' \in Seq(TokenRows) /\ Len(token') = Len(token)
      /\ \A t \in 1..Len(token) : token[t].used => token'[t].used
  BY RetireTokensAges DEF RequestLink
<1>4. UNCHANGED <<preference, connects, update>>
  BY DEF RequestLink
<1>5. ClaimsAreExclusive'
  BY <1>3, <1>4, TokensAge
<1> QED BY <1>2, <1>3, <1>4, <1>5 DEF LinkInv, LinkTypeOK, ChatsAreOwned

LEMMA CreateTokenKeeps ==
    ASSUME LinkInv, NEW r \in LinkRequests, CreateToken(r)
    PROVE  LinkInv'
<1>1. linkRequest' \in [LinkRequests -> RequestStates] /\ RequestsRead'
  BY EndLinkRequestMoves DEF CreateToken
<1> DEFINE made == [user |-> linkRequest[r].user, used |-> FALSE, expired |-> FALSE]
<1>2. made \in TokenRows
  BY DEF CreateToken, LinkInv, RequestsRead, TokenRows
<1>3. /\ token' = Append(token, made) /\ connects' = Append(connects, 0)
      /\ UNCHANGED <<preference, update, linkRequests>>
  BY DEF CreateToken
<1> HIDE DEF made
<1>4. /\ token' \in Seq(TokenRows) /\ connects' \in Seq(Nat)
      /\ Len(token') = Len(token) + 1 /\ Len(connects') = Len(token) + 1
      /\ \A t \in 1..Len(token) : token'[t] = token[t] /\ connects'[t] = connects[t]
      /\ connects'[Len(token) + 1] = 0
  BY <1>2, <1>3 DEF LinkInv, LinkTypeOK
<1>5. ClaimsAreExclusive'
  <2>1. Len(token) \in Nat /\ \A t \in 1..Len(token') : t \in 1..Len(token) \/ t = Len(token) + 1
    BY <1>4 DEF LinkInv, LinkTypeOK
  <2>2. \A h \in Updates : update[h].pc # "idle" =>
            update[h].token \in 1..Len(token) /\ update[h].token \in 1..Len(token') /\ update[h].chat \in Chats
    BY <1>4, <2>1 DEF LinkInv, ClaimsAreExclusive
  <2>3. \A t \in 1..Len(token') : connects'[t] <= 1 /\ (connects'[t] # 0 => token'[t].used)
    BY <1>4, <2>1 DEF LinkInv, ClaimsAreExclusive
  <2> QED BY <1>3, <1>4, <2>2, <2>3 DEF LinkInv, ClaimsAreExclusive, Claimed
<1> QED BY <1>1, <1>3, <1>4, <1>5 DEF LinkInv, LinkTypeOK, ChatsAreOwned

LEMMA DisconnectKeeps ==
    ASSUME LinkInv, NEW r \in LinkRequests, NEW u \in Users, Disconnect(r, u)
    PROVE  LinkInv'
<1>1. NoPreference \in PreferenceRows /\ ChatFree(u, NoPreference.chat) /\ ~NoPreference.enabled
  BY DEF NoPreference, PreferenceRows, ChatFree
<1>2. linkRequest' \in [LinkRequests -> RequestStates] /\ RequestsRead' /\ linkRequests' \in Nat
  BY <1>1, StartLinkRequestMoves DEF Disconnect
<1>3. preference' \in [Users -> PreferenceRows] /\ ChatsAreOwned'
  BY <1>1, PreferenceWritten DEF Disconnect
<1>4. UNCHANGED <<token, connects, update>>
  BY DEF Disconnect
<1>5. ClaimsAreExclusive'
  BY <1>4 DEF LinkInv, ClaimsAreExclusive, Claimed
<1> QED BY <1>2, <1>3, <1>4, <1>5 DEF LinkInv, LinkTypeOK

LEMMA RetireAfterDisconnectKeeps ==
    ASSUME LinkInv, NEW r \in LinkRequests, RetireAfterDisconnect(r)
    PROVE  LinkInv'
<1>1. linkRequest' \in [LinkRequests -> RequestStates] /\ RequestsRead'
  BY EndLinkRequestMoves DEF RetireAfterDisconnect
<1>2. /\ token' \in Seq(TokenRows) /\ Len(token') = Len(token)
      /\ \A t \in 1..Len(token) : token[t].used => token'[t].used
  BY RetireTokensAges DEF RetireAfterDisconnect
<1>3. UNCHANGED <<preference, connects, update, linkRequests>>
  BY DEF RetireAfterDisconnect
<1>4. ClaimsAreExclusive'
  BY <1>2, <1>3, TokensAge
<1> QED BY <1>1, <1>2, <1>3, <1>4 DEF LinkInv, LinkTypeOK, ChatsAreOwned

LEMMA ReadSettingsKeeps ==
    ASSUME LinkInv, NEW r \in LinkRequests, NEW u \in Users, NEW enable \in BOOLEAN,
           ReadSettings(r, u, enable)
    PROVE  LinkInv'
<1>1. preference[u] \in PreferenceRows
  BY DEF LinkInv, LinkTypeOK
<1>2. linkRequest' \in [LinkRequests -> RequestStates] /\ RequestsRead' /\ linkRequests' \in Nat
  BY <1>1, StartLinkRequestMoves DEF ReadSettings
<1>3. UNCHANGED <<preference, token, connects, update>>
  BY DEF ReadSettings
<1> QED BY <1>2, <1>3 DEF LinkInv, LinkTypeOK, ClaimsAreExclusive, Claimed, ChatsAreOwned

LEMMA WriteSettingsKeeps ==
    ASSUME LinkInv, NEW r \in LinkRequests, WriteSettings(r)
    PROVE  LinkInv'
<1> DEFINE w == linkRequest[r]
           row == [chat |-> w.view.chat, enabled |-> w.enable]
<1>1. /\ w \in RequestStates /\ w.user \in Users /\ (w.enable => w.view.chat # NoChat)
      /\ UNCHANGED <<token, connects, update, linkRequests>>
  BY DEF WriteSettings, LinkInv, LinkTypeOK, RequestsRead
<1>2. linkRequest' \in [LinkRequests -> RequestStates] /\ RequestsRead'
  BY EndLinkRequestMoves DEF WriteSettings
<1>3. preference' \in [Users -> PreferenceRows] /\ ChatsAreOwned'
  <2>1. row \in PreferenceRows /\ row.chat = w.view.chat /\ (row.enabled => row.chat # NoChat)
    BY <1>1 DEF RequestStates, PreferenceRows
  <2>2. CASE ChatFree(w.user, w.view.chat)
    <3>1. preference' = [preference EXCEPT ![w.user] = row]
      BY <2>2 DEF WriteSettings
    <3> HIDE DEF row
    <3> QED BY <1>1, <2>1, <2>2, <3>1, PreferenceWritten
  <2>3. CASE ~ChatFree(w.user, w.view.chat)
    <3>1. preference' = preference
      BY <1>1, <2>3 DEF WriteSettings, LinkInv, LinkTypeOK
    <3> QED BY <3>1 DEF LinkInv, LinkTypeOK, ChatsAreOwned
  <2> QED BY <2>2, <2>3
<1> QED BY <1>1, <1>2, <1>3 DEF LinkInv, LinkTypeOK, ClaimsAreExclusive, Claimed

LEMMA LinkInvNext == LinkInv /\ [LinkNext]_linkVars => LinkInv'
<1> SUFFICES ASSUME LinkInv, [LinkNext]_linkVars PROVE LinkInv'
  OBVIOUS
<1>1. CASE UNCHANGED linkVars
  BY <1>1 DEF linkVars, LinkInv, LinkTypeOK, ClaimsAreExclusive, Claimed, RequestsRead, ChatsAreOwned
<1>2. ASSUME NEW h \in Updates, LoseUpdate(h)
      PROVE  LinkInv'
  BY <1>2, UpdateIdles DEF LoseUpdate
<1> QED BY <1>1, <1>2, ReceiveStartKeeps, ClaimTokenKeeps, CheckOtherAccountKeeps, ConnectChatKeeps,
           ExpireTokenKeeps, RequestLinkKeeps, CreateTokenKeeps, DisconnectKeeps,
           RetireAfterDisconnectKeeps, ReadSettingsKeeps, WriteSettingsKeeps DEF LinkNext

\* For any number of users, chats, webhook calls and requests, and any sequence of
\* redeliveries and restarts: a token connects once, a chat has one account, and an
\* enabled channel has a chat (TelegramConnectionService).
THEOREM LinksSound == LinkSpec => []TelegramLinksSound
<1>1. LinkInv => TelegramLinksSound
  BY DEF LinkInv, LinkTypeOK, ClaimsAreExclusive, ChatsAreOwned, TelegramLinksSound
<1> QED BY <1>1, LinkInvInit, LinkInvNext, PTL DEF LinkSpec

-----------------------------------------------------------------------------
(* Quotes *)

\* A quote was true at most a timeout before it was stored, and a request is not
\* older than its timeout.
QuotesInv ==
    /\ QuotesTypeOK
    /\ quote.until <= quote.asOf + QuoteTtl + RequestTimeout
    /\ \A r \in QuoteReaders : quoteReader[r].pc = "asking" =>
           quoteReader[r].since <= clock /\ clock <= quoteReader[r].since + RequestTimeout
    /\ QuotesAreRecent

LEMMA QuotesInvInit == QuotesInit => QuotesInv
BY QuotesAssumption
DEF QuotesInit, QuotesInv, QuotesTypeOK, QuotesAreRecent, NotKept, Reading, QuoteReaderStates

\* What one reader's step does to the others: nothing.
LEMMA ReaderKeeps ==
    ASSUME QuotesInv, NEW r \in QuoteReaders, UNCHANGED clock,
           quoteReader' = [quoteReader EXCEPT ![r] = quoteReader'[r]],
           quoteReader'[r] \in QuoteReaderStates,
           quoteReader'[r].pc = "asking" =>
               quoteReader'[r].since <= clock /\ clock <= quoteReader'[r].since + RequestTimeout,
           quoteReader'[r].pc = "given" => quoteReader'[r].age <= QuoteTtl + RequestTimeout,
           quote' \in [asOf : Nat, until : Nat],
           quote'.until <= quote'.asOf + QuoteTtl + RequestTimeout
    PROVE  QuotesInv'
<1>1. \A q \in QuoteReaders : q # r => quoteReader'[q] = quoteReader[q]
  BY DEF QuotesInv, QuotesTypeOK
<1>2. QuotesTypeOK'
  BY DEF QuotesInv, QuotesTypeOK
<1>3. QuotesAreRecent'
  BY <1>1 DEF QuotesInv, QuotesAreRecent
<1> QED BY <1>1, <1>2, <1>3 DEF QuotesInv

LEMMA QuotesInvNext == QuotesInv /\ [QuotesNext]_quotesVars => QuotesInv'
<1> SUFFICES ASSUME QuotesInv, [QuotesNext]_quotesVars PROVE QuotesInv'
  OBVIOUS
<1>0. /\ clock \in Nat /\ quote \in [asOf : Nat, until : Nat]
      /\ quote.until <= quote.asOf + QuoteTtl + RequestTimeout
      /\ QuoteTtl \in Nat /\ RequestTimeout \in Nat
  BY QuotesAssumption DEF QuotesInv, QuotesTypeOK
<1>1. ASSUME NEW r \in QuoteReaders, ReadCached(r)
      PROVE  QuotesInv'
  <2>1. quoteReader'[r] = [pc |-> "given", age |-> clock - quote.asOf]
    BY <1>1 DEF ReadCached, QuoteGiven, QuotesInv, QuotesTypeOK
  <2>2. /\ quoteReader'[r] \in QuoteReaderStates /\ quoteReader'[r].pc = "given"
        /\ quoteReader'[r].age <= QuoteTtl + RequestTimeout
    BY <1>0, <1>1, <2>1 DEF ReadCached, QuoteFresh, QuoteReaderStates
  <2>3. quoteReader' = [quoteReader EXCEPT ![r] = quoteReader'[r]] /\ UNCHANGED <<clock, quote>>
    BY <1>1, <2>1 DEF ReadCached, QuoteGiven
  <2> QED BY <1>0, <2>2, <2>3, ReaderKeeps
<1>2. ASSUME NEW r \in QuoteReaders, NEW force \in BOOLEAN, AskQuote(r, force)
      PROVE  QuotesInv'
  <2>1. quoteReader'[r] = [pc |-> "asking", since |-> clock]
    BY <1>2 DEF AskQuote, QuotesInv, QuotesTypeOK
  <2>2. /\ quoteReader'[r] \in QuoteReaderStates /\ quoteReader'[r].pc = "asking"
        /\ quoteReader'[r].since = clock
    BY <1>0, <2>1 DEF QuoteReaderStates
  <2>3. quoteReader' = [quoteReader EXCEPT ![r] = quoteReader'[r]] /\ UNCHANGED <<clock, quote>>
    BY <1>2, <2>1 DEF AskQuote
  <2> QED BY <1>0, <2>2, <2>3, ReaderKeeps
<1>3. ASSUME NEW r \in QuoteReaders, QuoteArrives(r)
      PROVE  QuotesInv'
  <2>1. /\ quoteReader[r].pc = "asking" /\ quoteReader[r].since \in Nat
        /\ quoteReader[r].since <= clock /\ clock <= quoteReader[r].since + RequestTimeout
    BY <1>3 DEF QuoteArrives, QuotesInv, QuotesTypeOK, QuoteReaderStates
  <2>2. PICK asOf \in quoteReader[r].since..clock :
            /\ quote' = [asOf |-> asOf, until |-> clock + QuoteTtl]
            /\ quoteReader' = [quoteReader EXCEPT ![r] = QuoteGiven(asOf)]
    BY <1>3 DEF QuoteArrives
  <2>3. quoteReader'[r] = [pc |-> "given", age |-> clock - asOf]
    BY <2>2 DEF QuoteGiven, QuotesInv, QuotesTypeOK
  <2>4. /\ quoteReader'[r] \in QuoteReaderStates /\ quoteReader'[r].pc = "given"
        /\ quoteReader'[r].age <= QuoteTtl + RequestTimeout
    BY <1>0, <2>1, <2>3 DEF QuoteReaderStates
  <2>5. /\ quote' \in [asOf : Nat, until : Nat]
        /\ quote'.until <= quote'.asOf + QuoteTtl + RequestTimeout
    BY <1>0, <2>1, <2>2
  <2>6. quoteReader' = [quoteReader EXCEPT ![r] = quoteReader'[r]] /\ UNCHANGED clock
    BY <1>3, <2>2, <2>3 DEF QuoteArrives, QuoteGiven
  <2> QED BY <2>4, <2>5, <2>6, ReaderKeeps
<1>4. ASSUME NEW r \in QuoteReaders, QuoteFails(r)
      PROVE  QuotesInv'
  <2>1. quoteReader'[r] = [pc |-> "idle"]
    BY <1>4 DEF QuoteFails, Reading, QuotesInv, QuotesTypeOK
  <2>2. quoteReader'[r] \in QuoteReaderStates /\ quoteReader'[r].pc = "idle"
    BY <2>1 DEF QuoteReaderStates
  <2>3. quoteReader' = [quoteReader EXCEPT ![r] = quoteReader'[r]] /\ UNCHANGED <<clock, quote>>
    BY <1>4, <2>1 DEF QuoteFails, Reading
  <2> QED BY <1>0, <2>2, <2>3, ReaderKeeps
<1>5. CASE ClearCache
  BY <1>0, <1>5 DEF ClearCache, NotKept, QuotesInv, QuotesTypeOK, QuotesAreRecent
<1>6. CASE ClockTick
  <2>1. ASSUME NEW r \in QuoteReaders, quoteReader[r].pc = "asking"
        PROVE  /\ quoteReader[r].since <= clock + 1
               /\ clock + 1 <= quoteReader[r].since + RequestTimeout
    <3>1. quoteReader[r].since \in Nat
      BY <2>1 DEF QuotesInv, QuotesTypeOK, QuoteReaderStates
    <3> QED BY <1>0, <1>6, <2>1, <3>1 DEF ClockTick, Overdue, QuotesInv
  <2> QED BY <1>0, <1>6, <2>1 DEF ClockTick, QuotesInv, QuotesTypeOK, QuotesAreRecent
<1>7. CASE UNCHANGED quotesVars
  BY <1>7 DEF quotesVars, QuotesInv, QuotesTypeOK, QuotesAreRecent
<1> QED BY <1>1, <1>2, <1>3, <1>4, <1>5, <1>6, <1>7 DEF QuotesNext

\* For any number of readers, any TTL and any timeout: no reader gets a price older
\* than the two together (MarketDataService.getQuote).
THEOREM QuotesRecent == QuotesSpec => []QuotesAreRecent
<1>1. QuotesInv => QuotesAreRecent
  BY DEF QuotesInv
<1> QED BY <1>1, QuotesInvInit, QuotesInvNext, PTL DEF QuotesSpec

-----------------------------------------------------------------------------
(* The market list *)

\* A flight that has not failed is under way, or gave a snapshot that is younger than
\* the question.
AskedOnce ==
    asked.ago < TickersTtl /\ ~asked.failed => tickersInFlight # NoFlight \/ snapshot <= asked.ago

ListInv == ListTypeOK /\ OneFlightForAll /\ AskedOnce

LEMMA ListInvInit == ListInit => ListInv
<1> SUFFICES ASSUME ListInit PROVE ListInv
  OBVIOUS
<1>1. /\ snapshot \in 0..NoSnapshot /\ ~ListFresh
      /\ asked = [ago |-> TickersTtl, failed |-> FALSE, again |-> FALSE, hasty |-> FALSE]
      /\ TickersTtl \in Nat /\ MaxLate \in Nat
  BY ListAssumption DEF ListInit, NoSnapshot, ListFresh
<1>2. asked \in [ago : 0..TickersTtl, failed : BOOLEAN, again : BOOLEAN, hasty : BOOLEAN]
  BY <1>1
<1>3. tickersInFlight \in [Halves -> {"none", "asked", "here"}] /\ late \in [Halves -> 0..MaxLate]
  BY <1>1 DEF ListInit, NoFlight
<1>4. listReader \in [ListReaders -> {"idle", "waiting", "listed", "failed"}] /\ symbols \in BOOLEAN
  BY DEF ListInit
<1>5. ListTypeOK
  BY <1>1, <1>2, <1>3, <1>4 DEF ListTypeOK
<1>6. OneFlightForAll /\ AskedOnce
  BY <1>1 DEF ListInit, OneFlightForAll, AskedOnce
<1> QED BY <1>5, <1>6 DEF ListInv

\* The end of a flight leaves nobody who waits.
LEMMA LandsAll ==
    ASSUME ListTypeOK, NEW outcome \in {"listed", "failed"}, Lands(outcome)
    PROVE  /\ tickersInFlight' \in [Halves -> {"none", "asked", "here"}] /\ tickersInFlight' = NoFlight
           /\ listReader' \in [ListReaders -> {"idle", "waiting", "listed", "failed"}]
           /\ \A r \in ListReaders : listReader'[r] # "waiting"
<1>1. tickersInFlight' = NoFlight /\ NoFlight \in [Halves -> {"none", "asked", "here"}]
  BY DEF Lands, NoFlight
<1>2. \A r \in ListReaders : /\ listReader'[r] \in {"idle", "waiting", "listed", "failed"}
                            /\ listReader'[r] # "waiting"
  BY DEF Lands, ListTypeOK
<1>3. listReader' \in [ListReaders -> {"idle", "waiting", "listed", "failed"}]
  BY <1>2 DEF Lands
<1> QED BY <1>1, <1>2, <1>3

\* A reader who is served at once, or asks again later.
LEMMA ListReaderKeeps ==
    ASSUME ListInv, NEW r \in ListReaders, ReadTickers(r) \/ AsksAgain(r)
    PROVE  ListInv'
<1>1. /\ UNCHANGED <<snapshot, symbols, tickersInFlight, late, asked>>
      /\ \A q \in ListReaders : q # r => listReader'[q] = listReader[q]
      /\ listReader'[r] \in {"idle", "listed"}
      /\ listReader' \in [ListReaders -> {"idle", "waiting", "listed", "failed"}]
  BY DEF ReadTickers, AsksAgain, ListInv, ListTypeOK
<1>2. ListTypeOK'
  BY <1>1 DEF ListInv, ListTypeOK
<1> QED BY <1>1, <1>2 DEF ListInv, OneFlightForAll, AskedOnce, ListFresh

LEMMA AskTickersKeeps ==
    ASSUME ListInv, NEW r \in ListReaders, AskTickers(r)
    PROVE  ListInv'
<1>1. /\ UNCHANGED <<snapshot, symbols, late>> /\ ~ListFresh
      /\ listReader' \in [ListReaders -> {"idle", "waiting", "listed", "failed"}]
  BY DEF AskTickers, ListInv, ListTypeOK
<1>2. CASE JoinsFlight
  <2>1. UNCHANGED <<tickersInFlight, asked>> /\ tickersInFlight # NoFlight
    BY <1>2 DEF AskTickers, JoinsFlight
  <2> QED BY <1>1, <2>1 DEF ListInv, ListTypeOK, OneFlightForAll, AskedOnce, ListFresh
<1>3. CASE ~JoinsFlight
  <2>1. /\ tickersInFlight = NoFlight /\ AskedNow
        /\ tickersInFlight' = [h \in Halves |-> IF h = "symbols" /\ symbols THEN "here" ELSE "asked"]
    BY <1>3 DEF AskTickers, JoinsFlight
  <2>2. /\ tickersInFlight' \in [Halves -> {"none", "asked", "here"}]
        /\ tickersInFlight' # NoFlight
    <3>1. tickersInFlight'["tickers"] = "asked"
      BY <2>1 DEF Halves
    <3>2. NoFlight["tickers"] = "none"
      BY DEF NoFlight, Halves
    <3>3. tickersInFlight' \in [Halves -> {"none", "asked", "here"}]
      BY <2>1
    <3> QED BY <3>1, <3>2, <3>3
  <2>3. /\ asked \in [ago : 0..TickersTtl, failed : BOOLEAN, again : BOOLEAN, hasty : BOOLEAN]
        /\ ~asked.again /\ snapshot \in Nat
    BY ListAssumption DEF ListInv, ListTypeOK, NoSnapshot, OneFlightForAll
  <2>4. ~(asked.ago < TickersTtl /\ ~asked.failed)
    BY <1>1, <2>1, <2>3, ListAssumption DEF ListInv, AskedOnce, ListFresh
  <2>5. /\ asked'.ago = 0 /\ asked'.failed = FALSE /\ asked'.again = FALSE
        /\ asked' \in [ago : 0..TickersTtl, failed : BOOLEAN, again : BOOLEAN, hasty : BOOLEAN]
    BY <2>1, <2>3, <2>4, ListAssumption DEF AskedNow
  <2>6. ListTypeOK'
    BY <1>1, <2>2, <2>5 DEF ListInv, ListTypeOK
  <2> QED BY <1>1, <2>2, <2>5, <2>6 DEF ListInv, OneFlightForAll, AskedOnce, ListFresh
<1> QED BY <1>2, <1>3

LEMMA HalfArrivesKeeps ==
    ASSUME ListInv, NEW h \in Halves, HalfArrives(h)
    PROVE  ListInv'
<1>1. /\ tickersInFlight[h] = "asked" /\ symbols' \in BOOLEAN /\ UNCHANGED <<late, asked>>
      /\ tickersInFlight # NoFlight
  BY DEF HalfArrives, ListInv, ListTypeOK, NoFlight, Halves
<1>2. CASE \A g \in Halves \ {h} : tickersInFlight[g] = "here"
  <2>1. Lands("listed") /\ snapshot' = 0
    BY <1>2 DEF HalfArrives
  <2>2. ListTypeOK'
    BY <1>1, <2>1, LandsAll, ListAssumption DEF ListInv, ListTypeOK, NoSnapshot
  <2>3. 0 <= asked'.ago
    BY <1>1, ListAssumption DEF ListInv, ListTypeOK
  <2> QED BY <1>1, <2>1, <2>2, <2>3, LandsAll DEF ListInv, OneFlightForAll, AskedOnce
<1>3. CASE ~\A g \in Halves \ {h} : tickersInFlight[g] = "here"
  <2>1. /\ tickersInFlight' = [tickersInFlight EXCEPT ![h] = "here"]
        /\ UNCHANGED <<snapshot, listReader>>
    BY <1>3 DEF HalfArrives
  <2>2. /\ tickersInFlight' \in [Halves -> {"none", "asked", "here"}]
        /\ tickersInFlight'[h] = "here"
    BY <2>1 DEF ListInv, ListTypeOK
  <2>3. tickersInFlight' # NoFlight
    BY <2>2 DEF NoFlight, Halves
  <2>4. ListTypeOK'
    BY <1>1, <2>1, <2>2 DEF ListInv, ListTypeOK
  <2> QED BY <1>1, <2>1, <2>3, <2>4 DEF ListInv, OneFlightForAll, AskedOnce, ListFresh
<1> QED BY <1>2, <1>3

LEMMA HalfFailsKeeps ==
    ASSUME ListInv, NEW h \in Halves, HalfFails(h)
    PROVE  ListInv'
<1>1. /\ UNCHANGED <<snapshot, symbols>> /\ asked' = [asked EXCEPT !.failed = TRUE]
      /\ \E outcome \in {"listed", "failed"} : Lands(outcome)
  BY DEF HalfFails
<1>2. late' \in [Halves -> 0..MaxLate]
  <2>1. /\ late' = [g \in Halves |-> IF g # h /\ tickersInFlight[g] = "asked"
                                    THEN late[g] + 1 ELSE late[g]]
        /\ \A g \in Halves : late'[g] <= MaxLate
    BY DEF HalfFails
  <2>2. \A g \in Halves : late[g] \in Nat
    BY ListAssumption DEF ListInv, ListTypeOK
  <2>3. \A g \in Halves : late'[g] \in Nat
    BY <2>1, <2>2
  <2> QED BY <2>1, <2>3, ListAssumption
<1>3. /\ asked' \in [ago : 0..TickersTtl, failed : BOOLEAN, again : BOOLEAN, hasty : BOOLEAN]
      /\ asked'.failed /\ asked'.again = asked.again
  BY <1>1 DEF ListInv, ListTypeOK
<1>4. ListTypeOK'
  BY <1>1, <1>2, <1>3, LandsAll DEF ListInv, ListTypeOK
<1> QED BY <1>1, <1>3, <1>4, LandsAll DEF ListInv, OneFlightForAll, AskedOnce

LEMMA ListInvNext == ListInv /\ [ListNext]_listVars => ListInv'
<1> SUFFICES ASSUME ListInv, [ListNext]_listVars PROVE ListInv'
  OBVIOUS
<1>1. ASSUME NEW h \in Halves, LateEnds(h)
      PROVE  ListInv'
  <2>1. late' = [late EXCEPT ![h] = late[h] - 1] /\ late[h] > 0 /\ late \in [Halves -> 0..MaxLate]
        /\ symbols \in BOOLEAN /\ MaxLate \in Nat
    BY <1>1, ListAssumption DEF LateEnds, ListInv, ListTypeOK
  <2>2. late' \in [Halves -> 0..MaxLate]
    BY <2>1
  <2>3. symbols' \in BOOLEAN
    BY <1>1, <2>1, Zenon DEF LateEnds
  <2> QED BY <1>1, <2>2, <2>3 DEF LateEnds, ListInv, ListTypeOK, OneFlightForAll, AskedOnce, ListFresh
<1>2. CASE SymbolsExpire
  BY <1>2 DEF SymbolsExpire, ListInv, ListTypeOK, OneFlightForAll, AskedOnce, ListFresh
<1>3. CASE ListAges
  <2>1. /\ UNCHANGED <<symbols, tickersInFlight, late, listReader>>
        /\ snapshot' = IF ListFresh THEN snapshot + 1 ELSE snapshot
        /\ asked' = [asked EXCEPT !.ago = IF asked.ago < TickersTtl THEN asked.ago + 1 ELSE asked.ago]
    BY <1>3 DEF ListAges
  <2>2. asked.ago \in 0..TickersTtl /\ snapshot \in 0..NoSnapshot /\ TickersTtl \in Nat
    BY ListAssumption DEF ListInv, ListTypeOK
  <2>3. PICK ago \in 0..TickersTtl :
            /\ asked' = [asked EXCEPT !.ago = ago]
            /\ ago = IF asked.ago < TickersTtl THEN asked.ago + 1 ELSE asked.ago
    BY <2>1, <2>2
  <2>4. /\ asked' \in [ago : 0..TickersTtl, failed : BOOLEAN, again : BOOLEAN, hasty : BOOLEAN]
        /\ asked'.ago = ago /\ asked'.failed = asked.failed /\ asked'.again = asked.again
    BY <2>3 DEF ListInv, ListTypeOK
  <2>5. snapshot' \in 0..NoSnapshot /\ (~ListFresh => ~ListFresh')
    BY <2>1, <2>2 DEF ListFresh, NoSnapshot
  <2>6. ListTypeOK'
    BY <2>1, <2>4, <2>5 DEF ListInv, ListTypeOK
  <2>7. AskedOnce'
    BY <2>1, <2>2, <2>3, <2>4 DEF ListInv, AskedOnce, ListFresh
  <2> QED BY <2>1, <2>4, <2>5, <2>6, <2>7 DEF ListInv, OneFlightForAll
<1>4. CASE UNCHANGED listVars
  BY <1>4 DEF listVars, ListInv, ListTypeOK, OneFlightForAll, AskedOnce, ListFresh
<1>5. ASSUME NEW r \in ListReaders, ReadTickers(r) \/ AskTickers(r) \/ AsksAgain(r)
      PROVE  ListInv'
  BY <1>5, ListReaderKeeps, AskTickersKeeps
<1>6. ASSUME NEW h \in Halves, HalfArrives(h) \/ HalfFails(h) \/ LateEnds(h)
      PROVE  ListInv'
  BY <1>1, <1>6, HalfArrivesKeeps, HalfFailsKeeps
<1> QED BY <1>2, <1>3, <1>4, <1>5, <1>6 DEF ListNext

\* For any number of readers, any TTL and any number of late requests: nobody waits for
\* a flight that has ended, a fresh list is not asked for, and the tickers are asked for
\* again within their TTL only after a failure (MarketDataService.getTickers).
THEOREM ListShared == ListSpec => []OneFlightForAll
<1>1. ListInv => OneFlightForAll
  BY DEF ListInv
<1> QED BY <1>1, ListInvInit, ListInvNext, PTL DEF ListSpec

-----------------------------------------------------------------------------
(* Streams: prices keep coming.                                              *)

\* The stream in the Map is not stopped, and has a socket or a timer; the others are
\* stopped for good.
StreamOK(s) ==
    IF s = entry THEN /\ ~streams[s].stopped /\ streams[s].socket \in {"none", "connecting", "open"}
                      /\ streams[s].timer <=> streams[s].socket = "none"
    ELSE streams[s].stopped /\ ~streams[s].timer /\ streams[s].socket \in {"none", "closing", "gone"}

Polls(g) == g.poll # "none" \/ g.timer = "armed"

FeedAlive == current # 0 => /\ feeds[current].listeners > 0
                            /\ Polls(feeds[current])
                            /\ (feeds[current].subscribed /\ ~severed => entry # 0)

StreamsInv ==
    /\ streams \in [1..MaxStreams -> StreamRow] /\ entry \in 0..MaxStreams
    /\ feeds \in [1..MaxFeeds -> FeedRow] /\ current \in 0..MaxFeeds
    /\ price \in BOOLEAN /\ severed \in BOOLEAN
    /\ \A s \in 1..MaxStreams : StreamOK(s)
    /\ FeedAlive

LEMMA FirstUnusedIs ==
    ASSUME NEW most \in Nat \ {0}, NEW rows, NEW unused, rows[most] = unused
    PROVE  FirstUnused(rows, unused, most) \in 1..most /\ rows[FirstUnused(rows, unused, most)] = unused
<1> DEFINE F == {1..i : i \in {j \in 1..most : rows[j] = unused}}
<1>1. IsFiniteSet(1..most)
  BY FS_Interval
<1>2. F \in SUBSET (SUBSET (1..most)) /\ F # {}
  <2>1. 1..most \in F
    OBVIOUS
  <2> QED BY <2>1
<1>3. PICK T \in F : \A U \in F : U \subseteq T => U = T
  <2>1. PICK S : S = 1..most
    OBVIOUS
  <2> HIDE DEF F
  <2>2. IsFiniteSet(S) /\ F \in SUBSET (SUBSET S) /\ F # {}
    BY <1>1, <1>2, <2>1
  <2> QED BY <2>2, SmallestSet
<1>4. PICK i \in 1..most : T = 1..i /\ rows[i] = unused
  BY <1>3
<1>5. \A j \in 1..(i - 1) : rows[j] # unused
  <2> SUFFICES ASSUME NEW j \in 1..(i - 1), rows[j] = unused PROVE FALSE
    OBVIOUS
  <2>1. j \in 1..most /\ 1..j \in F /\ 1..j \subseteq T /\ i \notin 1..j /\ i \in T
    BY <1>4
  <2> QED BY <1>3, <2>1
<1> QED BY <1>4, <1>5 DEF FirstUnused

LEMMA StreamsInvInit == StreamsInit => StreamsInv
<1> SUFFICES ASSUME StreamsInit PROVE StreamsInv
  OBVIOUS
<1>1. NoStream \in StreamRow /\ NoStream.stopped /\ ~NoStream.timer /\ NoStream.socket = "none"
  BY DEF NoStream, StreamRow, Sockets
<1>2. NoFeed \in FeedRow
  BY DEF NoFeed, FeedRow
<1>3. entry = 0 /\ current = 0 /\ price \in BOOLEAN /\ severed \in BOOLEAN
      /\ entry \in 0..MaxStreams /\ current \in 0..MaxFeeds
  <2>1. entry = 0 /\ current = 0 /\ price = FALSE /\ severed = FALSE
    BY DEF StreamsInit
  <2>2. 0 \in 0..MaxStreams /\ 0 \in 0..MaxFeeds
    BY StreamsAssumption
  <2> QED BY <2>1, <2>2
<1>4. streams \in [1..MaxStreams -> StreamRow] /\ feeds \in [1..MaxFeeds -> FeedRow]
  BY <1>1, <1>2 DEF StreamsInit
<1>5. \A s \in 1..MaxStreams : StreamOK(s)
  BY <1>1, <1>3 DEF StreamsInit, StreamOK
<1> QED BY <1>3, <1>4, <1>5 DEF StreamsInv, FeedAlive

\* A stream changes alone.
LEMMA StreamChanges ==
    ASSUME StreamsInv, NEW s \in 1..MaxStreams, NEW r \in StreamRow, streams' = [streams EXCEPT ![s] = r],
           UNCHANGED <<entry, feeds, current, severed>>, price' \in BOOLEAN,
           IF s = entry THEN /\ ~r.stopped /\ r.socket \in {"none", "connecting", "open"}
                             /\ r.timer <=> r.socket = "none"
           ELSE r.stopped /\ ~r.timer /\ r.socket \in {"none", "closing", "gone"}
    PROVE  StreamsInv'
<1>1. streams' \in [1..MaxStreams -> StreamRow] /\ streams'[s] = r
      /\ \A t \in 1..MaxStreams : t # s => streams'[t] = streams[t]
  BY DEF StreamsInv
<1>2. \A t \in 1..MaxStreams : StreamOK(t)'
  BY <1>1 DEF StreamsInv, StreamOK
<1> QED BY <1>1, <1>2 DEF StreamsInv, FeedAlive

LEMMA SocketStepKeeps ==
    ASSUME StreamsInv, NEW s \in 1..MaxStreams,
           SocketOpens(s) \/ SocketCloses(s) \/ ReconnectTimer(s) \/ TickerMessage(s)
    PROVE  StreamsInv'
<1> DEFINE st == streams[s]
<1>1. /\ st \in StreamRow /\ streams = [t \in 1..MaxStreams |-> streams[t]] /\ StreamOK(s)
      /\ st = [socket |-> st.socket, timer |-> st.timer, stopped |-> st.stopped]
      /\ st.socket \in Sockets /\ st.timer \in BOOLEAN /\ st.stopped \in BOOLEAN
  BY DEF StreamsInv, StreamRow
<1>2. CASE SocketOpens(s)
  <2> DEFINE r == [st EXCEPT !.socket = "open"]
  <2>1. r \in StreamRow /\ r.socket = "open" /\ r.timer = st.timer /\ r.stopped = st.stopped
    BY <1>1 DEF StreamRow, Sockets
  <2>2. streams' = [streams EXCEPT ![s] = r] /\ st.socket = "connecting"
        /\ UNCHANGED <<entry, price, feeds, current, severed>>
    BY <1>2 DEF SocketOpens
  <2> HIDE DEF r
  <2> QED BY <1>1, <2>1, <2>2, StreamChanges DEF StreamOK, StreamsInv
<1>3. CASE SocketCloses(s)
  <2> DEFINE r == [st EXCEPT !.socket = IF st.socket = "closing" THEN "gone" ELSE "none", !.timer = ~st.stopped]
  <2>1. /\ r \in StreamRow /\ r.stopped = st.stopped /\ r.timer = ~st.stopped
        /\ r.socket = IF st.socket = "closing" THEN "gone" ELSE "none"
    <3>1. PICK w : w = [st EXCEPT !.socket = IF st.socket = "closing" THEN "gone" ELSE "none"]
      OBVIOUS
    <3>2. w \in StreamRow /\ w.stopped = st.stopped /\ w.socket = IF st.socket = "closing" THEN "gone" ELSE "none"
      BY <1>1, <3>1 DEF StreamRow, Sockets
    <3>3. r = [w EXCEPT !.timer = ~st.stopped] /\ (~st.stopped) \in BOOLEAN
      BY <1>1, <3>1
    <3> HIDE DEF r
    <3> QED BY <3>2, <3>3 DEF StreamRow
  <2>2. /\ streams' = [streams EXCEPT ![s] = r] /\ st.socket \in {"connecting", "open", "closing"}
        /\ UNCHANGED <<entry, price, feeds, current, severed>>
    BY <1>1, <1>3 DEF SocketCloses, Reconnects, StreamsInv
  <2> HIDE DEF r
  <2> QED BY <1>1, <2>1, <2>2, StreamChanges DEF StreamOK, StreamsInv
<1>4. CASE ReconnectTimer(s)
  <2> DEFINE r == Connected(st)
  <2>1. r \in StreamRow /\ r.socket = "connecting" /\ r.timer = FALSE /\ r.stopped = st.stopped
    <3>1. PICK w : w = [st EXCEPT !.socket = "connecting"]
      OBVIOUS
    <3>2. w \in StreamRow /\ w.stopped = st.stopped /\ w.socket = "connecting"
      BY <1>1, <3>1 DEF StreamRow, Sockets
    <3>3. r = [w EXCEPT !.timer = FALSE]
      BY <3>1 DEF Connected
    <3> HIDE DEF r
    <3> QED BY <3>2, <3>3 DEF StreamRow
  <2>2. streams' = [streams EXCEPT ![s] = r] /\ st.timer
        /\ UNCHANGED <<entry, price, feeds, current, severed>>
    BY <1>4 DEF ReconnectTimer
  <2> HIDE DEF r
  <2> QED BY <1>1, <2>1, <2>2, StreamChanges DEF StreamOK, StreamsInv
<1>5. CASE TickerMessage(s)
  BY <1>5 DEF TickerMessage, StreamsInv, StreamOK, FeedAlive
<1> QED BY <1>2, <1>3, <1>4, <1>5

\* The stream in the Map ends, for everybody.
LEMMA StreamEnds ==
    ASSUME StreamsInv, Unsubscribe \/ RestartBackend
    PROVE  StreamsInv'
<1>1. entry \in 1..MaxStreams /\ DOMAIN streams = 1..MaxStreams
  BY DEF StreamsInv, Unsubscribe, RestartBackend
<1>2. CASE Unsubscribe
  <2>1. StreamStopped(streams[entry]) \in StreamRow /\ StreamStopped(streams[entry]).stopped
        /\ ~StreamStopped(streams[entry]).timer /\ StreamStopped(streams[entry]).socket \in {"closing", "gone"}
    BY DEF StreamStopped, StreamRow, Sockets
  <2>2. streams' = [streams EXCEPT ![entry] = StreamStopped(streams[entry])] /\ entry' = 0 /\ severed'
    BY <1>2 DEF Unsubscribe
  <2>3. streams' \in [1..MaxStreams -> StreamRow] /\ streams'[entry] = StreamStopped(streams[entry])
        /\ \A s \in 1..MaxStreams : s # entry => streams'[s] = streams[s]
    BY <1>1, <2>1, <2>2 DEF StreamsInv
  <2>4. \A s \in 1..MaxStreams : StreamOK(s)'
    BY <1>1, <2>1, <2>2, <2>3 DEF StreamsInv, StreamOK
  <2> QED BY <1>2, <2>2, <2>3, <2>4, StreamsAssumption DEF StreamsInv, FeedAlive, Unsubscribe
<1>3. CASE RestartBackend
  <2>1. NoStream \in StreamRow /\ [NoStream EXCEPT !.socket = "gone"] \in StreamRow
        /\ NoStream.stopped /\ ~NoStream.timer /\ NoStream.socket = "none"
        /\ [NoStream EXCEPT !.socket = "gone"].stopped /\ ~[NoStream EXCEPT !.socket = "gone"].timer
        /\ [NoStream EXCEPT !.socket = "gone"].socket = "gone"
    BY DEF NoStream, StreamRow, Sockets
  <2>2. streams' \in [1..MaxStreams -> StreamRow]
        /\ \A s \in 1..MaxStreams : streams'[s] \in {NoStream, [NoStream EXCEPT !.socket = "gone"]}
    BY <1>1, <1>3, <2>1 DEF RestartBackend
  <2>3. entry' = 0 /\ severed' /\ UNCHANGED <<feeds, current>> /\ price' = FALSE
    BY <1>3 DEF RestartBackend
  <2>4. ASSUME NEW s \in 1..MaxStreams PROVE StreamOK(s)'
    <3>1. PICK w : w = streams'[s]
      OBVIOUS
    <3>2. w.stopped /\ ~w.timer /\ w.socket \in {"none", "gone"}
      BY <2>1, <2>2, <3>1
    <3>3. s # entry'
      BY <2>3
    <3> QED BY <3>1, <3>2, <3>3 DEF StreamOK
  <2>5. entry' \in 0..MaxStreams /\ price' \in BOOLEAN /\ severed' \in BOOLEAN
    <3>1. 0 \in 0..MaxStreams
      BY StreamsAssumption
    <3>2. price' = FALSE /\ severed' = TRUE
      BY <1>3 DEF RestartBackend
    <3> QED BY <2>3, <3>1, <3>2
  <2> QED BY <2>2, <2>3, <2>4, <2>5 DEF StreamsInv, FeedAlive
<1> QED BY <1>2, <1>3

\* A subscription that reaches the backend leaves a stream in the Map.
LEMMA SubscribedHasStream ==
    ASSUME StreamsInv, StreamSubscribed
    PROVE  /\ streams' \in [1..MaxStreams -> StreamRow] /\ entry' \in 1..MaxStreams
           /\ \A s \in 1..MaxStreams : StreamOK(s)'
<1>1. CASE MayShare
  BY <1>1 DEF StreamSubscribed, MayShare, StreamsInv, StreamOK
<1>2. CASE ~MayShare
  <2>0. entry = 0
    BY <1>2 DEF MayShare, StreamsInv, StreamOK
  <2> DEFINE r == [socket |-> "connecting", timer |-> FALSE, stopped |-> FALSE]
  <2>1. streams[MaxStreams] = NoStream /\ entry' = FirstUnused(streams, NoStream, MaxStreams)
        /\ streams' = [streams EXCEPT ![entry'] = r]
    BY <1>2 DEF StreamSubscribed
  <2>2. entry' \in 1..MaxStreams
    BY <2>1, FirstUnusedIs, StreamsAssumption
  <2>3. r \in StreamRow
    BY DEF StreamRow, Sockets
  <2>4. streams' \in [1..MaxStreams -> StreamRow] /\ streams'[entry'] = r
        /\ \A s \in 1..MaxStreams : s # entry' => streams'[s] = streams[s]
    BY <2>1, <2>2, <2>3 DEF StreamsInv
  <2>5. \A s \in 1..MaxStreams : StreamOK(s)'
    BY <2>0, <2>4 DEF StreamsInv, StreamOK
  <2> QED BY <2>2, <2>4, <2>5
<1> QED BY <1>1, <1>2

\* A feed changes alone, or becomes the one in the Map.
LEMMA FeedChanges ==
    ASSUME StreamsInv, NEW f \in 1..MaxFeeds, NEW g \in FeedRow, feeds' = [feeds EXCEPT ![f] = g],
           streams' \in [1..MaxStreams -> StreamRow], entry' \in 0..MaxStreams, price' \in BOOLEAN,
           \A s \in 1..MaxStreams : StreamOK(s)', entry # 0 => entry' # 0,
           severed' \in BOOLEAN, severed' \/ ~severed \/ entry' # 0,
           current' \in {0, f, current},
           current' = f => g.listeners > 0 /\ Polls(g),
           current' = f /\ g.subscribed /\ ~severed' => entry' # 0
    PROVE  StreamsInv'
<1>1. feeds' \in [1..MaxFeeds -> FeedRow] /\ feeds'[f] = g
      /\ \A h \in 1..MaxFeeds : h # f => feeds'[h] = feeds[h]
  BY DEF StreamsInv
<1>2. current' \in 0..MaxFeeds
  BY StreamsAssumption DEF StreamsInv
<1>3. FeedAlive'
  <2>1. CASE current' = f
    <3>1. PICK h : h = feeds'[f] /\ h = g
      BY <1>1
    <3>2. h.listeners > 0 /\ Polls(h) /\ (h.subscribed /\ ~severed' => entry' # 0)
      BY <2>1, <3>1
    <3> QED BY <2>1, <3>1, <3>2 DEF FeedAlive
  <2>2. CASE current' # f /\ current' # 0
    <3>1. current' = current /\ feeds'[current] = feeds[current]
      BY <1>1, <1>2, <2>2
    <3> QED BY <2>2, <3>1 DEF FeedAlive, StreamsInv
  <2>3. CASE current' = 0
    BY <2>3 DEF FeedAlive
  <2> QED BY <2>1, <2>2, <2>3
<1> QED BY <1>1, <1>2, <1>3 DEF StreamsInv

\* Every step of a browser's feed.
LEMMA FeedStepKeeps ==
    ASSUME StreamsInv, NEW f \in 1..MaxFeeds,
           \/ FeedTimer(f)
           \/ \E reaches, answers \in BOOLEAN : SubscribeEnds(f, reaches, answers)
           \/ \E ok \in BOOLEAN : PricesAnswered(f, ok)
    PROVE  StreamsInv'
<1> DEFINE g == feeds[f]
<1>1. /\ g \in FeedRow /\ g.listeners \in Nat /\ g.subscribed \in BOOLEAN
      /\ g.timer \in {"unset", "armed", "fired", "gone"} /\ g.poll \in {"none", "subscribing", "asking"}
      /\ (current = f => g.listeners > 0 /\ Polls(g))
      /\ (current = f /\ g.subscribed /\ ~severed => entry # 0)
      /\ entry \in 0..MaxStreams /\ price \in BOOLEAN /\ severed \in BOOLEAN
      /\ streams \in [1..MaxStreams -> StreamRow] /\ \A s \in 1..MaxStreams : StreamOK(s)
  BY DEF StreamsInv, FeedRow, FeedAlive
<1>2. CASE FeedTimer(f)
  <2>1. PICK h : h = Polling([g EXCEPT !.timer = "fired"])
    OBVIOUS
  <2>2. h \in FeedRow /\ h.listeners = g.listeners /\ h.poll # "none" /\ h.subscribed = g.subscribed
    <3>1. PICK w : w = [g EXCEPT !.timer = "fired"]
      OBVIOUS
    <3>2. w \in FeedRow /\ w.listeners = g.listeners /\ w.subscribed = g.subscribed
      BY <1>1, <3>1 DEF FeedRow
    <3>3. h = [w EXCEPT !.poll = IF w.subscribed THEN "asking" ELSE "subscribing"]
      BY <2>1, <3>1 DEF Polling
    <3> HIDE DEF g
    <3> QED BY <3>2, <3>3 DEF FeedRow
  <2>3. feeds' = [feeds EXCEPT ![f] = h] /\ UNCHANGED <<streams, entry, price, current, severed>>
    BY <1>2, <2>1 DEF FeedTimer
  <2>4. \A s \in 1..MaxStreams : StreamOK(s)'
    BY <1>1, <2>3 DEF StreamOK
  <2> HIDE DEF g
  <2> QED BY <1>1, <2>2, <2>3, <2>4, FeedChanges DEF Polls
<1>3. ASSUME NEW reaches \in BOOLEAN, NEW answers \in BOOLEAN, SubscribeEnds(f, reaches, answers)
      PROVE  StreamsInv'
  <2>1. PICK h : h = [g EXCEPT !.subscribed = answers, !.poll = "asking"]
    OBVIOUS
  <2>2. h \in FeedRow /\ h.listeners = g.listeners /\ h.poll = "asking" /\ h.subscribed = answers
    <3>1. PICK w : w = [g EXCEPT !.subscribed = answers]
      OBVIOUS
    <3>2. w \in FeedRow /\ w.listeners = g.listeners /\ w.subscribed = answers
      BY <1>1, <3>1 DEF FeedRow
    <3>3. h = [w EXCEPT !.poll = "asking"]
      BY <2>1, <3>1
    <3> HIDE DEF g
    <3> QED BY <3>2, <3>3 DEF FeedRow
  <2>3. /\ feeds' = [feeds EXCEPT ![f] = h] /\ UNCHANGED <<price, current>>
        /\ severed' = (severed /\ ~answers) /\ (answers => reaches)
        /\ IF reaches THEN StreamSubscribed ELSE UNCHANGED <<streams, entry>>
    BY <1>1, <1>3, <2>1 DEF SubscribeEnds, StreamsInv
  <2>4. /\ streams' \in [1..MaxStreams -> StreamRow] /\ entry' \in 0..MaxStreams
        /\ \A s \in 1..MaxStreams : StreamOK(s)'
        /\ (reaches => entry' # 0)
        /\ (~reaches => entry' = entry)
    <3>1. CASE reaches
      BY <2>3, <3>1, SubscribedHasStream
    <3>2. CASE ~reaches
      BY <1>1, <2>3, <3>2 DEF StreamOK
    <3> QED BY <3>1, <3>2
  <2>5. severed' \in BOOLEAN /\ (entry # 0 => entry' # 0) /\ (severed' \/ ~severed \/ entry' # 0)
    BY <1>1, <2>3, <2>4
  <2> HIDE DEF g
  <2> QED BY <1>1, <2>2, <2>3, <2>4, <2>5, FeedChanges DEF Polls
<1>4. ASSUME NEW ok \in BOOLEAN, PricesAnswered(f, ok)
      PROVE  StreamsInv'
  <2> DEFINE newTimer == IF g.listeners > 0 THEN "armed" ELSE g.timer
  <2>1. PICK h : h = [g EXCEPT !.poll = "none", !.got = ok /\ price, !.timer = newTimer]
    OBVIOUS
  <2>2. h \in FeedRow /\ h.listeners = g.listeners /\ h.subscribed = g.subscribed /\ h.timer = newTimer
    <3>0. (ok /\ price) \in BOOLEAN /\ newTimer \in {"unset", "armed", "fired", "gone"}
      BY <1>1
    <3>1. PICK w : w = [g EXCEPT !.poll = "none"]
      OBVIOUS
    <3>2. w \in FeedRow /\ w.listeners = g.listeners /\ w.subscribed = g.subscribed
      BY <1>1, <3>1 DEF FeedRow
    <3>3. PICK v : v = [w EXCEPT !.got = ok /\ price]
      OBVIOUS
    <3>4. v \in FeedRow /\ v.listeners = g.listeners /\ v.subscribed = g.subscribed
      BY <3>0, <3>2, <3>3 DEF FeedRow
    <3>5. h = [v EXCEPT !.timer = newTimer]
      BY <2>1, <3>1, <3>3
    <3> HIDE DEF g, newTimer
    <3> QED BY <3>0, <3>4, <3>5 DEF FeedRow
  <2>3. feeds' = [feeds EXCEPT ![f] = h] /\ UNCHANGED <<streams, entry, price, current, severed>>
    BY <1>1, <1>4, <2>1 DEF PricesAnswered, StreamsInv
  <2>4. \A s \in 1..MaxStreams : StreamOK(s)'
    BY <1>1, <2>3 DEF StreamOK
  <2>5. current = f => h.timer = "armed" /\ h.listeners > 0
    BY <1>1, <2>2
  <2> HIDE DEF g, newTimer
  <2> QED BY <1>1, <2>2, <2>3, <2>4, <2>5, FeedChanges DEF Polls
<1> QED BY <1>2, <1>3, <1>4

\* A widget begins to listen, or ceases to.
LEMMA ListenersKeep ==
    ASSUME StreamsInv, Listen \/ Unlisten
    PROVE  StreamsInv'
<1>0. /\ entry \in 0..MaxStreams /\ price \in BOOLEAN /\ severed \in BOOLEAN
      /\ streams \in [1..MaxStreams -> StreamRow] /\ \A s \in 1..MaxStreams : StreamOK(s)
      /\ feeds \in [1..MaxFeeds -> FeedRow] /\ current \in 0..MaxFeeds
      /\ MaxFeeds \in Nat \ {0} /\ MaxStreams \in Nat \ {0}
  BY StreamsAssumption DEF StreamsInv
<1>1. CASE Listen
  <2> DEFINE f == IF current = 0 THEN FirstUnused(feeds, NoFeed, MaxFeeds) ELSE current
  <2>1. f \in 1..MaxFeeds /\ (current = 0 => feeds[f] = NoFeed) /\ (current # 0 => f = current)
    BY <1>0, <1>1, FirstUnusedIs DEF Listen
  <2>2. PICK g : g = [feeds[f] EXCEPT !.listeners = feeds[f].listeners + 1]
    OBVIOUS
  <2>3. current' = f /\ UNCHANGED <<streams, entry, price, severed>>
        /\ feeds' = [feeds EXCEPT ![f] = IF MustPoll(g) THEN Polling(g) ELSE g]
    BY <1>1, <2>2 DEF Listen
  <2> HIDE DEF f
  <2>4. feeds[f] \in FeedRow /\ feeds[f].listeners \in Nat
    BY <1>0, <2>1 DEF FeedRow
  <2>5. /\ g \in FeedRow /\ g.listeners > 0 /\ g.poll = feeds[f].poll /\ g.timer = feeds[f].timer
        /\ g.subscribed = feeds[f].subscribed
    BY <2>2, <2>4 DEF FeedRow
  <2>6. (g.subscribed /\ ~severed => entry # 0) /\ (Polls(g) \/ MustPoll(g))
    <3>1. CASE current = 0
      <4>1. feeds[f] = NoFeed
        BY <2>1, <3>1
      <4>2. NoFeed.poll = "none" /\ NoFeed.timer = "unset" /\ NoFeed.subscribed = FALSE
        BY DEF NoFeed
      <4> QED BY <2>5, <4>1, <4>2 DEF MustPoll
    <3>2. CASE current # 0
      BY <2>1, <2>5, <3>2 DEF StreamsInv, FeedAlive, Polls
    <3> QED BY <3>1, <3>2
  <2>7. PICK h : h = IF MustPoll(g) THEN Polling(g) ELSE g
    OBVIOUS
  <2>8. h \in FeedRow /\ h.listeners > 0 /\ Polls(h) /\ (h.subscribed /\ ~severed => entry # 0)
    <3>1. CASE MustPoll(g)
      <4>1. h = [g EXCEPT !.poll = IF g.subscribed THEN "asking" ELSE "subscribing"]
        BY <2>7, <3>1 DEF Polling
      <4>2. h \in FeedRow /\ h.listeners = g.listeners /\ h.subscribed = g.subscribed /\ h.poll # "none"
        BY <2>5, <4>1 DEF FeedRow
      <4> QED BY <2>5, <2>6, <4>2 DEF Polls
    <3>2. CASE ~MustPoll(g)
      BY <2>5, <2>6, <2>7, <3>2
    <3> QED BY <3>1, <3>2
  <2>9. feeds' = [feeds EXCEPT ![f] = h] /\ \A s \in 1..MaxStreams : StreamOK(s)'
    BY <1>0, <2>3, <2>7 DEF StreamOK
  <2> QED BY <1>0, <2>1, <2>3, <2>8, <2>9, FeedChanges
<1>2. CASE Unlisten
  <2> DEFINE last == feeds[current].listeners = 1
             g == feeds[current]
  <2>1. current \in 1..MaxFeeds /\ g \in FeedRow /\ g.listeners \in Nat /\ g.listeners > 0
        /\ g.timer \in {"unset", "armed", "fired", "gone"}
        /\ Polls(g) /\ (g.subscribed /\ ~severed => entry # 0)
    BY <1>0, <1>2 DEF Unlisten, StreamsInv, FeedAlive, FeedRow
  <2> DEFINE newTimer == IF last THEN "gone" ELSE g.timer
  <2>2. PICK h : h = [g EXCEPT !.listeners = g.listeners - 1, !.timer = newTimer]
    OBVIOUS
  <2>3. feeds' = [feeds EXCEPT ![current] = h] /\ current' = (IF last THEN 0 ELSE current)
        /\ UNCHANGED <<streams, entry, price, severed>>
    BY <1>0, <1>2, <2>1, <2>2 DEF Unlisten
  <2>4. h \in FeedRow /\ h.listeners = g.listeners - 1 /\ h.poll = g.poll /\ h.timer = newTimer
        /\ h.subscribed = g.subscribed
    <3>0. newTimer \in {"unset", "armed", "fired", "gone"} /\ g.listeners - 1 \in Nat
      BY <2>1
    <3>1. PICK w : w = [g EXCEPT !.listeners = g.listeners - 1]
      OBVIOUS
    <3>2. w \in FeedRow /\ w.listeners = g.listeners - 1 /\ w.poll = g.poll /\ w.subscribed = g.subscribed
      BY <2>1, <3>0, <3>1 DEF FeedRow
    <3>3. h = [w EXCEPT !.timer = newTimer]
      BY <2>2, <3>1
    <3> HIDE DEF g, newTimer
    <3> QED BY <3>0, <3>2, <3>3 DEF FeedRow
  <2>5. \A s \in 1..MaxStreams : StreamOK(s)'
    BY <1>0, <2>3 DEF StreamOK
  <2>6. current' \in {0, current}
        /\ (current' = current => h.listeners > 0 /\ h.timer = g.timer)
    BY <2>1, <2>3, <2>4
  <2>7. current' = current => Polls(h)
    BY <2>1, <2>4, <2>6 DEF Polls
  <2> HIDE DEF g, newTimer, last
  <2> QED BY <1>0, <2>1, <2>3, <2>4, <2>5, <2>6, <2>7, FeedChanges
<1> QED BY <1>1, <1>2

LEMMA StreamsInvNext == StreamsInv /\ [StreamsNext]_streamVars => StreamsInv'
<1> SUFFICES ASSUME StreamsInv, [StreamsNext]_streamVars PROVE StreamsInv'
  OBVIOUS
<1>1. CASE UNCHANGED streamVars
  BY <1>1 DEF StreamsInv, StreamOK, FeedAlive, Polls, streamVars
<1> QED BY <1>1, SocketStepKeeps, FeedStepKeeps, ListenersKeep, StreamEnds DEF StreamsNext

\* For any number of sockets, feeds, widgets and cuts: the stream somebody listens to is
\* open or about to be opened again, and its group polls (BinanceWebsocketMarketDataService,
\* sharedMarketPriceFeed).
THEOREM StreamsAlive == StreamsSpec => []StreamsStayAlive
<1>1. StreamsInv => StreamsStayAlive
  BY DEF StreamsInv, StreamsStayAlive, StreamOK, FeedAlive, Polls
<1> QED BY <1>1, StreamsInvInit, StreamsInvNext, PTL DEF StreamsSpec

\* For any readers, sockets, feeds and widgets: what was asked of the market once is
\* shared, recent and still fed (MarketDataService, BinanceWebsocketMarketDataService,
\* sharedMarketPriceFeed).
THEOREM MarketShared ==
    QuotesSpec /\ ListSpec /\ StreamsSpec => []MarketDataShared
<1>1. QuotesAreRecent /\ OneFlightForAll /\ StreamsStayAlive => MarketDataShared
  BY DEF MarketDataShared
<1> QED
  BY <1>1, QuotesRecent, ListShared, StreamsAlive, PTL

-----------------------------------------------------------------------------
(* The account: its tokens, its codes and its reset links. *)

\* A version of the password never comes back: what was read with it is older than
\* the row, or has its password.
OfItsVersion(row, version, password) ==
    /\ version \in Nat /\ version <= row.authVersion
    /\ version = row.authVersion => password = row.password

CallOK(q) ==
    /\ call[q].pc \in {"code", "device", "token"} =>
           OfItsVersion(user, call[q].row.authVersion, call[q].row.password)
    /\ call[q].pc \in {"code", "enable", "disable"} => call[q].step \in Int
    /\ call[q].pc \in {"change", "reset"} => call[q].password \in Nat
    /\ call[q].pc = "setup" => call[q].secret \in Nat
    /\ call[q].pc = "reset" => call[q].link \in DOMAIN links
    /\ call[q].pc = "token" => call[q].browser \in Browsers
    /\ call[q].pc \in {"code", "device"} => call[q].browser \in Browsers

AccountInv ==
    /\ user \in UserRow
    /\ links \in Seq(ResetLink)
    /\ DOMAIN session = Browsers /\ DOMAIN call = AccountRequests
    /\ calls \in Nat /\ totpStep \in Int
    /\ \A b \in Browsers : session[b] # NoSession => OfItsVersion(user, session[b].ver, session[b].password)
    /\ \A q \in AccountRequests : CallOK(q)
    /\ \A c \in taken : c.nr = 0 /\ c.step \in Int /\ c.step <= user.lastStep
    /\ \A l \in DOMAIN links : links[l].resets <= 1 /\ (~links[l].usedAt => links[l].resets = 0)

\* What the parts of the invariant rest on, for steps that leave the row or the
\* links alone.
LEMMA CallMoves ==
    ASSUME AccountInv, NEW q \in AccountRequests, NEW r, Goes(q, r), UNCHANGED <<user, links, totpStep>>,
           calls' \in Nat, DOMAIN session' = Browsers,
           \A b \in Browsers : session'[b] # NoSession => OfItsVersion(user, session'[b].ver, session'[b].password),
           taken' = taken,
           /\ r.pc \in {"code", "device", "token"} => OfItsVersion(user, r.row.authVersion, r.row.password)
           /\ r.pc \in {"code", "enable", "disable"} => r.step \in Int
           /\ r.pc \in {"change", "reset"} => r.password \in Nat
           /\ r.pc = "setup" => r.secret \in Nat
           /\ r.pc = "reset" => r.link \in DOMAIN links
           /\ r.pc = "token" => r.browser \in Browsers
           /\ r.pc \in {"code", "device"} => r.browser \in Browsers
    PROVE  AccountInv'
<1>1. call' = [call EXCEPT ![q] = r]
  BY DEF Goes
<1>2. DOMAIN call' = AccountRequests /\ call'[q] = r
      /\ \A p \in AccountRequests \ {q} : call'[p] = call[p]
  BY <1>1 DEF AccountInv
<1>3. \A p \in AccountRequests : CallOK(p)'
  BY <1>2 DEF AccountInv, CallOK, OfItsVersion
<1> QED
  BY <1>2, <1>3 DEF AccountInv, OfItsVersion

\* A request that is over.
LEMMA RequestEnds ==
    ASSUME AccountInv, NEW q \in AccountRequests, NEW r, r.pc \in {"idle", "spend", "on", "off", "link"},
           Goes(q, r),
           user' \in UserRow, links' \in Seq(ResetLink), DOMAIN links \subseteq DOMAIN links',
           \/ user'.authVersion = user.authVersion /\ user'.password = user.password
           \/ user'.authVersion = user.authVersion + 1,
           UNCHANGED <<session, totpStep>>, calls' \in Nat,
           \A c \in taken' : c.nr = 0 /\ c.step \in Int /\ c.step <= user'.lastStep,
           \A l \in DOMAIN links' : links'[l].resets <= 1 /\ (~links'[l].usedAt => links'[l].resets = 0)
    PROVE  AccountInv'
<1>1. call' = [call EXCEPT ![q] = r]
  BY DEF Goes
<1>2. DOMAIN call' = AccountRequests /\ call'[q] = r
      /\ \A p \in AccountRequests \ {q} : call'[p] = call[p]
  BY <1>1 DEF AccountInv
<1>3. user.authVersion \in Nat
  BY DEF AccountInv, UserRow
<1>4. ASSUME NEW v, NEW p, OfItsVersion(user, v, p) PROVE OfItsVersion(user', v, p)
  BY <1>3, <1>4 DEF OfItsVersion
<1>5. \A p \in AccountRequests : CallOK(p)'
  <2>1. CallOK(q)'
    BY <1>2 DEF CallOK
  <2>2. ASSUME NEW p \in AccountRequests \ {q} PROVE CallOK(p)'
    <3>1. CallOK(p) /\ call'[p] = call[p]
      BY <1>2 DEF AccountInv
    <3>2. call[p].pc \in {"code", "device", "token"} =>
             OfItsVersion(user', call[p].row.authVersion, call[p].row.password)
      BY <1>4, <3>1 DEF CallOK
    <3> QED
      BY <3>1, <3>2 DEF CallOK, OfItsVersion
  <2> QED
    BY <2>1, <2>2
<1>6. \A b \in Browsers : session'[b] # NoSession => OfItsVersion(user', session'[b].ver, session'[b].password)
  BY <1>4 DEF AccountInv, OfItsVersion
<1> QED
  BY <1>2, <1>5, <1>6 DEF AccountInv, OfItsVersion

\* A code that is claimed was not accepted before: its step is later than any
\* accepted step of the secret.
LEMMA ConsumeKeeps ==
    ASSUME AccountInv, NEW q \in AccountRequests, call[q].pc \in {"code", "enable", "disable"},
           NEW next, Consume(q, next),
           \/ next.pc \in {"on", "off"}
           \/ /\ call[q].pc = "code" /\ next.pc = "device"
              /\ next.row = call[q].row /\ next.browser = call[q].browser
    PROVE  AccountInv'
<1> DEFINE w == call[q]
<1>1. UNCHANGED <<links, devices, session, calls, totpStep>>
  BY DEF Consume
<1>2. w.step \in Int /\ CallOK(q)
  BY DEF AccountInv, CallOK
<1>3. CASE /\ w.step > w.row.lastStep /\ ClaimsStep(w.step)
           /\ user' = [user EXCEPT !.lastStep = w.step]
           /\ taken' = Accepting(w) /\ Goes(q, next)
  <2>1. /\ user' \in UserRow /\ user'.lastStep = w.step /\ user.lastStep \in Int
        /\ user'.authVersion = user.authVersion /\ user'.password = user.password
        /\ user.lastStep < w.step
    BY <1>2, <1>3 DEF AccountInv, UserRow, ClaimsStep
  <2>2. \A c \in taken : c.nr = 0 /\ c.step \in Int /\ c.step <= user.lastStep /\ user.lastStep < w.step
    BY <2>1 DEF AccountInv
  <2>3. \A c \in taken' : c.nr = 0 /\ c.step \in Int /\ c.step <= user'.lastStep
    <3> DEFINE same == {c \in taken : c.step = w.step}
               new == [step |-> w.step, nr |-> Cardinality(same)]
    <3>1. same = {}
      BY <1>2, <2>1, <2>2
    <3>2. new.step = w.step /\ new.nr = 0
      <4>1. Cardinality({}) = 0
        BY FS_EmptySet
      <4> HIDE DEF same
      <4> QED
        BY <3>1, <4>1
    <3>3. taken' = taken \/ taken' = taken \cup {new}
      BY <1>3 DEF Accepting
    <3> HIDE DEF new, w
    <3> QED
      BY <1>2, <2>1, <2>2, <3>2, <3>3
  <2>4. CASE next.pc \in {"on", "off"}
    <3> HIDE DEF w
    <3> QED
      BY <1>1, <1>3, <2>1, <2>3, <2>4, RequestEnds DEF AccountInv
  <2>5. CASE /\ w.pc = "code" /\ next.pc = "device"
             /\ next.row = w.row /\ next.browser = w.browser
    <3>1. call' = [call EXCEPT ![q] = next] /\ DOMAIN call = AccountRequests
      BY <1>3 DEF Goes, AccountInv
    <3>2. \A p \in AccountRequests : CallOK(p)'
      BY <1>1, <1>2, <2>1, <2>5, <3>1 DEF AccountInv, CallOK, OfItsVersion
    <3>3. \A b \in Browsers : session'[b] # NoSession => OfItsVersion(user', session'[b].ver, session'[b].password)
      BY <1>1, <2>1 DEF AccountInv, OfItsVersion
    <3> QED
      BY <1>1, <2>1, <2>3, <3>1, <3>2, <3>3 DEF AccountInv
  <2> QED
    BY <2>4, <2>5
<1>4. CASE Goes(q, NoRequest) /\ UNCHANGED <<user, taken>>
  <2>1. NoRequest.pc = "idle"
    BY DEF NoRequest
  <2> QED
    BY <1>1, <1>4, <2>1, RequestEnds DEF AccountInv
<1> QED
  BY <1>3, <1>4 DEF Consume

\* The links are spent together.
LEMMA SpentLinks ==
    ASSUME links \in Seq(ResetLink)
    PROVE  /\ LinksSpent \in Seq(ResetLink) /\ DOMAIN LinksSpent = DOMAIN links
           /\ \A l \in DOMAIN links : LinksSpent[l].usedAt /\ LinksSpent[l].resets = links[l].resets
<1>1. Len(links) \in Nat /\ DOMAIN links = 1..Len(links) /\ \A l \in 1..Len(links) : links[l] \in ResetLink
  OBVIOUS
<1>2. \A l \in 1..Len(links) : [links[l] EXCEPT !.usedAt = TRUE] \in ResetLink
  BY <1>1 DEF ResetLink
<1>3. LinksSpent \in [1..Len(links) -> ResetLink]
  BY <1>1, <1>2 DEF LinksSpent
<1>4. LinksSpent \in Seq(ResetLink)
  BY <1>1, <1>3, IsASeq
<1>5. \A l \in DOMAIN links : LinksSpent[l] = [links[l] EXCEPT !.usedAt = TRUE] /\ links[l] \in ResetLink
  BY <1>1 DEF LinksSpent
<1>6. \A l \in DOMAIN links : LinksSpent[l].usedAt /\ LinksSpent[l].resets = links[l].resets
  BY <1>5 DEF ResetLink
<1> QED
  BY <1>1, <1>3, <1>4, <1>6

\* A new password is a new version.
LEMMA NewVersion ==
    ASSUME AccountInv, NEW p \in Nat
    PROVE  /\ Repassworded(p) \in UserRow
           /\ Repassworded(p).authVersion = user.authVersion + 1
           /\ Repassworded(p).lastStep = user.lastStep
<1>1. user \in UserRow
  BY DEF AccountInv
<1>2. Repassworded(p) = [user EXCEPT !.password = p, !.authVersion = user.authVersion + 1]
  BY DEF Repassworded, NextVersion
<1>3. user.authVersion + 1 \in Nat
  BY <1>1 DEF UserRow
<1>4. PICK w \in UserRow : w = [user EXCEPT !.password = p]
  BY <1>1 DEF UserRow
<1>5. w.lastStep = user.lastStep
  BY <1>1, <1>4 DEF UserRow
<1>6. PICK v \in Nat : v = user.authVersion + 1
  BY <1>3
<1>7. Repassworded(p) = [w EXCEPT !.authVersion = v]
  BY <1>1, <1>2, <1>4, <1>6 DEF UserRow
<1>8. /\ [w EXCEPT !.authVersion = v] \in UserRow /\ [w EXCEPT !.authVersion = v].authVersion = v
      /\ [w EXCEPT !.authVersion = v].lastStep = w.lastStep
  BY DEF UserRow
<1> QED
  BY <1>5, <1>6, <1>7, <1>8

\* A new secret, or none, leaves the password alone.
LEMMA NewSecret ==
    ASSUME NEW u \in UserRow, NEW s \in Nat, NEW r, r = [u EXCEPT !.secret = s, !.lastStep = 0]
    PROVE  r \in UserRow /\ r.authVersion = u.authVersion /\ r.password = u.password
<1>1. PICK w \in UserRow : w = [u EXCEPT !.secret = s]
  BY DEF UserRow
<1>2. w.authVersion = u.authVersion /\ w.password = u.password
  BY <1>1 DEF UserRow
<1>3. r = [w EXCEPT !.lastStep = 0]
  BY <1>1 DEF UserRow
<1>4. /\ [w EXCEPT !.lastStep = 0] \in UserRow
      /\ [w EXCEPT !.lastStep = 0].authVersion = w.authVersion
      /\ [w EXCEPT !.lastStep = 0].password = w.password
  BY DEF UserRow
<1> QED
  BY <1>2, <1>3, <1>4

LEMMA AppSwitched ==
    ASSUME NEW u \in UserRow, NEW e \in BOOLEAN, NEW r, r = [u EXCEPT !.enabled = e]
    PROVE  /\ r \in UserRow /\ r.authVersion = u.authVersion /\ r.password = u.password
           /\ r.lastStep = u.lastStep
BY DEF UserRow

\* Sign-in: the token is of the version that was read.
LEMMA LoginKeeps ==
    ASSUME AccountInv, NEW q \in AccountRequests, NEW b \in Browsers,
           \/ \E step \in CodesNow : Login(q, b, step)
           \/ FindDevice(q) \/ SignIn(q)
    PROVE  AccountInv'
<1>1. ASSUME NEW step \in CodesNow, Login(q, b, step)
      PROVE  AccountInv'
  <2> DEFINE r == [pc |-> IF user.enabled THEN "code" ELSE "device", row |-> user,
                   browser |-> b, step |-> IF user.enabled THEN step ELSE NoStep]
  <2>1. Goes(q, r) /\ calls' = calls + 1 /\ UNCHANGED <<user, links, devices, session, totpStep, taken>>
    BY <1>1 DEF Login, Begins
  <2>2. r.pc \in {"code", "device"} /\ r.row = user /\ r.browser = b /\ r.step \in Int
    BY DEF CodesNow, AccountInv, NoStep
  <2>3. OfItsVersion(user, user.authVersion, user.password)
    BY DEF OfItsVersion, AccountInv, UserRow
  <2>4. calls' \in Nat
    BY <2>1 DEF AccountInv
  <2> HIDE DEF r
  <2> QED
    BY <2>1, <2>2, <2>3, <2>4, CallMoves DEF AccountInv
<1>2. CASE FindDevice(q)
  <2> DEFINE w == call[q]
             r == [pc |-> "token", row |-> w.row, browser |-> w.browser, known |-> w.browser \in devices]
  <2>1. /\ w.pc = "device" /\ Goes(q, r)
        /\ UNCHANGED <<user, links, devices, session, calls, totpStep, taken>>
    BY <1>2 DEF FindDevice
  <2>2. r.pc = "token" /\ r.row = w.row /\ r.browser = w.browser
    OBVIOUS
  <2>3. w.browser \in Browsers /\ OfItsVersion(user, w.row.authVersion, w.row.password)
    BY <2>1 DEF AccountInv, CallOK
  <2> HIDE DEF r
  <2> QED
    BY <2>1, <2>2, <2>3, CallMoves DEF AccountInv
<1>3. CASE SignIn(q)
  <2> DEFINE w == call[q]
  <2>1. /\ w.pc = "token" /\ Goes(q, NoRequest)
        /\ UNCHANGED <<user, links, calls, totpStep, taken>>
        /\ \/ session' = session
           \/ session' = [session EXCEPT ![w.browser] = [ver |-> w.row.authVersion, password |-> w.row.password]]
    BY <1>3 DEF SignIn
  <2>2. w.browser \in Browsers /\ OfItsVersion(user, w.row.authVersion, w.row.password)
    BY <2>1 DEF AccountInv, CallOK
  <2>3. DOMAIN session' = Browsers
    BY <2>1 DEF AccountInv
  <2>4. \A c \in Browsers : session'[c] # NoSession => OfItsVersion(user, session'[c].ver, session'[c].password)
    BY <2>1, <2>2 DEF AccountInv
  <2>5. NoRequest.pc = "idle"
    BY DEF NoRequest
  <2> QED
    BY <2>1, <2>3, <2>4, <2>5, CallMoves DEF AccountInv
<1> QED
  BY <1>1, <1>2, <1>3

\* Passwords: a new one spends the links; a link that was spent sets none.
LEMMA PasswordKeeps ==
    ASSUME AccountInv, NEW q \in AccountRequests,
           \/ \E b \in Browsers : ChangePassword(q, b)
           \/ \E l \in DOMAIN links : ResetPassword(q, l)
           \/ WritePassword(q) \/ SpendLinks(q) \/ RequestReset(q) \/ CreateLink(q) \/ WriteReset(q)
    PROVE  AccountInv'
<1>1. ASSUME NEW b \in Browsers, ChangePassword(q, b)
      PROVE  AccountInv'
  <2>1. /\ Goes(q, [pc |-> "change", password |-> calls']) /\ calls' = calls + 1
        /\ UNCHANGED <<user, links, devices, session, totpStep, taken>>
    BY <1>1 DEF ChangePassword, Begins
  <2> QED
    BY <2>1, CallMoves DEF AccountInv
<1>2. ASSUME NEW l \in DOMAIN links, ResetPassword(q, l)
      PROVE  AccountInv'
  <2>1. /\ Goes(q, [pc |-> "reset", link |-> l, password |-> calls']) /\ calls' = calls + 1
        /\ UNCHANGED <<user, links, devices, session, totpStep, taken>>
    BY <1>2 DEF ResetPassword, Begins
  <2> QED
    BY <2>1, CallMoves DEF AccountInv
<1>3. CASE WritePassword(q)
  <2>1. /\ call[q].pc = "change" /\ user' = Repassworded(call[q].password)
        /\ Goes(q, [pc |-> "spend"])
        /\ UNCHANGED <<links, devices, session, calls, totpStep, taken>>
    BY <1>3 DEF WritePassword
  <2>2. call[q].password \in Nat
    BY <2>1 DEF AccountInv, CallOK
  <2> QED
    BY <2>1, <2>2, NewVersion, RequestEnds DEF AccountInv
<1>4. CASE SpendLinks(q)
  <2>1. links' = LinksSpent /\ Goes(q, NoRequest) /\ UNCHANGED <<user, devices, session, calls, totpStep, taken>>
    BY <1>4 DEF SpendLinks
  <2>2. /\ links' \in Seq(ResetLink) /\ DOMAIN links' = DOMAIN links
        /\ \A l \in DOMAIN links' : links'[l].resets <= 1 /\ links'[l].usedAt
    BY <2>1, SpentLinks DEF AccountInv
  <2>3. NoRequest.pc = "idle"
    BY DEF NoRequest
  <2> QED
    BY <2>1, <2>2, <2>3, RequestEnds DEF AccountInv
<1>5. CASE RequestReset(q)
  <2>1. links' = LinksSpent /\ Goes(q, [pc |-> "link"]) /\ calls' = calls + 1
        /\ UNCHANGED <<user, devices, session, totpStep, taken>>
    BY <1>5 DEF RequestReset, Begins
  <2>2. /\ links' \in Seq(ResetLink) /\ DOMAIN links' = DOMAIN links
        /\ \A l \in DOMAIN links' : links'[l].resets <= 1 /\ links'[l].usedAt
    BY <2>1, SpentLinks DEF AccountInv
  <2>3. calls' \in Nat
    BY <2>1 DEF AccountInv
  <2> QED
    BY <2>1, <2>2, <2>3, RequestEnds DEF AccountInv
<1>6. CASE CreateLink(q)
  <2> DEFINE new == [usedAt |-> FALSE, expired |-> FALSE, resets |-> 0]
  <2>1. links' = Append(links, new) /\ Goes(q, NoRequest)
        /\ UNCHANGED <<user, devices, session, calls, totpStep, taken>>
    BY <1>6 DEF CreateLink
  <2>2. new \in ResetLink /\ new.resets = 0 /\ links \in Seq(ResetLink)
    BY DEF ResetLink, AccountInv
  <2> HIDE DEF new
  <2>3. /\ links' \in Seq(ResetLink) /\ DOMAIN links \subseteq DOMAIN links'
        /\ \A l \in DOMAIN links' : links'[l] = new \/ (l \in DOMAIN links /\ links'[l] = links[l])
    BY <2>1, <2>2
  <2>4. \A l \in DOMAIN links' : links'[l].resets <= 1 /\ (~links'[l].usedAt => links'[l].resets = 0)
    BY <2>2, <2>3 DEF AccountInv
  <2>5. NoRequest.pc = "idle"
    BY DEF NoRequest
  <2> QED
    BY <2>1, <2>3, <2>4, <2>5, RequestEnds DEF AccountInv
<1>7. CASE WriteReset(q)
  <2> DEFINE l == call[q].link
  <2>1. /\ call[q].pc = "reset" /\ Goes(q, NoRequest)
        /\ UNCHANGED <<devices, session, calls, totpStep, taken>>
        /\ \/ UNCHANGED <<user, links>>
           \/ /\ Usable(l)
              /\ user' = Repassworded(call[q].password)
              /\ links' = [LinksSpent EXCEPT ![l].resets = @ + 1]
    BY <1>7 DEF WriteReset
  <2>2. call[q].password \in Nat /\ l \in DOMAIN links
    BY <2>1 DEF AccountInv, CallOK
  <2>3. NoRequest.pc = "idle"
    BY DEF NoRequest
  <2>4. CASE UNCHANGED <<user, links>>
    BY <2>1, <2>3, <2>4, RequestEnds DEF AccountInv
  <2>5. CASE /\ Usable(l)
             /\ user' = Repassworded(call[q].password)
             /\ links' = [LinksSpent EXCEPT ![l].resets = @ + 1]
    <3>1. links[l].resets = 0
      BY <2>2, <2>5 DEF Usable, AccountInv
    <3>2. /\ LinksSpent \in Seq(ResetLink) /\ DOMAIN LinksSpent = DOMAIN links
          /\ \A k \in DOMAIN links : LinksSpent[k].usedAt /\ LinksSpent[k].resets = links[k].resets
      BY SpentLinks DEF AccountInv
    <3> HIDE DEF l
    <3>3. /\ links' \in Seq(ResetLink) /\ DOMAIN links' = DOMAIN links
          /\ \A k \in DOMAIN links : links'[k].usedAt /\ links'[k].resets <= 1
      <4>1. /\ [LinksSpent[l] EXCEPT !.resets = @ + 1] \in ResetLink
            /\ [LinksSpent[l] EXCEPT !.resets = @ + 1].usedAt
            /\ [LinksSpent[l] EXCEPT !.resets = @ + 1].resets = 1
        <5>1. LinksSpent[l] \in ResetLink /\ LinksSpent[l].usedAt /\ LinksSpent[l].resets = 0
          BY <2>2, <3>1, <3>2
        <5> QED
          BY <5>1 DEF ResetLink
      <4>2. links' = [LinksSpent EXCEPT ![l] = [LinksSpent[l] EXCEPT !.resets = @ + 1]]
        BY <2>5
      <4>3. links' \in Seq(ResetLink)
        BY <2>2, <3>2, <4>1, <4>2, ExceptSeq
      <4>4. /\ DOMAIN links' = DOMAIN links /\ links'[l].usedAt /\ links'[l].resets = 1
            /\ \A k \in DOMAIN links \ {l} : links'[k] = LinksSpent[k]
        BY <2>2, <3>2, <4>1, <4>2
      <4> QED
        BY <3>2, <4>3, <4>4 DEF AccountInv
    <3>4. /\ user' \in UserRow /\ user'.authVersion = user.authVersion + 1
          /\ user'.lastStep = user.lastStep
      BY <2>2, <2>5, NewVersion
    <3>5. \A c \in taken' : c.nr = 0 /\ c.step \in Int /\ c.step <= user'.lastStep
      BY <2>1, <3>4 DEF AccountInv
    <3>6. Goes(q, NoRequest) /\ UNCHANGED <<session, totpStep>> /\ calls' \in Nat
      BY <2>1 DEF AccountInv
    <3> QED
      BY <2>3, <3>3, <3>4, <3>5, <3>6, RequestEnds
  <2> QED
    BY <2>1, <2>4, <2>5
<1> QED
  BY <1>1, <1>2, <1>3, <1>4, <1>5, <1>6, <1>7

\* The app: a new secret, or none, forgets the codes of the old one.
LEMMA AppKeeps ==
    ASSUME AccountInv, NEW q \in AccountRequests,
           \/ \E b \in Browsers : Setup(q, b) \/ \E step \in CodesNow : Confirm(q, b, step)
           \/ WriteSecret(q) \/ SwitchApp(q)
    PROVE  AccountInv'
<1>1. ASSUME NEW b \in Browsers, Setup(q, b)
      PROVE  AccountInv'
  <2>1. /\ Goes(q, [pc |-> "setup", secret |-> calls']) /\ calls' = calls + 1
        /\ UNCHANGED <<user, links, devices, session, totpStep, taken>>
    BY <1>1 DEF Setup, Begins
  <2> QED
    BY <2>1, CallMoves DEF AccountInv
<1>2. ASSUME NEW b \in Browsers, NEW step \in CodesNow, Confirm(q, b, step)
      PROVE  AccountInv'
  <2> DEFINE r == [pc |-> IF user.enabled THEN "disable" ELSE "enable", row |-> user, step |-> step]
  <2>1. /\ Goes(q, r) /\ calls' = calls + 1
        /\ UNCHANGED <<user, links, devices, session, totpStep, taken>>
    BY <1>2 DEF Confirm, Begins
  <2>2. r.pc \in {"disable", "enable"} /\ r.step \in Int
    BY DEF CodesNow, AccountInv
  <2>3. calls' \in Nat
    BY <2>1 DEF AccountInv
  <2> HIDE DEF r
  <2> QED
    BY <2>1, <2>2, <2>3, CallMoves DEF AccountInv
<1>3. CASE WriteSecret(q)
  <2>1. /\ call[q].pc = "setup" /\ user' = [user EXCEPT !.secret = call[q].secret, !.lastStep = NoStep]
        /\ taken' = {} /\ Goes(q, NoRequest)
        /\ UNCHANGED <<links, devices, session, calls, totpStep>>
    BY <1>3 DEF WriteSecret
  <2>2. call[q].secret \in Nat /\ NoRequest.pc = "idle"
    BY <2>1 DEF AccountInv, CallOK, NoRequest
  <2>3. user' \in UserRow /\ user'.authVersion = user.authVersion /\ user'.password = user.password
    <3>1. user \in UserRow
      BY DEF AccountInv
    <3>2. user' = [user EXCEPT !.secret = call[q].secret, !.lastStep = 0]
      BY <2>1 DEF NoStep
    <3> QED
      BY <2>2, <3>1, <3>2, NewSecret
  <2> QED
    BY <2>1, <2>2, <2>3, RequestEnds DEF AccountInv
<1>4. CASE SwitchApp(q)
  <2>1. /\ \/ user' = [user EXCEPT !.enabled = TRUE] /\ taken' = taken
           \/ user' = [user EXCEPT !.enabled = FALSE, !.secret = 0, !.lastStep = NoStep] /\ taken' = {}
        /\ Goes(q, NoRequest)
        /\ UNCHANGED <<links, devices, session, calls, totpStep>>
    BY <1>4 DEF SwitchApp
  <2>2. /\ user' \in UserRow /\ user'.authVersion = user.authVersion /\ user'.password = user.password
        /\ taken' = {} \/ (taken' = taken /\ user'.lastStep = user.lastStep)
    <3>1. user \in UserRow
      BY DEF AccountInv
    <3>2. CASE user' = [user EXCEPT !.enabled = TRUE] /\ taken' = taken
      BY <3>1, <3>2, AppSwitched
    <3>3. CASE user' = [user EXCEPT !.enabled = FALSE, !.secret = 0, !.lastStep = 0] /\ taken' = {}
      <4>1. PICK w : w = [user EXCEPT !.enabled = FALSE]
        OBVIOUS
      <4>2. w \in UserRow /\ w.authVersion = user.authVersion /\ w.password = user.password
        BY <3>1, <4>1, AppSwitched
      <4>3. user' = [w EXCEPT !.secret = 0, !.lastStep = 0]
        BY <3>1, <3>3, <4>1, <4>2 DEF UserRow
      <4>4. user' \in UserRow /\ user'.authVersion = w.authVersion /\ user'.password = w.password
        BY <4>2, <4>3, NewSecret
      <4> QED
        BY <3>3, <4>2, <4>4
    <3> QED
      BY <2>1, <3>2, <3>3 DEF NoStep
  <2>3. NoRequest.pc = "idle"
    BY DEF NoRequest
  <2> QED
    BY <2>1, <2>2, <2>3, RequestEnds DEF AccountInv
<1> QED
  BY <1>1, <1>2, <1>3, <1>4

LEMMA AccountInvInit == AccountInit => AccountInv
<1> SUFFICES ASSUME AccountInit
             PROVE  AccountInv
  OBVIOUS
<1>1. user \in UserRow /\ user.authVersion = 0 /\ user.password = 1 /\ links \in Seq(ResetLink) /\ links = <<>>
  BY DEF AccountInit, UserRow, NoStep
<1>2. \A q \in AccountRequests : call[q].pc = "idle"
  BY DEF AccountInit, NoRequest
<1>3. \A q \in AccountRequests : CallOK(q)
  BY <1>2 DEF CallOK
<1>4. \A b \in Browsers : OfItsVersion(user, session[b].ver, session[b].password)
  BY <1>1 DEF AccountInit, OfItsVersion
<1>5. /\ DOMAIN session = Browsers /\ DOMAIN call = AccountRequests
      /\ calls \in Nat /\ totpStep \in Int /\ taken = {} /\ DOMAIN links = {}
  BY DEF AccountInit
<1> QED
  BY <1>1, <1>3, <1>4, <1>5 DEF AccountInv

LEMMA AccountInvStep == ASSUME AccountInv, [AccountNext]_accountVars PROVE AccountInv'
<1>1. ASSUME NEW q \in AccountRequests, LoginCode(q) \/ ConfirmCode(q)
      PROVE  AccountInv'
  <2>1. CASE LoginCode(q)
    <3> DEFINE next == [call[q] EXCEPT !.pc = "device"]
    <3>1. call[q].pc = "code" /\ Consume(q, next)
      BY <2>1 DEF LoginCode
    <3>2. next.pc = "device" /\ next.row = call[q].row /\ next.browser = call[q].browser
      OBVIOUS
    <3> HIDE DEF next
    <3> QED
      BY <3>1, <3>2, ConsumeKeeps
  <2>2. CASE ConfirmCode(q)
    BY <2>2, ConsumeKeeps DEF ConfirmCode
  <2> QED
    BY <1>1, <2>1, <2>2
<1>2. ASSUME NEW b \in Browsers, DropSession(b)
      PROVE  AccountInv'
  <2>1. /\ session' = [session EXCEPT ![b] = NoSession]
        /\ UNCHANGED <<user, links, call, calls, totpStep, taken>>
    BY <1>2 DEF DropSession
  <2>2. \A q \in AccountRequests : CallOK(q)'
    BY <2>1 DEF AccountInv, CallOK
  <2> QED
    BY <2>1, <2>2 DEF AccountInv
<1>3. ASSUME NEW l \in DOMAIN links, LinkExpires(l)
      PROVE  AccountInv'
  <2>1. /\ links' = [links EXCEPT ![l] = [links[l] EXCEPT !.expired = TRUE]]
        /\ UNCHANGED <<user, session, call, calls, totpStep, taken>>
    BY <1>3 DEF LinkExpires
  <2>2. links \in Seq(ResetLink) /\ links[l] \in ResetLink
    BY DEF AccountInv
  <2>3. [links[l] EXCEPT !.expired = TRUE] \in ResetLink
    BY <2>2 DEF ResetLink
  <2>4. links' \in Seq(ResetLink) /\ DOMAIN links' = DOMAIN links
    BY <2>1, <2>2, <2>3, ExceptSeq
  <2>5. \A k \in DOMAIN links : links'[k].resets = links[k].resets /\ links'[k].usedAt = links[k].usedAt
    BY <2>1, <2>2 DEF ResetLink
  <2>6. \A q \in AccountRequests : CallOK(q)'
    BY <2>1, <2>4 DEF AccountInv, CallOK
  <2> QED
    BY <2>1, <2>4, <2>5, <2>6 DEF AccountInv
<1>4. CASE StepPasses
  <2>1. totpStep' \in Int /\ UNCHANGED <<user, links, session, call, calls, taken>>
    BY <1>4 DEF StepPasses, AccountInv
  <2>2. \A q \in AccountRequests : CallOK(q)'
    BY <2>1 DEF AccountInv, CallOK
  <2> QED
    BY <2>1, <2>2 DEF AccountInv
<1>5. CASE UNCHANGED accountVars
  BY <1>5 DEF accountVars, AccountInv, CallOK
<1>6. ASSUME NEW q \in AccountRequests,
             \/ \E b \in Browsers : \/ ChangePassword(q, b) \/ Setup(q, b)
                                    \/ \E step \in CodesNow : Login(q, b, step) \/ Confirm(q, b, step)
             \/ \E l \in DOMAIN links : ResetPassword(q, l)
             \/ WritePassword(q) \/ SpendLinks(q)
             \/ RequestReset(q) \/ CreateLink(q) \/ WriteReset(q)
             \/ WriteSecret(q) \/ SwitchApp(q)
      PROVE  AccountInv'
  BY <1>6, LoginKeeps, PasswordKeeps, AppKeeps
<1>7. ASSUME NEW q \in AccountRequests, FindDevice(q) \/ SignIn(q)
      PROVE  AccountInv'
  <2>1. call[q].pc \in {"device", "token"}
    BY <1>7 DEF FindDevice, SignIn
  <2>2. call[q].browser \in Browsers
    BY <2>1 DEF AccountInv, CallOK
  <2> QED
    BY <1>7, <2>2, LoginKeeps
<1> QED
  BY <1>1, <1>2, <1>3, <1>4, <1>5, <1>6, <1>7 DEF AccountNext

\* However requests of one user overlap, a token that is accepted was given for the
\* password in force, a code signs in once and a reset link sets one password
\* (auth.service.ts, two-factor.service.ts).
THEOREM AccountsAreSound == AccountSpec => []AccountsSound
<1>1. AccountInv => AccountsSound
  BY DEF AccountInv, AccountsSound, Accepted, OfItsVersion
<1> QED
  BY <1>1, AccountInvInit, AccountInvStep, PTL DEF AccountSpec

-----------------------------------------------------------------------------
(* Notifications: the counters of the webhook add up. *)

HookOK(h) == /\ h.state \in {"none", "skipped"} => h.attempt = 0
             /\ h.state = "delay" => h.attempt < MaxHookTries
             /\ h.state \in {"call", "delivered", "failed"} => h.attempt > 0

Begun == {n \in InFlight : hook[n].attempt > 0}

\* The rounds of all deliveries.
Rounds == SumOf([n \in Notes |-> hook[n].attempt], Notes)

Outcomes(m) == m.delivered + m.failed
Opened(m) == m.attempted - m.retried

\* Every state of the counters that is kept anywhere explains its outcomes.
Explained(m) == m \in Counters /\ Opened(m) >= Outcomes(m) /\ m.attempted <= Rounds

DeliveryInv ==
    /\ hook \in [Notes -> HookRow] /\ (\A n \in Notes : HookOK(hook[n]))
    /\ Explained(metrics) /\ (\A m \in saving : Explained(m))
    /\ snapshots \in Seq(Counters) /\ (\A i \in 1..Len(snapshots) : Explained(snapshots[i]))
    /\ Opened(metrics) >= Outcomes(metrics) + Cardinality(Begun)
    /\ restarts \in Nat
    /\ (restarts = 0 => Opened(metrics) = Outcomes(metrics) + Cardinality(Begun))

LEMMA DeliveryFacts ==
    ASSUME DeliveryInv
    PROVE  /\ IsFiniteSet(Notes) /\ MaxHookTries \in Nat /\ Rounds \in Int
           /\ IsFiniteSet(Begun) /\ Cardinality(Begun) \in Nat
           /\ Rounds <= MaxHookTries * Cardinality(Notes)
<1> DEFINE f == [n \in Notes |-> hook[n].attempt]
<1>1. IsFiniteSet(Notes) /\ MaxHookTries \in Nat
  BY DeliveryAssumption
<1>2. \A n \in Notes : f[n] \in Int /\ f[n] <= MaxHookTries
  BY <1>1 DEF DeliveryInv, HookRow
<1>3. Rounds = SumOf(f, Notes)
  BY DEF Rounds
<1>4. IsFiniteSet(Begun) /\ Cardinality(Begun) \in Nat
  BY <1>1, FS_Subset, FS_CardinalityType DEF Begun, InFlight
<1> HIDE DEF f
<1> QED BY <1>1, <1>2, <1>3, <1>4, SumInteger, SumBounded

LEMMA DeliveryInvInit == DeliveryInit => DeliveryInv
<1> SUFFICES ASSUME DeliveryInit PROVE DeliveryInv
  OBVIOUS
<1> DEFINE f == [n \in Notes |-> hook[n].attempt]
<1>1. IsFiniteSet(Notes) /\ MaxHookTries \in Nat /\ 0 \in 0..MaxHookTries
  BY DeliveryAssumption
<1>2. hook \in [Notes -> HookRow] /\ (\A n \in Notes : HookOK(hook[n])) /\ \A n \in Notes : hook[n].attempt = 0
  BY <1>1 DEF DeliveryInit, NoHook, HookRow, HookOK
<1>3. Rounds >= 0
  <2>1. \A n \in Notes : f[n] \in Nat
    BY <1>2
  <2>2. Rounds = SumOf(f, Notes)
    BY DEF Rounds
  <2> HIDE DEF f
  <2> QED BY <1>1, <2>1, <2>2, SumNonNegative
<1>4. metrics = NoMetrics /\ saving = {} /\ snapshots = <<>> /\ restarts = 0
  BY DEF DeliveryInit
<1>5. Begun = {} /\ Cardinality(Begun) = 0
  <2>1. Begun = {}
    BY <1>2 DEF Begun, InFlight
  <2> QED BY <2>1, FS_EmptySet
<1>6. NoMetrics \in Counters /\ Opened(NoMetrics) = 0 /\ Outcomes(NoMetrics) = 0 /\ NoMetrics.attempted = 0
  BY DEF NoMetrics, Counters, Opened, Outcomes
<1>7. Explained(metrics)
  BY <1>3, <1>4, <1>6 DEF Explained
<1>8. snapshots \in Seq(Counters) /\ Len(snapshots) = 0
  BY <1>4
<1> QED BY <1>2, <1>4, <1>5, <1>6, <1>7, <1>8 DEF DeliveryInv

\* Nothing happens to a delivery that has begun, or to the counters.
LEMMA QuietDelivery ==
    ASSUME DeliveryInv, hook' \in [Notes -> HookRow], \A n \in Notes : HookOK(hook'[n]),
           \A n \in Notes : hook'[n].attempt = hook[n].attempt,
           \A n \in Notes : hook[n].attempt > 0 =>
               (hook'[n].state \in {"call", "delay"} <=> hook[n].state \in {"call", "delay"}),
           UNCHANGED <<metrics, restarts>>,
           \A m \in saving' : m \in saving,
           snapshots' \in Seq(Counters),
           \A i \in 1..Len(snapshots') :
              snapshots'[i] \in saving \/ \E j \in 1..Len(snapshots) : snapshots'[i] = snapshots[j]
    PROVE  DeliveryInv'
<1> DEFINE f == [n \in Notes |-> hook[n].attempt]
           e == [n \in Notes |-> hook'[n].attempt]
<1>1. Rounds' = Rounds
  <2>1. f = e
    OBVIOUS
  <2> QED BY <2>1 DEF Rounds
<1>2. Begun' = Begun
  BY DEF Begun, InFlight
<1>3. \A m : Explained(m) => Explained(m)'
  BY <1>1 DEF Explained, Opened, Outcomes
<1>4. Explained(metrics)' /\ (\A m \in saving' : Explained(m)')
      /\ \A i \in 1..Len(snapshots') : Explained(snapshots[i])'
  <2>1. Explained(metrics)'
    BY <1>1 DEF DeliveryInv, Explained, Opened, Outcomes
  <2>2. \A m \in saving' : Explained(m)'
    BY <1>3 DEF DeliveryInv
  <2>3. ASSUME NEW i \in 1..Len(snapshots') PROVE Explained(snapshots[i])'
    <3>1. PICK m : m = snapshots'[i]
      OBVIOUS
    <3>2. Explained(m)
      BY <3>1 DEF DeliveryInv
    <3> QED BY <1>1, <3>1, <3>2 DEF Explained, Opened, Outcomes
  <2> QED BY <2>1, <2>2, <2>3
<1>5. /\ (Opened(metrics) >= Outcomes(metrics) + Cardinality(Begun))'
      /\ (restarts = 0 => Opened(metrics) = Outcomes(metrics) + Cardinality(Begun))'
      /\ restarts' \in Nat
  BY <1>2 DEF DeliveryInv, Opened, Outcomes
<1> QED BY <1>4, <1>5 DEF DeliveryInv

LEMMA AttemptKeeps ==
    ASSUME DeliveryInv, NEW n \in Notes, AttemptHook(n)
    PROVE  DeliveryInv'
<1> DEFINE h == [state |-> "call", attempt |-> hook[n].attempt + 1]
           again == hook[n].attempt > 0
<1>1. /\ hook[n] \in HookRow /\ HookOK(hook[n]) /\ hook[n].state = "delay" /\ hook[n].attempt \in 0..MaxHookTries
      /\ hook[n].attempt < MaxHookTries /\ MaxHookTries \in Nat /\ metrics \in Counters
  BY DeliveryFacts DEF DeliveryInv, AttemptHook, HookRow, HookOK, Explained
<1>2. h \in HookRow /\ HookOK(h)
  BY <1>1 DEF HookRow, HookOK
<1>3. hook' = [hook EXCEPT ![n] = h] /\ UNCHANGED <<saving, snapshots, restarts>>
  BY DEF AttemptHook
<1>4. hook' \in [Notes -> HookRow] /\ hook'[n] = h /\ \A p \in Notes : p # n => hook'[p] = hook[p]
  BY <1>2, <1>3 DEF DeliveryInv
<1>5. \A p \in Notes : HookOK(hook'[p])
  BY <1>2, <1>4 DEF DeliveryInv
<1>6. Rounds' = Rounds + 1 /\ Rounds \in Int
  <2> DEFINE f == [p \in Notes |-> hook[p].attempt]
             e == [p \in Notes |-> hook'[p].attempt]
  <2>1. (\A p \in Notes : f[p] \in Int /\ e[p] \in Int) /\ (\A p \in Notes : p # n => e[p] = f[p])
        /\ e[n] = f[n] + 1
    BY <1>4 DEF DeliveryInv, HookRow
  <2>2. Rounds = SumOf(f, Notes) /\ Rounds' = SumOf(e, Notes) /\ IsFiniteSet(Notes)
    BY DeliveryAssumption DEF Rounds
  <2> HIDE DEF f, e
  <2>3. SumOf(e, Notes) = SumOf(f, Notes) - f[n] + e[n] /\ SumOf(f, Notes) \in Int
    BY <2>1, <2>2, SumChanges, SumInteger
  <2>4. f[n] \in Int
    BY <2>1
  <2> QED BY <2>1, <2>2, <2>3, <2>4
<1>7. PICK m : m = [metrics EXCEPT !.attempted = metrics.attempted + 1,
                                   !.retried = IF again THEN metrics.retried + 1 ELSE metrics.retried]
  OBVIOUS
<1>8. /\ m \in Counters /\ m.attempted = metrics.attempted + 1 /\ Outcomes(m) = Outcomes(metrics)
      /\ m.retried = IF again THEN metrics.retried + 1 ELSE metrics.retried
  <2>1. PICK w : w = [metrics EXCEPT !.attempted = metrics.attempted + 1]
    OBVIOUS
  <2>2. w \in Counters /\ w.attempted = metrics.attempted + 1 /\ w.retried = metrics.retried
        /\ w.delivered = metrics.delivered /\ w.failed = metrics.failed
    BY <1>1, <2>1 DEF Counters
  <2>3. m = [w EXCEPT !.retried = IF again THEN metrics.retried + 1 ELSE metrics.retried]
    BY <1>7, <2>1
  <2>4. metrics.retried \in Nat
    BY <1>1 DEF Counters
  <2> HIDE DEF again
  <2> QED BY <2>2, <2>3, <2>4 DEF Counters, Outcomes
<1>9. metrics' = m
  BY <1>1, <1>7 DEF AttemptHook, IsRetry
<1>10. Cardinality(Begun') = Cardinality(Begun) + (IF again THEN 0 ELSE 1)
  <2>1. CASE again
    <3>1. Begun' = Begun
      BY <1>1, <1>4, <2>1 DEF Begun, InFlight
    <3> QED BY <2>1, <3>1, DeliveryFacts
  <2>2. CASE ~again
    <3>1. Begun' = Begun \cup {n} /\ n \notin Begun
      BY <1>1, <1>4, <2>2 DEF Begun, InFlight
    <3>2. Cardinality(Begun \cup {n}) = Cardinality(Begun) + 1
      BY <3>1, DeliveryFacts, FS_AddElement
    <3> QED BY <2>2, <3>1, <3>2
  <2> QED BY <2>1, <2>2
<1>11. Opened(m) = Opened(metrics) + (IF again THEN 0 ELSE 1)
  BY <1>1, <1>8 DEF Opened, Counters
<1>12. Opened(metrics) \in Int /\ Outcomes(metrics) \in Nat /\ Cardinality(Begun) \in Nat
  BY <1>1, DeliveryFacts DEF Opened, Outcomes, Counters
<1> HIDE DEF h, again
<1>13. /\ Opened(m) >= Outcomes(m) + Cardinality(Begun')
       /\ (restarts = 0 => Opened(m) = Outcomes(m) + Cardinality(Begun'))
  BY <1>8, <1>10, <1>11, <1>12 DEF DeliveryInv
<1>14. Explained(m)'
  <2>1. Opened(m) >= Outcomes(m)
    <3>1. Cardinality(Begun') \in Nat
      BY <1>10, <1>12
    <3>2. Outcomes(m) \in Nat /\ Opened(m) \in Int
      BY <1>8, <1>11, <1>12
    <3> QED BY <1>13, <3>1, <3>2
  <2>2. m.attempted <= Rounds'
    BY <1>1, <1>6, <1>8 DEF DeliveryInv, Explained, Counters
  <2> QED BY <1>8, <2>1, <2>2 DEF Explained, Opened, Outcomes
<1>15. \A k : Explained(k) => Explained(k)'
  BY <1>6 DEF Explained, Opened, Outcomes, Counters
<1>16. (\A k \in saving' : Explained(k)') /\ \A i \in 1..Len(snapshots') : Explained(snapshots[i])'
  <2>1. \A k \in saving' : Explained(k)'
    BY <1>3, <1>15 DEF DeliveryInv
  <2>2. ASSUME NEW i \in 1..Len(snapshots') PROVE Explained(snapshots[i])'
    <3>1. PICK k : k = snapshots[i]
      OBVIOUS
    <3>2. Explained(k)'
      BY <1>3, <1>15, <3>1 DEF DeliveryInv
    <3> QED BY <1>3, <3>1, <3>2 DEF Explained, Opened, Outcomes
  <2> QED BY <2>1, <2>2
<1>17. Explained(metrics)' /\ (Opened(metrics) >= Outcomes(metrics) + Cardinality(Begun))'
       /\ (restarts = 0 => Opened(metrics) = Outcomes(metrics) + Cardinality(Begun))'
  BY <1>3, <1>9, <1>13, <1>14 DEF Explained, Opened, Outcomes
<1> QED BY <1>3, <1>4, <1>5, <1>16, <1>17 DEF DeliveryInv

LEMMA EndKeeps ==
    ASSUME DeliveryInv, NEW n \in Notes, NEW counter \in {"delivered", "failed"},
           hook[n].state = "call", EndHook(n, counter), UNCHANGED <<snapshots, restarts>>
    PROVE  DeliveryInv'
<1>1. /\ hook[n] \in HookRow /\ HookOK(hook[n]) /\ metrics \in Counters /\ hook[n].attempt \in 0..MaxHookTries
      /\ hook[n].attempt > 0
  BY DEF DeliveryInv, HookRow, HookOK, Explained
<1>2. PICK h : h = [hook[n] EXCEPT !.state = counter]
  OBVIOUS
<1>3. h \in HookRow /\ HookOK(h) /\ h.attempt = hook[n].attempt /\ h.state = counter
  BY <1>1, <1>2 DEF HookRow, HookOK
<1>4. hook' = [hook EXCEPT ![n] = h]
  BY <1>2 DEF EndHook
<1>5. hook' \in [Notes -> HookRow] /\ hook'[n] = h /\ \A p \in Notes : p # n => hook'[p] = hook[p]
  BY <1>3, <1>4 DEF DeliveryInv
<1>6. (\A p \in Notes : HookOK(hook'[p])) /\ \A p \in Notes : hook'[p].attempt = hook[p].attempt
  BY <1>3, <1>5 DEF DeliveryInv
<1>7. Rounds' = Rounds
  <2>1. [p \in Notes |-> hook[p].attempt] = [p \in Notes |-> hook'[p].attempt]
    BY <1>6
  <2> QED BY <2>1 DEF Rounds
<1>8. PICK m : metrics' = m /\ saving' = saving \cup {m}
               /\ m = IF counter = "delivered" THEN [metrics EXCEPT !.delivered = metrics.delivered + 1]
                      ELSE [metrics EXCEPT !.failed = metrics.failed + 1]
  BY DEF EndHook
<1>9. m \in Counters /\ Opened(m) = Opened(metrics) /\ Outcomes(m) = Outcomes(metrics) + 1
      /\ m.attempted = metrics.attempted
  <2>1. CASE counter = "delivered"
    BY <1>1, <1>8, <2>1 DEF Counters, Opened, Outcomes
  <2>2. CASE counter # "delivered"
    BY <1>1, <1>8, <2>2 DEF Counters, Opened, Outcomes
  <2> QED BY <2>1, <2>2
<1>10. Cardinality(Begun') = Cardinality(Begun) - 1
  <2>1. Begun' = Begun \ {n} /\ n \in Begun
    BY <1>1, <1>3, <1>5 DEF Begun, InFlight
  <2>2. Cardinality(Begun \ {n}) = Cardinality(Begun) - 1
    BY <2>1, DeliveryFacts, FS_RemoveElement
  <2> QED BY <2>1, <2>2
<1>11. Opened(metrics) \in Int /\ Outcomes(metrics) \in Nat /\ Cardinality(Begun) \in Nat
       /\ Cardinality(Begun') \in Nat
  <2>1. n \in Begun /\ Cardinality(Begun) # 0
    BY <1>1, DeliveryFacts, FS_EmptySet DEF Begun, InFlight
  <2> QED BY <1>1, <1>10, <2>1, DeliveryFacts DEF Opened, Outcomes, Counters
<1>12. /\ Opened(m) >= Outcomes(m) + Cardinality(Begun')
       /\ (restarts = 0 => Opened(m) = Outcomes(m) + Cardinality(Begun'))
  BY <1>9, <1>10, <1>11 DEF DeliveryInv
<1>13. Explained(m)'
  <2>1. Opened(m) >= Outcomes(m)
    BY <1>9, <1>11, <1>12
  <2>2. m.attempted <= Rounds'
    BY <1>7, <1>9 DEF DeliveryInv, Explained
  <2> QED BY <1>9, <2>1, <2>2 DEF Explained, Opened, Outcomes
<1>14. \A k : Explained(k) => Explained(k)'
  BY <1>7 DEF Explained, Opened, Outcomes
<1>15. (\A k \in saving' : Explained(k)') /\ \A i \in 1..Len(snapshots') : Explained(snapshots[i])'
  <2>1. \A k \in saving' : Explained(k)'
    BY <1>8, <1>13, <1>14 DEF DeliveryInv
  <2>2. ASSUME NEW i \in 1..Len(snapshots') PROVE Explained(snapshots[i])'
    <3>1. PICK k : k = snapshots[i]
      OBVIOUS
    <3>2. Explained(k)'
      BY <1>14, <3>1 DEF DeliveryInv
    <3> QED BY <3>1, <3>2 DEF Explained, Opened, Outcomes
  <2> QED BY <2>1, <2>2
<1>16. Explained(metrics)' /\ (Opened(metrics) >= Outcomes(metrics) + Cardinality(Begun))'
       /\ (restarts = 0 => Opened(metrics) = Outcomes(metrics) + Cardinality(Begun))'
  BY <1>8, <1>12, <1>13 DEF Explained, Opened, Outcomes
<1>17. snapshots' \in Seq(Counters) /\ restarts' \in Nat
  BY DEF DeliveryInv
<1> QED BY <1>5, <1>6, <1>15, <1>16, <1>17 DEF DeliveryInv

LEMMA RestartKeeps == DeliveryInv /\ Restart => DeliveryInv'
<1> SUFFICES ASSUME DeliveryInv, Restart PROVE DeliveryInv'
  OBVIOUS
<1>1. /\ saving' = {} /\ snapshots' = snapshots /\ restarts' = restarts + 1
      /\ metrics' = NoMetrics \/ (snapshots # <<>> /\ metrics' = Last(snapshots))
      /\ hook' = [n \in Notes |-> IF n \in InFlight THEN [hook[n] EXCEPT !.state = "lost"] ELSE hook[n]]
  BY DEF Restart
<1>2. ASSUME NEW n \in Notes
      PROVE  /\ hook'[n] \in HookRow /\ HookOK(hook'[n]) /\ hook'[n].attempt = hook[n].attempt
             /\ hook'[n].state \notin {"call", "delay"}
  <2>1. hook[n] \in HookRow /\ HookOK(hook[n])
    BY DEF DeliveryInv
  <2>2. PICK h : h = hook'[n]
    OBVIOUS
  <2>3. CASE n \in InFlight
    <3>1. h = [hook[n] EXCEPT !.state = "lost"]
      BY <1>1, <2>2, <2>3
    <3> QED BY <2>1, <2>2, <3>1 DEF HookRow, HookOK
  <2>4. CASE n \notin InFlight
    BY <1>1, <2>1, <2>4 DEF InFlight
  <2> QED BY <2>3, <2>4
<1>3. hook' \in [Notes -> HookRow]
  BY <1>1, <1>2
<1>4. Rounds' = Rounds
  <2>1. [p \in Notes |-> hook[p].attempt] = [p \in Notes |-> hook'[p].attempt]
    BY <1>2
  <2> QED BY <2>1 DEF Rounds
<1>5. Begun' = {} /\ Cardinality(Begun') = 0
  <2>1. Begun' = {}
    BY <1>2 DEF Begun, InFlight
  <2> QED BY <2>1, FS_EmptySet
<1>6. Explained(metrics')
  <2>1. CASE metrics' = NoMetrics
    <3>1. NoMetrics \in Counters /\ Opened(NoMetrics) = 0 /\ Outcomes(NoMetrics) = 0 /\ NoMetrics.attempted = 0
      BY DEF NoMetrics, Counters, Opened, Outcomes
    <3>2. Rounds >= 0
      BY DeliveryFacts DEF DeliveryInv, Explained, Counters
    <3> QED BY <2>1, <3>1, <3>2 DEF Explained
  <2>2. CASE snapshots # <<>> /\ metrics' = Last(snapshots)
    <3>1. Len(snapshots) \in 1..Len(snapshots)
      BY <2>2, EmptySeq DEF DeliveryInv
    <3> QED BY <2>2, <3>1 DEF DeliveryInv, Last
  <2> QED BY <1>1, <2>1, <2>2
<1>7. \A k : Explained(k) => Explained(k)'
  BY <1>4 DEF Explained, Opened, Outcomes
<1>8. Explained(metrics)'
  BY <1>4, <1>6 DEF Explained, Opened, Outcomes
<1>9. ASSUME NEW i \in 1..Len(snapshots') PROVE Explained(snapshots[i])'
  <2>1. PICK k : k = snapshots[i]
    OBVIOUS
  <2>2. Explained(k)'
    BY <1>1, <1>7, <2>1 DEF DeliveryInv
  <2> QED BY <1>1, <2>1, <2>2 DEF Explained, Opened, Outcomes
<1>10. (Opened(metrics) >= Outcomes(metrics) + Cardinality(Begun))'
  BY <1>5, <1>6 DEF Explained, Opened, Outcomes, Counters
<1>11. restarts' \in Nat /\ restarts' # 0 /\ saving' = {} /\ snapshots' \in Seq(Counters)
  BY <1>1 DEF DeliveryInv
<1> QED BY <1>2, <1>3, <1>8, <1>9, <1>10, <1>11 DEF DeliveryInv

LEMMA DeliveryInvNext == DeliveryInv /\ [DeliveryNext]_deliveryVars => DeliveryInv'
<1> SUFFICES ASSUME DeliveryInv, [DeliveryNext]_deliveryVars PROVE DeliveryInv'
  OBVIOUS
<1>0. /\ hook \in [Notes -> HookRow] /\ (\A n \in Notes : HookOK(hook[n])) /\ snapshots \in Seq(Counters)
      /\ MaxHookTries \in Nat
  BY DeliveryFacts DEF DeliveryInv
<1>1. ASSUME UNCHANGED <<hook, metrics, saving, snapshots, restarts>> PROVE DeliveryInv'
  BY <1>0, <1>1, QuietDelivery
<1>2. ASSUME NEW n \in Notes, NEW ofUser \in BOOLEAN, NEW severe \in BOOLEAN, Publish(n, ofUser, severe)
      PROVE  DeliveryInv'
  <2>1. PICK h : h = [hook[n] EXCEPT !.state = IF severe THEN "delay" ELSE "skipped"]
    OBVIOUS
  <2>2. hook[n].attempt = 0 /\ hook[n].state = "none" /\ hook[n] \in HookRow
    BY <1>0, <1>2 DEF Publish, NoHook
  <2>3. h \in HookRow /\ HookOK(h) /\ h.attempt = 0
    BY <2>1, <2>2, DeliveryAssumption DEF HookRow, HookOK
  <2>4. hook' = [hook EXCEPT ![n] = h] /\ UNCHANGED <<metrics, saving, snapshots, restarts>>
    BY <1>2, <2>1 DEF Publish
  <2>5. hook' \in [Notes -> HookRow] /\ hook'[n] = h /\ \A p \in Notes : p # n => hook'[p] = hook[p]
    BY <1>0, <2>3, <2>4
  <2> QED BY <1>0, <2>2, <2>3, <2>4, <2>5, QuietDelivery
<1>3. ASSUME NEW n \in Notes, AnswerHook(n) PROVE DeliveryInv'
  <2>1. hook[n].state = "call" /\ UNCHANGED <<snapshots, restarts>>
    BY <1>3 DEF AnswerHook
  <2>2. CASE \E counter \in {"delivered", "failed"} : EndHook(n, counter)
    BY <2>1, <2>2, EndKeeps
  <2>3. CASE hook[n].attempt < MaxHookTries /\ hook' = [hook EXCEPT ![n].state = "delay"]
        /\ UNCHANGED <<metrics, saving>>
    <3>1. PICK h : h = [hook[n] EXCEPT !.state = "delay"]
      OBVIOUS
    <3>2. h \in HookRow /\ HookOK(h) /\ h.attempt = hook[n].attempt /\ h.state = "delay"
      BY <1>0, <2>3, <3>1 DEF HookRow, HookOK
    <3>3. hook' \in [Notes -> HookRow] /\ hook'[n] = h /\ \A p \in Notes : p # n => hook'[p] = hook[p]
      BY <1>0, <2>3, <3>1, <3>2
    <3> QED BY <1>0, <2>1, <2>3, <3>2, <3>3, QuietDelivery
  <2> QED BY <1>3, <2>2, <2>3 DEF AnswerHook, MayTryAgain
<1>4. CASE CleanupSnapshots
  <2>1. PICK kept \in 0..(Len(snapshots) - 1) :
           snapshots' = SubSeq(snapshots, Len(snapshots) - kept + 1, Len(snapshots))
    BY <1>4 DEF CleanupSnapshots
  <2> DEFINE from == Len(snapshots) - kept + 1
  <2>2. from \in Int /\ Len(snapshots) \in Nat /\ from >= 1 /\ kept \in Nat /\ Len(snapshots) - from + 1 = kept
        /\ (\A i \in from..Len(snapshots) : snapshots[i] \in Counters)
    BY <1>0, <2>1
  <2>3. snapshots' = SubSeq(snapshots, from, Len(snapshots))
    BY <2>1
  <2> HIDE DEF from
  <2>4. /\ SubSeq(snapshots, from, Len(snapshots)) \in Seq(Counters)
        /\ Len(SubSeq(snapshots, from, Len(snapshots)))
              = IF from <= Len(snapshots) THEN Len(snapshots) - from + 1 ELSE 0
        /\ \A i \in 1..(Len(snapshots) - from + 1) :
              SubSeq(snapshots, from, Len(snapshots))[i] = snapshots[from + i - 1]
    BY <2>2, SubSeqProperties
  <2>5. Len(snapshots') <= kept /\ \A i \in 1..kept : snapshots'[i] = snapshots[from + i - 1]
    BY <2>2, <2>3, <2>4
  <2>6. \A i \in 1..Len(snapshots') : \E j \in 1..Len(snapshots) : snapshots'[i] = snapshots[j]
    <3> SUFFICES ASSUME NEW i \in 1..Len(snapshots') PROVE \E j \in 1..Len(snapshots) : snapshots'[i] = snapshots[j]
      OBVIOUS
    <3>1. i \in 1..kept /\ from + i - 1 \in 1..Len(snapshots)
      BY <2>2, <2>3, <2>4, <2>5
    <3> QED BY <2>5, <3>1
  <2>7. UNCHANGED <<hook, metrics, saving, restarts>>
    BY <1>4 DEF CleanupSnapshots
  <2> QED BY <1>0, <2>3, <2>4, <2>6, <2>7, QuietDelivery
<1>5. ASSUME NEW s \in saving, SaveSnapshot(s) PROVE DeliveryInv'
  <2>1. s \in Counters /\ UNCHANGED <<hook, metrics, restarts>> /\ \A m \in saving' : m \in saving
    BY <1>5 DEF SaveSnapshot, DeliveryInv, Explained
  <2>2. CASE snapshots' = Append(snapshots, s)
    <3>1. snapshots' \in Seq(Counters) /\ Len(snapshots') = Len(snapshots) + 1
          /\ (\A i \in 1..Len(snapshots) : snapshots'[i] = snapshots[i]) /\ snapshots'[Len(snapshots) + 1] = s
      BY <1>0, <2>1, <2>2, AppendProperties
    <3>2. \A i \in 1..Len(snapshots') : i \in 1..Len(snapshots) \/ i = Len(snapshots) + 1
      BY <1>0, <3>1
    <3> QED BY <1>0, <2>1, <3>1, <3>2, QuietDelivery
  <2>3. CASE UNCHANGED snapshots
    BY <1>0, <2>1, <2>3, QuietDelivery
  <2> QED BY <1>5, <2>2, <2>3 DEF SaveSnapshot
<1>6. CASE UNCHANGED deliveryVars
  BY <1>1, <1>6 DEF deliveryVars
<1>7. ASSUME NEW n \in Notes, Persist(n) PROVE DeliveryInv'
  BY <1>1, <1>7 DEF Persist
<1>8. CASE CleanupExpired
  BY <1>1, <1>8 DEF CleanupExpired
<1> QED BY <1>2, <1>3, <1>4, <1>5, <1>6, <1>7, <1>8, AttemptKeeps, RestartKeeps DEF DeliveryNext

\* For any notifications, attempts and restarts, and however deliveries, snapshots and
\* their clean-up overlap: the counters of the webhook add up (notifications.service.ts).
THEOREM WebhookCounts == DeliverySpec => []WebhookCountsAddUp
<1>1. DeliveryInv => WebhookCountsAddUp
  <2> SUFFICES ASSUME DeliveryInv PROVE WebhookCountsAddUp
    OBVIOUS
  <2>1. \A i \in DOMAIN snapshots : i \in 1..Len(snapshots)
    BY DEF DeliveryInv
  <2>2. metrics.attempted <= MaxHookTries * Cardinality(Notes)
    <3>1. MaxHookTries * Cardinality(Notes) \in Int /\ Rounds \in Int /\ metrics.attempted \in Int
      BY DeliveryFacts, FS_CardinalityType DEF DeliveryInv, Explained, Counters
    <3> QED BY <3>1, DeliveryFacts DEF DeliveryInv, Explained
  <2> QED BY <2>1, <2>2 DEF DeliveryInv, WebhookCountsAddUp, Explained, Opened, Outcomes, Begun
<1> QED BY <1>1, DeliveryInvInit, DeliveryInvNext, PTL DEF DeliverySpec

-----------------------------------------------------------------------------
(* The books of an order.  What a list of fills comes to is stated of any     *)
(* side s and any list, to compare an order with what was read of it.         *)

FillsIn(f, a) == {i \in 1..Len(f) : f[i] = a}
StartOf(f, g) == Len(f) <= Len(g) /\ \A i \in 1..Len(f) : f[i] = g[i]
NoneCharged(f) == \A i \in 1..Len(f) : f[i] = "other"

NetFrom(s, coins, money, baseFee, quoteFee) ==
    IF s = "BUY" THEN [quantity |-> Clamp(coins - baseFee), quote |-> money + quoteFee]
    ELSE [quantity |-> coins + baseFee, quote |-> Clamp(money - quoteFee)]
NetOf(s, n, f) ==
    NetFrom(s, n * FillQuantity, n * FillQuantity * FillPrice, TotalFee(f, "base"), TotalFee(f, "quote"))

\* A row claims no more than the order came to, and says exactly that once it knows
\* all the fills: an ended order has no others.
Within(row, s, g, ended) ==
    /\ row.filled \in 0..Len(g)
    /\ row.quantity \in Nat /\ row.quantity <= NetOf(s, Len(g), g).quantity
    /\ row.quote \in Nat /\ row.quote <= NetOf(s, Len(g), g).quote
    /\ row.fee \in Nat /\ (NoneCharged(g) => row.fee = 0)
    /\ row.filled = Len(g) => /\ row.quantity = NetOf(s, Len(g), g).quantity
                              /\ row.quote = NetOf(s, Len(g), g).quote
                              /\ row.fee = QuoteFee(g, 0)
    /\ row.status \in Ended => ended /\ row.filled = Len(g)

\* A call has read a part of the fills, the trades no earlier than their number.
Aware(r, reading, s, g, ended) ==
    /\ Within(reading.row, s, g, ended)
    /\ reading.executed \in 0..Len(g)
    /\ reading.fills \in FillLists /\ StartOf(reading.fills, g)
    /\ reading.at \in {"idle", "find", "report", "trades"} => reading.fills = <<>>
    /\ reading.at \in {"trades", "record"} => (reading.status \in Ended => ended /\ reading.executed = Len(g))
    /\ reading.at = "trades" /\ r \in OrderSyncs => News(reading.row, reading.executed)
    /\ reading.at = "record" => IF r \in OrderSyncs /\ ~News(reading.row, reading.executed)
                             THEN reading.fills = <<>> ELSE reading.executed <= Len(reading.fills)

OrderEnded == onExchange.status \in Ended

NetInv ==
    /\ onExchange \in OrderRow /\ record \in RecordRow /\ reader \in [Readers -> CallRow]
    /\ onExchange.status = "NONE" => onExchange.fills = <<>>
    /\ Within(record, onExchange.side, onExchange.fills, OrderEnded)
    /\ \A r \in Readers : Aware(r, reader[r], onExchange.side, onExchange.fills, OrderEnded)
    /\ reader["execution"].at # "report"

LEMMA NetFillIsNet == ASSUME NEW n, NEW f PROVE NetFill(n, f) = NetOf(onExchange.side, n, f)
BY DEF NetFill, NetOf, NetFrom

LEMMA FeesAreCounted ==
    ASSUME NEW f \in FillLists, NEW g \in FillLists, StartOf(f, g), NEW a \in FeeAssets
    PROVE  \E m, n, d \in Nat : /\ TotalFee(f, a) = FillFee * m /\ TotalFee(g, a) = FillFee * n
                                /\ n = m + d /\ d <= Len(g) - Len(f) /\ m <= Len(f)
<1> DEFINE F == FillsIn(f, a)
           G == FillsIn(g, a)
           D == G \ F
<1>1. Len(f) \in Nat /\ Len(g) \in Nat /\ Len(f) <= Len(g)
  BY DEF FillLists, StartOf
<1>2. F \subseteq G /\ F \subseteq 1..Len(f) /\ G \subseteq 1..Len(g) /\ D \subseteq (Len(f) + 1)..Len(g)
  BY <1>1 DEF StartOf, FillsIn
<1>3. /\ IsFiniteSet(1..Len(f)) /\ Cardinality(1..Len(f)) = Len(f)
      /\ IsFiniteSet(1..Len(g))
  <2>1. 1 \in Int /\ Len(f) \in Int /\ Len(g) \in Int
    BY <1>1
  <2>2. IsFiniteSet(1..Len(f)) /\ Cardinality(1..Len(f)) = IF 1 > Len(f) THEN 0 ELSE Len(f) - 1 + 1
    BY <2>1, FS_Interval
  <2>3. IsFiniteSet(1..Len(g))
    BY <2>1, FS_Interval
  <2> QED BY <1>1, <2>2, <2>3
<1>4. IsFiniteSet((Len(f) + 1)..Len(g)) /\ Cardinality((Len(f) + 1)..Len(g)) = Len(g) - Len(f)
  <2> DEFINE h == Len(f) + 1
  <2>1. h \in Int /\ Len(g) \in Int
    BY <1>1
  <2> HIDE DEF h
  <2>2. IsFiniteSet(h..Len(g)) /\ Cardinality(h..Len(g)) = IF h > Len(g) THEN 0 ELSE Len(g) - h + 1
    BY <2>1, FS_Interval
  <2> QED BY <1>1, <2>2 DEF h
<1> HIDE DEF F, G, D
<1>5. IsFiniteSet(F) /\ Cardinality(F) <= Len(f)
  BY <1>2, <1>3, FS_Subset
<1>6. IsFiniteSet(G)
  BY <1>2, <1>3, FS_Subset
<1>7. IsFiniteSet(D) /\ Cardinality(D) <= Len(g) - Len(f)
  BY <1>2, <1>4, FS_Subset
<1>8. Cardinality(F) \in Nat /\ Cardinality(D) \in Nat /\ Cardinality(G) \in Nat
  BY <1>5, <1>6, <1>7, FS_CardinalityType
<1>9. Cardinality(G) = Cardinality(F) + Cardinality(D)
  <2>1. Cardinality(D) = Cardinality(G) - Cardinality(G \cap F)
    BY <1>5, <1>6, FS_Difference DEF D
  <2>2. G \cap F = F
    BY <1>2
  <2> QED BY <1>8, <2>1, <2>2
<1>10. TotalFee(f, a) = FillFee * Cardinality(F) /\ TotalFee(g, a) = FillFee * Cardinality(G)
  BY DEF TotalFee, F, G, FillsIn
<1> USE <1>8
<1> WITNESS Cardinality(F) \in Nat, Cardinality(G) \in Nat, Cardinality(D) \in Nat
<1> QED BY <1>5, <1>7, <1>9, <1>10

LEMMA ProductsGrow ==
    ASSUME NEW a \in Nat, NEW b \in Nat, NEW i \in Nat, NEW j \in Nat, a <= b, i <= j
    PROVE  a * i \in Nat /\ a * i <= j * b
<1> DEFINE d == b - a
           e == j - i
<1>1. d \in Nat /\ e \in Nat /\ b = a + d /\ j = i + e
  OBVIOUS
<1> HIDE DEF d, e
<1>2. a * i \in Nat /\ i * d \in Nat /\ e * a \in Nat /\ e * d \in Nat
  BY <1>1
<1>3. j * b = a * i + i * d + e * a + e * d
  BY <1>1, Z3
<1> QED BY <1>2, <1>3

\* Lists of fills grow, and what an order came to with them.
LEMMA NetGrows ==
    ASSUME NEW s \in {"BUY", "SELL"}, NEW f \in FillLists, NEW g \in FillLists, StartOf(f, g),
           NEW k \in Nat, k <= Len(f)
    PROVE  /\ NetOf(s, k, f).quantity \in Nat /\ NetOf(s, k, f).quantity <= NetOf(s, Len(g), g).quantity
           /\ NetOf(s, k, f).quote \in Nat /\ NetOf(s, k, f).quote <= NetOf(s, Len(g), g).quote
<1> DEFINE e == Len(f) - k
           x == Len(g) - Len(f)
<1>1. e \in Nat /\ x \in Nat /\ Len(f) = k + e /\ Len(g) = k + e + x
  BY DEF FillLists, StartOf
<1>2. PICK m, n, d \in Nat : /\ TotalFee(f, "base") = FillFee * m /\ TotalFee(g, "base") = FillFee * n
                             /\ n = m + d /\ d <= x /\ m <= k + e
  BY <1>1, FeesAreCounted DEF FeeAssets
<1>3. PICK u, v, w \in Nat : /\ TotalFee(f, "quote") = FillFee * u /\ TotalFee(g, "quote") = FillFee * v
                             /\ v = u + w /\ w <= x /\ u <= k + e
  BY <1>1, FeesAreCounted DEF FeeAssets
<1> HIDE DEF e, x
<1> DEFINE Q == FillQuantity
           P == FillQuantity * FillPrice
           T == FillFee
<1>4. Q \in Nat /\ P \in Nat /\ T \in Nat /\ T <= Q /\ Q <= P
  BY NetFillsAssumption, Z3
<1>5. /\ k * FillQuantity * FillPrice = k * P
      /\ Len(g) * FillQuantity * FillPrice = k * P + e * P + x * P
      /\ k * FillQuantity = k * Q /\ Len(g) * FillQuantity = k * Q + e * Q + x * Q
      /\ TotalFee(f, "base") = T * m /\ TotalFee(g, "base") = T * m + T * d
      /\ TotalFee(f, "quote") = T * u /\ TotalFee(g, "quote") = T * u + T * w
  BY <1>1, <1>2, <1>3, <1>4, NetFillsAssumption, Z3
<1> HIDE DEF Q, P, T
<1>6. /\ T * d <= x * Q /\ T * w <= x * P
      /\ T * m <= (k + e) * Q /\ T * u <= (k + e) * P
  BY <1>1, <1>2, <1>3, <1>4, ProductsGrow
<1>7. PICK kq, eq, xq, kp, ep, xp \in Nat : /\ kq = k * Q /\ eq = e * Q /\ xq = x * Q
                                            /\ kp = k * P /\ ep = e * P /\ xp = x * P
  BY <1>1, <1>4, ProductsGrow
<1>8. PICK tm, td, tu, tw \in Nat : tm = T * m /\ td = T * d /\ tu = T * u /\ tw = T * w
  BY <1>2, <1>3, <1>4, ProductsGrow
<1>9. /\ k * FillQuantity = kq /\ k * FillQuantity * FillPrice = kp
      /\ Len(g) * FillQuantity = kq + eq + xq /\ Len(g) * FillQuantity * FillPrice = kp + ep + xp
      /\ TotalFee(f, "base") = tm /\ TotalFee(g, "base") = tm + td
      /\ TotalFee(f, "quote") = tu /\ TotalFee(g, "quote") = tu + tw
  BY <1>5, <1>7, <1>8
<1>10. td <= xq /\ tw <= xp /\ tm <= kq + eq /\ tu <= kp + ep
  <2>1. (k + e) * Q = kq + eq /\ (k + e) * P = kp + ep
    BY <1>1, <1>4, <1>7, Z3
  <2> QED BY <1>6, <1>7, <1>8, <2>1
<1>11. /\ NetOf(s, k, f) = NetFrom(s, kq, kp, tm, tu)
       /\ NetOf(s, Len(g), g) = NetFrom(s, kq + eq + xq, kp + ep + xp, tm + td, tu + tw)
  BY <1>9 DEF NetOf
<1> QED BY <1>10, <1>11 DEF NetFrom, Clamp

LEMMA SameList ==
    ASSUME NEW f \in FillLists, NEW g \in FillLists, StartOf(f, g), Len(g) <= Len(f)
    PROVE  f = g
<1>1. Len(f) \in Nat /\ Len(g) \in Nat
  BY DEF FillLists
<1>2. Len(f) = Len(g)
  BY <1>1 DEF StartOf
<1> QED BY <1>2 DEF FillLists, StartOf

LEMMA WithinGrows ==
    ASSUME NEW s \in {"BUY", "SELL"}, NEW f \in FillLists, NEW g \in FillLists, StartOf(f, g),
           NEW before \in BOOLEAN, NEW after \in BOOLEAN, before => f = g /\ after,
           NEW row, Within(row, s, f, before)
    PROVE  Within(row, s, g, after)
<1>1. CASE f = g
  BY <1>1 DEF Within
<1>2. CASE f # g
  <2>1. Len(f) \in Nat /\ Len(g) \in Nat
    BY DEF FillLists
  <2>2. Len(f) < Len(g)
    BY <1>2, <2>1, SameList
  <2>3. /\ NetOf(s, Len(f), f).quantity \in Nat /\ NetOf(s, Len(f), f).quantity <= NetOf(s, Len(g), g).quantity
        /\ NetOf(s, Len(f), f).quote \in Nat /\ NetOf(s, Len(f), f).quote <= NetOf(s, Len(g), g).quote
    BY <2>1, NetGrows
  <2>4. /\ NetOf(s, Len(g), g).quantity \in Nat /\ NetOf(s, Len(g), g).quote \in Nat
    BY <2>1, NetGrows DEF StartOf
  <2>5. NoneCharged(g) => NoneCharged(f)
    BY <2>1, <2>2 DEF NoneCharged, StartOf
  <2>6. row.status \notin Ended /\ row.filled \in 0..Len(g) /\ row.filled # Len(g)
    BY <1>2, <2>1, <2>2 DEF Within
  <2> QED BY <2>3, <2>4, <2>5, <2>6 DEF Within
<1> QED BY <1>1, <1>2

LEMMA AwareGrows ==
    ASSUME NEW s \in {"BUY", "SELL"}, NEW f \in FillLists, NEW g \in FillLists, StartOf(f, g),
           NEW before \in BOOLEAN, NEW after \in BOOLEAN, before => f = g /\ after,
           NEW r, NEW reading, Aware(r, reading, s, f, before)
    PROVE  Aware(r, reading, s, g, after)
<1>1. Within(reading.row, s, g, after)
  BY WithinGrows DEF Aware
<1>2. Len(f) \in Nat /\ Len(g) \in Nat /\ Len(reading.fills) \in Nat
  BY DEF FillLists, Aware
<1>3. reading.executed \in 0..Len(g) /\ StartOf(reading.fills, g)
  BY <1>2 DEF StartOf, Aware
<1> QED BY <1>1, <1>3 DEF Aware

LEMMA TotalFeeIsNat == ASSUME NEW f \in FillLists, NEW a \in FeeAssets PROVE TotalFee(f, a) \in Nat
<1>1. StartOf(f, f)
  BY DEF StartOf, FillLists
<1>2. PICK m \in Nat : TotalFee(f, a) = FillFee * m
  BY <1>1, FeesAreCounted
<1> QED BY <1>2, NetFillsAssumption

LEMMA QuoteFeeIsNat ==
    ASSUME NEW f \in FillLists, NEW x \in Nat
    PROVE  /\ QuoteFee(f, x) \in Nat
           /\ NoneCharged(f) => QuoteFee(f, x) = x
           /\ ~NoneCharged(f) => QuoteFee(f, x) = QuoteFee(f, 0)
<1>1. TotalFee(f, "quote") \in Nat /\ TotalFee(f, "base") \in Nat
  BY TotalFeeIsNat DEF FeeAssets
<1>2. TotalFee(f, "base") * FillPrice \in Nat
  BY <1>1, NetFillsAssumption
<1> QED BY <1>1, <1>2 DEF QuoteFee, NoneCharged

\* What is added to the amounts read: the missing part, and never less than nothing.
LEMMA CatchesUp ==
    ASSUME NEW x \in Nat, NEW y \in Nat, NEW m \in Nat, x <= m, y <= m
    PROVE  /\ y + Clamp(x - y) \in Nat /\ y + Clamp(x - y) <= m
           /\ x = m => y + Clamp(x - y) = m
BY DEF Clamp

\* What a call records: as many fills as were executed, with trades that may be later.
LEMMA RecordsWithin ==
    ASSUME NEW s \in {"BUY", "SELL"}, NEW g \in FillLists, NEW ended \in BOOLEAN,
           NEW old, Within(old, s, g, ended), NEW f \in FillLists, StartOf(f, g),
           NEW n \in Nat, n <= Len(f), NEW row,
           row.filled = n, row.status \in Ended => ended /\ n = Len(g),
           row.quantity = old.quantity + Clamp(NetOf(s, n, f).quantity - old.quantity),
           row.quote = old.quote + Clamp(NetOf(s, n, f).quote - old.quote),
           row.fee = QuoteFee(f, old.fee)
    PROVE  Within(row, s, g, ended)
<1>1. Len(f) \in Nat /\ Len(g) \in Nat /\ n \in 0..Len(g)
  BY DEF FillLists, StartOf
<1>2. /\ NetOf(s, n, f).quantity \in Nat /\ NetOf(s, n, f).quantity <= NetOf(s, Len(g), g).quantity
      /\ NetOf(s, n, f).quote \in Nat /\ NetOf(s, n, f).quote <= NetOf(s, Len(g), g).quote
  BY NetGrows
<1>3. NetOf(s, Len(g), g).quantity \in Nat /\ NetOf(s, Len(g), g).quote \in Nat
  BY <1>1, NetGrows DEF StartOf
<1>4. /\ row.quantity \in Nat /\ row.quantity <= NetOf(s, Len(g), g).quantity
      /\ row.quote \in Nat /\ row.quote <= NetOf(s, Len(g), g).quote
      /\ NetOf(s, n, f) = NetOf(s, Len(g), g) => /\ row.quantity = NetOf(s, Len(g), g).quantity
                                                 /\ row.quote = NetOf(s, Len(g), g).quote
  <2>1. /\ old.quantity \in Nat /\ old.quantity <= NetOf(s, Len(g), g).quantity
        /\ old.quote \in Nat /\ old.quote <= NetOf(s, Len(g), g).quote
    BY DEF Within
  <2>2. PICK x, y, m : x = NetOf(s, n, f).quantity /\ y = old.quantity /\ m = NetOf(s, Len(g), g).quantity
    OBVIOUS
  <2>3. /\ row.quantity \in Nat /\ row.quantity <= NetOf(s, Len(g), g).quantity
        /\ NetOf(s, n, f).quantity = NetOf(s, Len(g), g).quantity
              => row.quantity = NetOf(s, Len(g), g).quantity
    <3>1. x \in Nat /\ y \in Nat /\ m \in Nat /\ x <= m /\ y <= m
      BY <1>2, <1>3, <2>1, <2>2
    <3>2. row.quantity = y + Clamp(x - y)
      BY <2>2
    <3>3. /\ y + Clamp(x - y) \in Nat /\ y + Clamp(x - y) <= m
          /\ x = m => y + Clamp(x - y) = m
      BY <3>1, CatchesUp
    <3> QED BY <2>2, <3>2, <3>3
  <2>4. PICK u, v, w : u = NetOf(s, n, f).quote /\ v = old.quote /\ w = NetOf(s, Len(g), g).quote
    OBVIOUS
  <2>5. /\ row.quote \in Nat /\ row.quote <= NetOf(s, Len(g), g).quote
        /\ NetOf(s, n, f).quote = NetOf(s, Len(g), g).quote => row.quote = NetOf(s, Len(g), g).quote
    <3>1. u \in Nat /\ v \in Nat /\ w \in Nat /\ u <= w /\ v <= w
      BY <1>2, <1>3, <2>1, <2>4
    <3>2. row.quote = v + Clamp(u - v)
      BY <2>4
    <3>3. /\ v + Clamp(u - v) \in Nat /\ v + Clamp(u - v) <= w
          /\ u = w => v + Clamp(u - v) = w
      BY <3>1, CatchesUp
    <3> QED BY <2>4, <3>2, <3>3
  <2> QED BY <2>3, <2>5
<1>5. row.fee \in Nat /\ (NoneCharged(g) => row.fee = 0)
  <2>1. NoneCharged(g) => NoneCharged(f) /\ old.fee = 0
    <3>1. NoneCharged(g) => NoneCharged(f)
      BY <1>1 DEF NoneCharged, StartOf
    <3> QED BY <3>1 DEF Within
  <2> QED BY <2>1, QuoteFeeIsNat DEF Within
<1>6. CASE n = Len(g)
  <2>1. f = g
    BY <1>1, <1>6, SameList
  <2>2. row.fee = QuoteFee(g, 0)
    <3>1. NoneCharged(g) => QuoteFee(g, 0) = 0
      BY QuoteFeeIsNat
    <3> QED BY <1>5, <2>1, <3>1, QuoteFeeIsNat DEF Within
  <2> QED BY <1>1, <1>4, <1>5, <1>6, <2>1, <2>2 DEF Within
<1>7. CASE n # Len(g)
  BY <1>1, <1>4, <1>5, <1>7 DEF Within
<1> QED BY <1>6, <1>7

\* A call that saw no new fills leaves the amounts as they were read.
LEMMA RecordsAgain ==
    ASSUME NEW s \in {"BUY", "SELL"}, NEW g \in FillLists, NEW ended \in BOOLEAN,
           NEW old, Within(old, s, g, ended), NEW n \in 0..Len(g), n <= old.filled, NEW row,
           row.filled = n, row.status \in Ended => ended /\ n = Len(g),
           row.quantity = old.quantity, row.quote = old.quote, row.fee = old.fee
    PROVE  Within(row, s, g, ended)
<1>1. Len(g) \in Nat /\ old.filled \in 0..Len(g)
  BY DEF FillLists, Within
<1>2. n = Len(g) => old.filled = Len(g)
  BY <1>1
<1> QED BY <1>1, <1>2 DEF Within

LEMMA NoFillsYet ==
    ASSUME NEW s \in {"BUY", "SELL"}, NEW ended \in BOOLEAN
    PROVE  Within(NotRecorded, s, <<>>, ended)
<1>1. <<>> \in FillLists /\ Len(<<>>) = 0 /\ StartOf(<<>>, <<>>)
  BY DEF FillLists, StartOf
<1>2. TotalFee(<<>>, "base") = 0 /\ TotalFee(<<>>, "quote") = 0 /\ QuoteFee(<<>>, 0) = 0
  <2>1. PICK m, n, d \in Nat : TotalFee(<<>>, "base") = FillFee * m /\ m <= 0
    BY <1>1, FeesAreCounted DEF FeeAssets
  <2>2. PICK u, v, w \in Nat : TotalFee(<<>>, "quote") = FillFee * u /\ u <= 0
    BY <1>1, FeesAreCounted DEF FeeAssets
  <2>3. QuoteFee(<<>>, 0) = 0
    BY <1>1, QuoteFeeIsNat DEF NoneCharged
  <2> QED BY <2>1, <2>2, <2>3, NetFillsAssumption
<1>3. NetOf(s, 0, <<>>) = [quantity |-> 0, quote |-> 0]
  BY <1>2, NetFillsAssumption DEF NetOf, NetFrom, Clamp
<1> QED BY <1>1, <1>2, <1>3 DEF Within, NotRecorded, Ended

LEMMA NetInvInit == NetInit => NetInv
<1> SUFFICES ASSUME NetInit PROVE NetInv
  OBVIOUS
<1>1. /\ onExchange \in OrderRow /\ onExchange.fills = <<>> /\ onExchange.status = "NONE"
      /\ record = NotRecorded /\ reader = [r \in Readers |-> NotReading]
  <2>1. onExchange \in [side : {"BUY", "SELL"}, status : {"NONE"}, fills : {<<>>}]
    BY DEF NetInit
  <2>2. <<>> \in FillLists
    BY DEF FillLists
  <2> QED BY <2>1, <2>2 DEF NetInit, OrderRow, OrderStates
<1>2. <<>> \in FillLists /\ Len(<<>>) = 0 /\ StartOf(<<>>, <<>>)
  BY DEF FillLists, StartOf
<1>3. record \in RecordRow /\ reader \in [Readers -> CallRow]
  <2>1. NotRecorded \in RecordRow
    BY DEF NotRecorded, RecordRow, OrderStates
  <2>2. NotReading \in CallRow
    BY <1>2, <2>1 DEF NotReading, CallRow, OrderStates
  <2> QED BY <1>1, <2>1, <2>2
<1>6. \A ended \in BOOLEAN : Within(NotRecorded, onExchange.side, <<>>, ended)
  BY <1>1, NoFillsYet DEF OrderRow
<1>7. ~OrderEnded /\ OrderEnded \in BOOLEAN
  BY <1>1 DEF OrderEnded, Ended
<1>8. \A r \in Readers : Aware(r, reader[r], onExchange.side, onExchange.fills, OrderEnded)
  BY <1>1, <1>2, <1>6, <1>7 DEF Aware, NotReading
<1>9. reader["execution"].at # "report"
  BY <1>1 DEF Readers, NotReading
<1> QED BY <1>1, <1>3, <1>6, <1>7, <1>8, <1>9 DEF NetInv

\* The exchange fills and ends orders; what was read of them stays true.
LEMMA ExchangeKeeps ==
    ASSUME NetInv, onExchange' \in OrderRow, onExchange'.side = onExchange.side,
           StartOf(onExchange.fills, onExchange'.fills), onExchange'.status # "NONE",
           OrderEnded => onExchange'.fills = onExchange.fills /\ OrderEnded', UNCHANGED <<record, reader>>
    PROVE  NetInv'
<1> DEFINE s == onExchange.side
           f == onExchange.fills
           g == onExchange'.fills
<1>1. /\ s \in {"BUY", "SELL"} /\ f \in FillLists /\ g \in FillLists /\ StartOf(f, g)
      /\ OrderEnded => f = g /\ OrderEnded'
  BY DEF NetInv, OrderRow
<1>2. OrderEnded \in BOOLEAN /\ OrderEnded' \in BOOLEAN
  BY DEF OrderEnded
<1>3. Within(record, s, g, OrderEnded')
  BY <1>1, <1>2, WithinGrows DEF NetInv
<1>4. \A r \in Readers : Aware(r, reader[r], s, g, OrderEnded')
  <2> TAKE r \in Readers
  <2>1. Aware(r, reader[r], s, f, OrderEnded)
    BY DEF NetInv
  <2> QED BY <1>1, <1>2, <2>1, AwareGrows
<1> QED BY <1>3, <1>4 DEF NetInv

LEMMA OrderFillsKeeps == ASSUME NetInv, NEW asset \in FeeAssets, OrderFills(asset) PROVE NetInv'
<1> DEFINE f == onExchange.fills
           g == Append(f, asset)
<1>1. f \in FillLists /\ ~OrderEnded
  BY DEF NetInv, OrderRow, OrderStates, OrderFills, OrderEnded, Ended
<1>2. g \in FillLists /\ StartOf(f, g) /\ Len(f) + 1 \in Nat
  BY <1>1 DEF FillLists, StartOf
<1>3. onExchange' = [onExchange EXCEPT !.fills = g, !.status = StatusAfter(Len(f) + 1)]
  BY DEF OrderFills
<1>4. StatusAfter(Len(f) + 1) \in {"PENDING", "PARTIALLY_FILLED", "FILLED"}
  BY DEF StatusAfter
<1> HIDE DEF g
<1>5. /\ onExchange' \in OrderRow /\ onExchange'.side = onExchange.side /\ onExchange'.fills = g
      /\ onExchange'.status # "NONE"
  BY <1>2, <1>3, <1>4 DEF NetInv, OrderRow, OrderStates
<1>6. OrderEnded => onExchange'.fills = f /\ OrderEnded'
  BY <1>1
<1>7. StartOf(f, onExchange'.fills) /\ UNCHANGED <<record, reader>>
  BY <1>2, <1>5 DEF OrderFills
<1> QED BY <1>5, <1>6, <1>7, ExchangeKeeps

LEMMA OrderEndsKeeps == ASSUME NetInv, OrderEnds PROVE NetInv'
<1>1. /\ onExchange' \in OrderRow /\ onExchange'.side = onExchange.side
      /\ onExchange'.fills = onExchange.fills /\ onExchange'.status # "NONE"
  BY DEF NetInv, OrderRow, OrderStates, OrderEnds
<1>2. StartOf(onExchange.fills, onExchange'.fills)
  BY <1>1 DEF StartOf, NetInv, OrderRow, OrderStates, FillLists
<1>3. OrderEnded'
  BY DEF OrderEnds, OrderEnded, Ended, NetInv, OrderRow
<1>4. UNCHANGED <<record, reader>> /\ (OrderEnded => onExchange'.fills = onExchange.fills /\ OrderEnded')
  BY <1>1, <1>3 DEF OrderEnds
<1> QED BY <1>1, <1>2, <1>4, ExchangeKeeps

\* One call goes on.
LEMMA CallKeeps ==
    ASSUME NetInv, NEW r \in Readers, NEW reading \in CallRow, reader' = [reader EXCEPT ![r] = reading],
           Aware(r, reading, onExchange.side, onExchange.fills, OrderEnded),
           reading.at = "report" => r \in OrderSyncs,
           UNCHANGED <<onExchange, record>>
    PROVE  NetInv'
<1>1. OrderEnded' = OrderEnded
  BY DEF OrderEnded
<1>2. \A q \in Readers : Aware(q, reader'[q], onExchange.side, onExchange.fills, OrderEnded)
  BY DEF NetInv
<1>3. reader' \in [Readers -> CallRow] /\ reader'["execution"].at # "report"
  BY NetFillsAssumption DEF NetInv, Readers
<1> QED BY <1>1, <1>2, <1>3 DEF NetInv

LEMMA EmptyIsStart == ASSUME NEW g \in FillLists
    PROVE <<>> \in FillLists /\ StartOf(<<>>, g) /\ StartOf(g, g) /\ Len(g) \in Nat
BY DEF FillLists, StartOf

LEMMA WhatIsKnown ==
    ASSUME NetInv
    PROVE  /\ onExchange.side \in {"BUY", "SELL"} /\ onExchange.fills \in FillLists
           /\ onExchange.status \in OrderStates /\ OrderEnded \in BOOLEAN /\ record \in RecordRow
           /\ Within(record, onExchange.side, onExchange.fills, OrderEnded)
           /\ \A r \in Readers : reader[r] \in CallRow
              /\ Aware(r, reader[r], onExchange.side, onExchange.fills, OrderEnded)
<1>1. OrderEnded \in BOOLEAN
  BY DEF OrderEnded
<1> QED BY <1>1 DEF NetInv, OrderRow

LEMMA FindOrderKeeps == ASSUME NetInv, FindOrder PROVE NetInv'
<1> DEFINE g == onExchange.fills
           e == "execution"
<1>1. PICK reading : reading = [reader[e] EXCEPT !.at = IF g # <<>> THEN "trades" ELSE "record",
                                           !.executed = Len(g), !.status = onExchange.status]
  OBVIOUS
<1>2. reader' = [reader EXCEPT ![e] = reading] /\ UNCHANGED <<onExchange, record>> /\ reader[e].at = "find"
  BY <1>1 DEF FindOrder
<1>3. e \in Readers /\ e \notin OrderSyncs
  BY NetFillsAssumption DEF Readers
<1>4. reader[e].fills = <<>>
  BY <1>2, <1>3, WhatIsKnown DEF Aware
<1>5. /\ reading \in CallRow /\ reading.executed = Len(g) /\ reading.status = onExchange.status
         /\ reading.row = reader[e].row
      /\ reading.fills = <<>> /\ reading.at \in {"trades", "record"} /\ (reading.at = "record" => g = <<>>)
  BY <1>1, <1>3, <1>4, WhatIsKnown, EmptyIsStart DEF CallRow
<1>6. Aware(e, reading, onExchange.side, g, OrderEnded)
  BY <1>3, <1>5, WhatIsKnown, EmptyIsStart DEF Aware, OrderEnded
<1> QED BY <1>2, <1>3, <1>5, <1>6, CallKeeps

LEMMA ReadTradesKeeps == ASSUME NetInv, NEW r \in Readers, ReadTrades(r) PROVE NetInv'
<1> DEFINE g == onExchange.fills
<1>1. PICK reading : reading = [reader[r] EXCEPT !.fills = g, !.at = "record"]
  OBVIOUS
<1>2. reader' = [reader EXCEPT ![r] = reading] /\ UNCHANGED <<onExchange, record>> /\ reader[r].at = "trades"
  <2>1. reader[r] \in CallRow
    BY WhatIsKnown
  <2> QED BY <1>1, <2>1 DEF ReadTrades
<1>3. /\ reading \in CallRow /\ reading.executed = reader[r].executed /\ reading.status = reader[r].status
      /\ reading.row = reader[r].row /\ reading.fills = g /\ reading.at = "record"
  BY <1>1, WhatIsKnown DEF CallRow
<1>4. Aware(r, reading, onExchange.side, g, OrderEnded)
  <2>1. Aware(r, reader[r], onExchange.side, g, OrderEnded) /\ reader[r].executed <= Len(g)
    BY WhatIsKnown, EmptyIsStart DEF Aware
  <2> QED BY <1>2, <1>3, <2>1, WhatIsKnown, EmptyIsStart DEF Aware
<1> QED BY <1>2, <1>3, <1>4, CallKeeps

LEMMA ReadRecordKeeps == ASSUME NetInv, NEW r \in Readers, ReadRecord(r) PROVE NetInv'
<1> DEFINE g == onExchange.fills
<1>1. PICK reading : reading = [NotReading EXCEPT !.at = "report", !.row = record]
  OBVIOUS
<1>2. reader' = [reader EXCEPT ![r] = reading] /\ UNCHANGED <<onExchange, record>> /\ r \in OrderSyncs
  BY <1>1 DEF ReadRecord
<1>3. reading \in CallRow /\ reading.executed = 0 /\ reading.row = record /\ reading.fills = <<>>
      /\ reading.at = "report"
  BY <1>1, WhatIsKnown, EmptyIsStart DEF CallRow, NotReading, OrderStates
<1>4. Aware(r, reading, onExchange.side, g, OrderEnded)
  BY <1>3, WhatIsKnown, EmptyIsStart DEF Aware
<1> QED BY <1>2, <1>3, <1>4, CallKeeps

LEMMA ReadReportKeeps == ASSUME NetInv, NEW r \in Readers, ReadReport(r) PROVE NetInv'
<1> DEFINE g == onExchange.fills
<1>1. PICK reading : reading = [reader[r] EXCEPT !.executed = Len(g), !.status = onExchange.status,
                                           !.at = IF News(reader[r].row, Len(g)) THEN "trades" ELSE "record"]
  OBVIOUS
<1>2. reader[r] \in CallRow /\ reader[r].at = "report" /\ reader[r].fills = <<>> /\ r \in OrderSyncs
  BY WhatIsKnown DEF ReadReport, Aware, Readers, NetInv
<1>3. reader' = [reader EXCEPT ![r] = reading] /\ UNCHANGED <<onExchange, record>>
  BY <1>1, <1>2 DEF ReadReport, CallRow
<1>4. /\ reading \in CallRow /\ reading.executed = Len(g) /\ reading.status = onExchange.status
         /\ reading.row = reader[r].row
      /\ reading.fills = <<>> /\ reading.at = IF News(reading.row, Len(g)) THEN "trades" ELSE "record"
  BY <1>1, <1>2, WhatIsKnown, EmptyIsStart DEF CallRow
<1>5. Aware(r, reading, onExchange.side, g, OrderEnded)
  BY <1>2, <1>4, WhatIsKnown, EmptyIsStart DEF Aware, OrderEnded
<1> QED BY <1>2, <1>3, <1>4, <1>5, CallKeeps

LEMMA NotReadingKnows ==
    ASSUME NetInv, NEW g \in FillLists
    PROVE  /\ NotReading \in CallRow /\ NotReading.fills = <<>> /\ NotReading.executed = 0
           /\ NotReading.at = "idle" /\ NotReading.row = NotRecorded
           /\ \A s \in {"BUY", "SELL"}, ended \in BOOLEAN : Within(NotRecorded, s, g, ended)
<1>1. <<>> \in FillLists /\ Len(<<>>) = 0 /\ StartOf(<<>>, g)
  BY EmptyIsStart
<1>2. ASSUME NEW s \in {"BUY", "SELL"}, NEW ended \in BOOLEAN PROVE Within(NotRecorded, s, g, ended)
  <2>1. Within(NotRecorded, s, <<>>, FALSE)
    BY NoFillsYet
  <2> QED BY <1>1, <2>1, WithinGrows
<1> QED BY <1>1, <1>2 DEF NotReading, NotRecorded, CallRow, RecordRow, OrderStates

LEMMA SyncGivesUpKeeps == ASSUME NetInv, NEW r \in Readers, SyncGivesUp(r) PROVE NetInv'
<1>1. reader' = [reader EXCEPT ![r] = NotReading] /\ UNCHANGED <<onExchange, record>>
  BY DEF SyncGivesUp
<1>2. Aware(r, NotReading, onExchange.side, onExchange.fills, OrderEnded)
  BY WhatIsKnown, NotReadingKnows, EmptyIsStart DEF Aware
<1> QED BY <1>1, <1>2, WhatIsKnown, NotReadingKnows, CallKeeps

LEMMA PlaceOrderKeeps ==
    ASSUME NetInv, NEW fills \in {<<>>} \cup {<<a>> : a \in FeeAssets}, PlaceOrder(fills)
    PROVE  NetInv'
<1> DEFINE s == onExchange.side
           e == "execution"
           new == [onExchange EXCEPT !.fills = fills, !.status = StatusAfter(Len(fills))]
<1>1. <<>> \in FillLists /\ fills \in FillLists /\ StartOf(<<>>, fills) /\ StartOf(fills, fills) /\ Len(fills) \in Nat
  <2>1. <<>> \in FillLists /\ \A a \in FeeAssets : <<a>> \in FillLists
    BY DEF FillLists
  <2>2. fills \in FillLists
    BY <2>1
  <2> QED BY <2>1, <2>2, EmptyIsStart
<1>2. onExchange.status = "NONE" /\ onExchange.fills = <<>> /\ ~OrderEnded /\ s \in {"BUY", "SELL"}
  BY DEF PlaceOrder, NetInv, OrderEnded, Ended, OrderRow
<1>3. StatusAfter(Len(fills)) \in {"PENDING", "PARTIALLY_FILLED", "FILLED"}
  BY DEF StatusAfter
<1>4. /\ onExchange' \in OrderRow /\ onExchange'.side = s /\ onExchange'.fills = fills
      /\ onExchange'.status = StatusAfter(Len(fills)) /\ onExchange'.status # "NONE"
  BY <1>1, <1>3 DEF PlaceOrder, NetInv, OrderRow, OrderStates
<1>5. OrderEnded' \in BOOLEAN /\ OrderEnded' = (StatusAfter(Len(fills)) \in Ended)
  BY <1>4 DEF OrderEnded
<1>6. Within(record, s, fills, OrderEnded')
  <2>1. Within(record, s, <<>>, OrderEnded) /\ OrderEnded \in BOOLEAN
    BY <1>2, WhatIsKnown
  <2>2. PICK after \in BOOLEAN : after = OrderEnded'
    BY <1>5
  <2>3. Within(record, s, fills, after)
    BY <1>1, <1>2, <2>1, WithinGrows
  <2> QED BY <2>2, <2>3
<1>7. \A r \in Readers : Aware(r, reader[r], s, fills, OrderEnded')
  <2> TAKE r \in Readers
  <2>1. Aware(r, reader[r], s, <<>>, FALSE)
    BY <1>2, WhatIsKnown
  <2> QED BY <1>1, <1>2, <1>5, <2>1, AwareGrows
<1>8. e \in Readers /\ reader[e] \in CallRow /\ reader[e].at = "idle"
  BY DEF PlaceOrder, NetInv, Readers
<1>9. Aware(e, reader[e], s, fills, OrderEnded')
  BY <1>7, <1>8
<1>10. ASSUME NEW reading \in CallRow, reader' = [reader EXCEPT ![e] = reading], reading.at # "report",
              Aware(e, reading, s, fills, OrderEnded')
       PROVE  NetInv'
  <2>1. reader' \in [Readers -> CallRow] /\ reader'[e] = reading
    BY <1>8, <1>10 DEF NetInv
  <2>2. \A r \in Readers : Aware(r, reader'[r], s, fills, OrderEnded')
    BY <1>7, <1>10 DEF NetInv
  <2>3. record' = record
    BY DEF PlaceOrder
  <2> QED BY <1>4, <1>6, <1>10, <2>1, <2>2, <2>3 DEF NetInv
<1>11. CASE reader' = [reader EXCEPT ![e] = [@ EXCEPT !.at = "record", !.executed = Len(fills),
                                                      !.status = StatusAfter(Len(fills)), !.fills = fills]]
  <2>1. PICK reading : reading = [reader[e] EXCEPT !.at = "record", !.executed = Len(fills),
                                             !.status = StatusAfter(Len(fills)), !.fills = fills]
    OBVIOUS
  <2>2. /\ reading \in CallRow /\ reading.executed = Len(fills) /\ reading.status = StatusAfter(Len(fills))
        /\ reading.fills = fills /\ reading.at = "record" /\ reading.row = reader[e].row
    BY <1>1, <1>3, <1>8, <2>1 DEF CallRow, OrderStates
  <2>3. Aware(e, reading, s, fills, OrderEnded')
    <3>1. e \notin OrderSyncs
      BY NetFillsAssumption
    <3>2. Within(reading.row, s, fills, OrderEnded')
      BY <1>9, <2>2 DEF Aware
    <3>3. reading.executed \in 0..Len(fills) /\ reading.executed <= Len(reading.fills)
      BY <1>1, <2>2
    <3>4. reading.status \in Ended => OrderEnded' /\ reading.executed = Len(fills)
      BY <1>5, <2>2
    <3> QED BY <1>1, <2>2, <3>1, <3>2, <3>3, <3>4 DEF Aware
  <2>4. reader' = [reader EXCEPT ![e] = reading]
    BY <1>8, <1>11, <2>1
  <2> QED BY <1>10, <2>2, <2>3, <2>4
<1>12. CASE reader' = [reader EXCEPT ![e].at = "find"]
  <2>1. PICK reading : reading = [reader[e] EXCEPT !.at = "find"]
    OBVIOUS
  <2>2. /\ reading \in CallRow /\ reading.executed = reader[e].executed /\ reading.fills = reader[e].fills
        /\ reading.at = "find" /\ reading.row = reader[e].row
    BY <1>8, <2>1 DEF CallRow
  <2>3. Aware(e, reading, s, fills, OrderEnded')
    BY <1>8, <1>9, <2>2 DEF Aware
  <2>4. reader' = [reader EXCEPT ![e] = reading]
    BY <1>8, <1>12, <2>1
  <2> QED BY <1>10, <2>2, <2>3, <2>4
<1> QED BY <1>11, <1>12 DEF PlaceOrder

\* A call writes the row and ends.
LEMMA RowKeeps ==
    ASSUME NetInv, NEW r \in Readers, NEW row \in RecordRow, record' = row,
           Within(row, onExchange.side, onExchange.fills, OrderEnded),
           NEW at \in {"idle", "done"}, reader' = [reader EXCEPT ![r] = [NotReading EXCEPT !.at = at]],
           UNCHANGED onExchange
    PROVE  NetInv'
<1>1. PICK reading : reading = [NotReading EXCEPT !.at = at]
  OBVIOUS
<1>2. reading \in CallRow /\ reading.fills = <<>> /\ reading.executed = 0 /\ reading.at = at
      /\ reading.row = NotRecorded
  BY <1>1, NotReadingKnows, EmptyIsStart, WhatIsKnown DEF CallRow, NotReading
<1>3. Aware(r, reading, onExchange.side, onExchange.fills, OrderEnded)
  BY <1>2, WhatIsKnown, NotReadingKnows, EmptyIsStart DEF Aware
<1>4. OrderEnded' = OrderEnded
  BY DEF OrderEnded
<1>5. /\ reader' \in [Readers -> CallRow] /\ reader'["execution"].at # "report"
      /\ \A q \in Readers : Aware(q, reader'[q], onExchange.side, onExchange.fills, OrderEnded)
  BY <1>1, <1>2, <1>3 DEF NetInv, Readers
<1> QED BY <1>4, <1>5 DEF NetInv

LEMMA RecordOrderKeeps == ASSUME NetInv, RecordOrder PROVE NetInv'
<1> DEFINE s == onExchange.side
           g == onExchange.fills
           r == reader["execution"]
           net == NetOf(s, r.executed, r.fills)
<1>1. PICK row : row = [status |-> r.status, filled |-> r.executed, quantity |-> net.quantity,
                        quote |-> net.quote, fee |-> QuoteFee(r.fills, 0)]
  OBVIOUS
<1>2. record' = row /\ UNCHANGED onExchange /\ r.at = "record"
      /\ reader' = [reader EXCEPT !["execution"] = [NotReading EXCEPT !.at = "done"]]
  BY <1>1, NetFillIsNet DEF RecordOrder
<1>3. "execution" \in Readers /\ "execution" \notin OrderSyncs
  BY NetFillsAssumption DEF Readers
<1>4. /\ r \in CallRow /\ r.executed \in Nat /\ r.fills \in FillLists /\ StartOf(r.fills, g)
         /\ r.executed <= Len(r.fills)
      /\ r.status \in Ended => OrderEnded /\ r.executed = Len(g)
  BY <1>2, <1>3, WhatIsKnown DEF Aware, CallRow
<1>5. /\ net.quantity \in Nat /\ net.quote \in Nat /\ QuoteFee(r.fills, 0) \in Nat
  BY <1>4, WhatIsKnown, NetGrows, QuoteFeeIsNat
<1>6. row \in RecordRow
  BY <1>1, <1>4, <1>5 DEF RecordRow, CallRow
<1>7. Within(row, s, g, OrderEnded)
  <2>1. Within(NotRecorded, s, g, OrderEnded) /\ NotRecorded.quantity = 0 /\ NotRecorded.quote = 0
        /\ NotRecorded.fee = 0
    BY WhatIsKnown, NotReadingKnows DEF NotRecorded
  <2>2. /\ row.quantity = NotRecorded.quantity + Clamp(net.quantity - NotRecorded.quantity)
        /\ row.quote = NotRecorded.quote + Clamp(net.quote - NotRecorded.quote)
    BY <1>1, <1>5, <2>1 DEF Clamp
  <2>3. /\ row.filled = r.executed /\ row.fee = QuoteFee(r.fills, NotRecorded.fee)
        /\ row.status \in Ended => OrderEnded /\ r.executed = Len(g)
    BY <1>1, <1>4, <2>1
  <2> QED BY <1>4, <2>1, <2>2, <2>3, WhatIsKnown, RecordsWithin
<1> QED BY <1>2, <1>3, <1>6, <1>7, RowKeeps

LEMMA RecordSyncKeeps == ASSUME NetInv, NEW r \in Readers, RecordSync(r) PROVE NetInv'
<1> DEFINE s == onExchange.side
           g == onExchange.fills
           reading == reader[r]
           old == reading.row
           new == NetOf(s, reading.executed, reading.fills)
<1>1. r \in OrderSyncs /\ reading.at = "record" /\ UNCHANGED onExchange /\ reader' = [reader EXCEPT ![r] = NotReading]
  BY DEF RecordSync
<1>2. /\ reading \in CallRow /\ reading.executed \in 0..Len(g) /\ reading.executed \in Nat
         /\ reading.fills \in FillLists
      /\ StartOf(reading.fills, g) /\ (reading.status \in Ended => OrderEnded /\ reading.executed = Len(g))
      /\ Within(old, s, g, OrderEnded)
      /\ IF News(old, reading.executed) THEN reading.executed <= Len(reading.fills) ELSE reading.fills = <<>>
  BY <1>1, WhatIsKnown DEF Aware, CallRow
<1>3. old \in RecordRow /\ old.quantity \in Nat /\ old.quote \in Nat /\ old.fee \in Nat /\ old.filled \in Nat
      /\ record \in RecordRow
  BY <1>2, WhatIsKnown DEF CallRow, RecordRow
<1>4. NotReading = [NotReading EXCEPT !.at = "idle"]
  BY DEF NotReading
<1>5. CASE News(old, reading.executed)
  <2>1. PICK row : row = [status |-> reading.status, filled |-> reading.executed,
                          quantity |-> old.quantity + Clamp(new.quantity - old.quantity),
                          quote |-> old.quote + Clamp(new.quote - old.quote),
                          fee |-> QuoteFee(reading.fills, old.fee)]
    OBVIOUS
  <2>2. record' = row
    BY <1>3, <1>5, <2>1, NetFillIsNet DEF RecordSync, RecordRow
  <2>3. reading.executed <= Len(reading.fills)
    BY <1>2, <1>5
  <2>4. Within(row, s, g, OrderEnded)
    BY <1>2, <2>1, <2>3, WhatIsKnown, RecordsWithin
  <2>5. row \in RecordRow
    BY <1>2, <2>1, <2>4 DEF Within, RecordRow, CallRow
  <2> QED BY <1>1, <1>4, <2>2, <2>4, <2>5, RowKeeps
<1>6. CASE ~News(old, reading.executed)
  <2>1. PICK row : row = [status |-> reading.status, filled |-> reading.executed,
                          quantity |-> old.quantity + Clamp(old.quantity - old.quantity),
                          quote |-> old.quote + Clamp(old.quote - old.quote),
                          fee |-> QuoteFee(reading.fills, old.fee)]
    OBVIOUS
  <2>2. record' = row
    BY <1>3, <1>6, <2>1 DEF RecordSync, RecordRow
  <2>3. row.quantity = old.quantity /\ row.quote = old.quote
    BY <1>3, <2>1 DEF Clamp
  <2>4. Within(row, s, g, OrderEnded)
    <3>1. reading.executed <= old.filled
      BY <1>2, <1>3, <1>6 DEF News
    <3>2. <<>> \in FillLists /\ NoneCharged(<<>>)
      BY EmptyIsStart DEF NoneCharged, FillLists
    <3>3. row.fee = old.fee
      BY <1>2, <1>3, <1>6, <2>1, <3>2, QuoteFeeIsNat
    <3> QED BY <1>2, <2>1, <2>3, <3>1, <3>3, WhatIsKnown, RecordsAgain
  <2>5. row \in RecordRow
    BY <1>2, <2>1, <2>4 DEF Within, RecordRow, CallRow
  <2> QED BY <1>1, <1>4, <2>2, <2>4, <2>5, RowKeeps
<1> QED BY <1>5, <1>6

LEMMA NetInvNext == NetInv /\ [NetNext]_netVars => NetInv'
<1> SUFFICES ASSUME NetInv, [NetNext]_netVars PROVE NetInv'
  OBVIOUS
<1>1. CASE UNCHANGED netVars
  BY <1>1 DEF netVars, NetInv, OrderEnded
<1>2. OrderSyncs \subseteq Readers
  BY DEF Readers
<1> QED BY <1>1, <1>2, OrderFillsKeeps, OrderEndsKeeps, PlaceOrderKeeps, FindOrderKeeps, RecordOrderKeeps,
           ReadTradesKeeps, ReadReportKeeps, ReadRecordKeeps, SyncGivesUpKeeps, RecordSyncKeeps
        DEF NetNext

\* For any sizes of fills and fees and any number of overlapping syncs: the row of an
\* order claims no more than the account got and paid, and says exactly that once it
\* has ended (TestnetStrategyExecutionService.syncOrder, netFill).
THEOREM FillsAreExact == NetSpec => []NetFillsExact
<1>1. NetInv => NetFillsExact
  BY NetFillIsNet DEF NetInv, Within, NetFillsExact
<1> QED BY <1>1, NetInvInit, NetInvNext, PTL DEF NetSpec

-----------------------------------------------------------------------------
(* The platform as it is checked: what each part does in it, it does alone.   *)

\* A step of the platform is a step of a part, or leaves that part alone.
LEMMA PartsPlay ==
    ASSUME [PlatformNext]_platformVars
    PROVE  /\ [Next]_vars
           /\ [RunsNext]_runsVars
           /\ [DeskNext]_deskVars
           /\ [PaperNext]_paperVars
           /\ [SimulatorNext]_simVars
           /\ [CandlesNext]_candleVars
           /\ [LinkNext]_linkVars
           /\ [DeliveryNext]_deliveryVars
           /\ [SignalsNext]_signalVars
           /\ [AccountNext]_accountVars
           /\ [QuotesNext]_quotesVars
           /\ [ListNext]_listVars
           /\ [StreamsNext]_streamVars
           /\ [CatalogueNext]_catalogueVars
           /\ [SettingsNext]_settingsVars
           /\ [NetNext]_netVars
           /\ [DemoNext]_demoVars
           /\ [ReportNext]_reportVars
<1>1. [Next]_vars
  BY DEF PlatformNext, platformVars, InScheduler, InBacktests, InDesk, InPaper, InSimulation, InCandles,
         InTelegram, InNotifications, InSignals, InAccounts, InQuotes, InList, InStreams, InCatalogue,
         InSettings, InFills, InDemo, InReport
<1>2. [RunsNext]_runsVars
  BY DEF PlatformNext, platformVars, InScheduler, InBacktests, InDesk, InPaper, InSimulation, InCandles,
         InTelegram, InNotifications, InSignals, InAccounts, InQuotes, InList, InStreams, InCatalogue,
         InSettings, InFills, InDemo, InReport
<1>3. [DeskNext]_deskVars
  BY DEF PlatformNext, platformVars, InScheduler, InBacktests, InDesk, InPaper, InSimulation, InCandles,
         InTelegram, InNotifications, InSignals, InAccounts, InQuotes, InList, InStreams, InCatalogue,
         InSettings, InFills, InDemo, InReport
<1>4. [PaperNext]_paperVars
  BY DEF PlatformNext, platformVars, InScheduler, InBacktests, InDesk, InPaper, InSimulation, InCandles,
         InTelegram, InNotifications, InSignals, InAccounts, InQuotes, InList, InStreams, InCatalogue,
         InSettings, InFills, InDemo, InReport
<1>5. [SimulatorNext]_simVars
  BY DEF PlatformNext, platformVars, InScheduler, InBacktests, InDesk, InPaper, InSimulation, InCandles,
         InTelegram, InNotifications, InSignals, InAccounts, InQuotes, InList, InStreams, InCatalogue,
         InSettings, InFills, InDemo, InReport
<1>6. [CandlesNext]_candleVars
  BY DEF PlatformNext, platformVars, InScheduler, InBacktests, InDesk, InPaper, InSimulation, InCandles,
         InTelegram, InNotifications, InSignals, InAccounts, InQuotes, InList, InStreams, InCatalogue,
         InSettings, InFills, InDemo, InReport
<1>7. [LinkNext]_linkVars
  BY DEF PlatformNext, platformVars, InScheduler, InBacktests, InDesk, InPaper, InSimulation, InCandles,
         InTelegram, InNotifications, InSignals, InAccounts, InQuotes, InList, InStreams, InCatalogue,
         InSettings, InFills, InDemo, InReport
<1>8. [DeliveryNext]_deliveryVars
  BY DEF PlatformNext, platformVars, InScheduler, InBacktests, InDesk, InPaper, InSimulation, InCandles,
         InTelegram, InNotifications, InSignals, InAccounts, InQuotes, InList, InStreams, InCatalogue,
         InSettings, InFills, InDemo, InReport
<1>9. [SignalsNext]_signalVars
  BY DEF PlatformNext, platformVars, InScheduler, InBacktests, InDesk, InPaper, InSimulation, InCandles,
         InTelegram, InNotifications, InSignals, InAccounts, InQuotes, InList, InStreams, InCatalogue,
         InSettings, InFills, InDemo, InReport
<1>10. [AccountNext]_accountVars
  BY DEF PlatformNext, platformVars, InScheduler, InBacktests, InDesk, InPaper, InSimulation, InCandles,
         InTelegram, InNotifications, InSignals, InAccounts, InQuotes, InList, InStreams, InCatalogue,
         InSettings, InFills, InDemo, InReport
<1>11. [QuotesNext]_quotesVars
  BY DEF PlatformNext, platformVars, InScheduler, InBacktests, InDesk, InPaper, InSimulation, InCandles,
         InTelegram, InNotifications, InSignals, InAccounts, InQuotes, InList, InStreams, InCatalogue,
         InSettings, InFills, InDemo, InReport
<1>12. [ListNext]_listVars
  BY DEF PlatformNext, platformVars, InScheduler, InBacktests, InDesk, InPaper, InSimulation, InCandles,
         InTelegram, InNotifications, InSignals, InAccounts, InQuotes, InList, InStreams, InCatalogue,
         InSettings, InFills, InDemo, InReport
<1>13. [StreamsNext]_streamVars
  BY DEF PlatformNext, platformVars, InScheduler, InBacktests, InDesk, InPaper, InSimulation, InCandles,
         InTelegram, InNotifications, InSignals, InAccounts, InQuotes, InList, InStreams, InCatalogue,
         InSettings, InFills, InDemo, InReport
<1>14. [CatalogueNext]_catalogueVars
  BY DEF PlatformNext, platformVars, InScheduler, InBacktests, InDesk, InPaper, InSimulation, InCandles,
         InTelegram, InNotifications, InSignals, InAccounts, InQuotes, InList, InStreams, InCatalogue,
         InSettings, InFills, InDemo, InReport
<1>15. [SettingsNext]_settingsVars
  BY DEF PlatformNext, platformVars, InScheduler, InBacktests, InDesk, InPaper, InSimulation, InCandles,
         InTelegram, InNotifications, InSignals, InAccounts, InQuotes, InList, InStreams, InCatalogue,
         InSettings, InFills, InDemo, InReport
<1>16. [NetNext]_netVars
  BY DEF PlatformNext, platformVars, InScheduler, InBacktests, InDesk, InPaper, InSimulation, InCandles,
         InTelegram, InNotifications, InSignals, InAccounts, InQuotes, InList, InStreams, InCatalogue,
         InSettings, InFills, InDemo, InReport
<1>17. [DemoNext]_demoVars
  BY DEF PlatformNext, platformVars, InScheduler, InBacktests, InDesk, InPaper, InSimulation, InCandles,
         InTelegram, InNotifications, InSignals, InAccounts, InQuotes, InList, InStreams, InCatalogue,
         InSettings, InFills, InDemo, InReport
<1>18. [ReportNext]_reportVars
  BY DEF PlatformNext, platformVars, InScheduler, InBacktests, InDesk, InPaper, InSimulation, InCandles,
         InTelegram, InNotifications, InSignals, InAccounts, InQuotes, InList, InStreams, InCatalogue,
         InSettings, InFills, InDemo, InReport
<1> QED BY <1>1, <1>2, <1>3, <1>4, <1>5, <1>6, <1>7, <1>8, <1>9, <1>10, <1>11, <1>12, <1>13, <1>14, <1>15, <1>16, <1>17, <1>18

\* Every behaviour of the platform is a behaviour of each of its parts: what is proved
\* of a part holds of the platform that the runs check.
THEOREM PlatformHasParts ==
    PlatformSpec =>
        /\ Spec
        /\ RunsSpec
        /\ DeskSpec
        /\ PaperSpec
        /\ SimulatorSpec
        /\ CandlesSpec
        /\ LinkSpec
        /\ DeliverySpec
        /\ SignalsSpec
        /\ AccountSpec
        /\ QuotesSpec
        /\ ListSpec
        /\ StreamsSpec
        /\ CatalogueSpec
        /\ SettingsSpec
        /\ NetSpec
        /\ DemoSpec
        /\ ReportSpec
<1>1. PlatformInit => Init /\ RunsInit /\ DeskInit /\ PaperInit /\ SimulatorInit /\ CandlesInit
                      /\ LinkInit /\ DeliveryInit /\ SignalsInit /\ AccountInit /\ QuotesInit /\ ListInit
                      /\ StreamsInit /\ CatalogueInit /\ SettingsInit /\ NetInit /\ DemoInit /\ ReportInit
  BY DEF PlatformInit
<1>2. [PlatformNext]_platformVars =>
        /\ [Next]_vars
        /\ [RunsNext]_runsVars
        /\ [DeskNext]_deskVars
        /\ [PaperNext]_paperVars
        /\ [SimulatorNext]_simVars
        /\ [CandlesNext]_candleVars
        /\ [LinkNext]_linkVars
        /\ [DeliveryNext]_deliveryVars
        /\ [SignalsNext]_signalVars
        /\ [AccountNext]_accountVars
        /\ [QuotesNext]_quotesVars
        /\ [ListNext]_listVars
        /\ [StreamsNext]_streamVars
        /\ [CatalogueNext]_catalogueVars
        /\ [SettingsNext]_settingsVars
        /\ [NetNext]_netVars
        /\ [DemoNext]_demoVars
        /\ [ReportNext]_reportVars
  BY PartsPlay
<1> QED BY <1>1, <1>2, PTL
        DEF PlatformSpec, Spec, RunsSpec, DeskSpec, PaperSpec, SimulatorSpec, CandlesSpec, LinkSpec, DeliverySpec, SignalsSpec,
            AccountSpec, QuotesSpec, ListSpec, StreamsSpec, CatalogueSpec, SettingsSpec, NetSpec, DemoSpec, ReportSpec

\* A backtest is sound from end to end: the candles it loads are all there are, the
\* money and the lots of its simulation agree, and its report is that of the points.
THEOREM BacktestsAreSound == PlatformSpec => []BacktestReportsSound
<1>1. LoadMissesNothing /\ SimulationBooksBalance /\ ReportMatchesPoints => BacktestReportsSound
  BY DEF BacktestReportsSound
<1> QED BY <1>1, PlatformHasParts, LoadsMissNothing, SimulationBooks, ReportIsOfPoints, PTL

-----------------------------------------------------------------------------
(* The types of every part, from the invariant its theorem rests on. *)

LEMMA SimIsTyped == SimInv => SimTypeOK
<1> SUFFICES ASSUME SimInv PROVE SimTypeOK
  OBVIOUS
<1>1. LotsOK(sim) /\ sim \in SimRows /\ trades \in TradeRows
  BY DEF SimInv, LotsOK, Books
<1>2. \A l \in DOMAIN sim.legs : l \in 1..sim.entries /\ sim.legs[l] \in Lots
  BY <1>1, LotsAre DEF LotsOK
<1>3. trades.entries \in Nat /\ trades.exits \in Nat
  BY <1>1 DEF TradeRows
<1> QED BY <1>1, <1>2, <1>3, RowIs DEF SimTypeOK

\* The types of all parts, in every behaviour of the platform.
THEOREM PlatformTyped == PlatformSpec => []TypesOK
<1>1. SettingsSpec => []SettingsTypeOK
  <2>1. SettingsInv => SettingsTypeOK
    BY DEF SettingsInv
  <2> QED BY <2>1, SettingsInvInit, SettingsInvNext, PTL DEF SettingsSpec
<1>2. DemoSpec => []DemoTypeOK
  <2>1. DemoInv => DemoTypeOK
    BY DEF DemoInv
  <2> QED BY <2>1, DemoInvInit, DemoInvNext, PTL DEF DemoSpec
<1>3. LinkSpec => []LinkTypeOK
  <2>1. LinkInv => LinkTypeOK
    BY DEF LinkInv
  <2> QED BY <2>1, LinkInvInit, LinkInvNext, PTL DEF LinkSpec
<1>4. QuotesSpec => []QuotesTypeOK
  <2>1. QuotesInv => QuotesTypeOK
    BY DEF QuotesInv
  <2> QED BY <2>1, QuotesInvInit, QuotesInvNext, PTL DEF QuotesSpec
<1>5. ListSpec => []ListTypeOK
  <2>1. ListInv => ListTypeOK
    BY DEF ListInv
  <2> QED BY <2>1, ListInvInit, ListInvNext, PTL DEF ListSpec
<1>6. StreamsSpec => []StreamsTypeOK
  <2>1. StreamsInv => StreamsTypeOK
    BY DEF StreamsInv, StreamsTypeOK
  <2> QED BY <2>1, StreamsInvInit, StreamsInvNext, PTL DEF StreamsSpec
<1>7. AccountSpec => []AccountTypeOK
  <2>1. AccountInv => AccountTypeOK
    BY DEF AccountInv, AccountTypeOK
  <2> QED BY <2>1, AccountInvInit, AccountInvStep, PTL DEF AccountSpec
<1>8. DeliverySpec => []DeliveryTypeOK
  <2>1. DeliveryInv => DeliveryTypeOK
    BY DEF DeliveryInv, DeliveryTypeOK, Explained
  <2> QED BY <2>1, DeliveryInvInit, DeliveryInvNext, PTL DEF DeliverySpec
<1>9. NetSpec => []NetTypeOK
  <2>1. NetInv => NetTypeOK
    BY DEF NetInv, NetTypeOK
  <2> QED BY <2>1, NetInvInit, NetInvNext, PTL DEF NetSpec
<1>10. CatalogueSpec => []CatalogueTypeOK
  <2>1. CatalogueInv => CatalogueTypeOK
    BY DEF CatalogueInv, CatalogueTypeOK, RowsOK
  <2> QED BY <2>1, CatalogueInvInit, CatalogueInvNext, PTL DEF CatalogueSpec
<1>11. PaperSpec => []PaperTypeOK
  <2>1. PaperInv => PaperTypeOK
    BY DEF PaperInv, RowsInv, WorkersInv, PaperTypeOK
  <2> QED BY <2>1, PaperInvInit, PaperInvNext, PTL DEF PaperSpec
<1>12. SignalsSpec => []SignalsTypeOK
  <2>1. SignalsInv => SignalsTypeOK
    BY DEF SignalsInv, SignalsTypeOK, Typed, UpToDate
  <2> QED BY <2>1, SignalsInvInit, SignalsInvNext, PTL DEF SignalsSpec
<1>13. CandlesSpec => []CandlesTypeOK
  <2>1. CandlesInv => CandlesTypeOK
    BY DEF CandlesInv, CandlesTypeOK
  <2> QED BY <2>1, CandlesInvInit, CandlesInvNext, PTL DEF CandlesSpec
<1>14. ReportSpec => []ReportTypeOK
  <2>1. ReportInv => ReportTypeOK
    BY DEF ReportInv, ReportTypeOK
  <2> QED BY <2>1, ReportInvInit, ReportInvNext, PTL DEF ReportSpec
<1>15. SimulatorSpec => []SimTypeOK
  <2>1. SimInv => SimTypeOK
    BY SimIsTyped
  <2> QED BY <2>1, SimInvInit, SimInvNext, PTL DEF SimulatorSpec
<1>16. RunsSpec => []RunsTypeOK
  <2>1. RunsInv => RunsTypeOK
    BY DEF RunsInv
  <2> QED BY <2>1, RunsInvariant, PTL
<1>17. /\ TypeOK /\ RunsTypeOK /\ DeskTypeOK /\ PaperTypeOK
       /\ SimTypeOK /\ CandlesTypeOK /\ LinkTypeOK /\ DeliveryTypeOK
       /\ SignalsTypeOK /\ AccountTypeOK /\ QuotesTypeOK /\ ListTypeOK
       /\ StreamsTypeOK /\ CatalogueTypeOK /\ SettingsTypeOK /\ NetTypeOK
       /\ DemoTypeOK /\ ReportTypeOK
       => TypesOK
  BY DEF TypesOK
<1> QED
  BY <1>1, <1>2, <1>3, <1>4, <1>5, <1>6, <1>7, <1>8, <1>9, <1>10,
     <1>11, <1>12, <1>13, <1>14, <1>15, <1>16, <1>17, PlatformHasParts, TypeCorrect, DeskTyped, PTL
=============================================================================
