----------------------------- MODULE RedisLock -----------------------------
(***************************************************************************)
(* One key of RedisLockService (redis/redis-lock.service.ts): the token     *)
(* stored under the key and the time it has left.  Each operation is one    *)
(* Redis command or one Lua script, so each is one atomic step.             *)
(***************************************************************************)
EXTENDS Naturals

CONSTANTS
    Tokens,     \* the values randomUUID() may return
    NoToken,    \* the key is absent, or a process holds no lock
    TTL         \* ttlMilliseconds, in clock ticks

ASSUME RedisLockAssumption == /\ NoToken \notin Tokens
                              /\ TTL \in Nat \ {0}

VARIABLE key    \* [token, ttl]; a ttl of 0 on a present key never expires

FreeKey == [token |-> NoToken, ttl |-> 0]

KeyType == [token : Tokens \cup {NoToken}, ttl : 0..TTL]

\* Mutants: SET without NX, and SET without PX.
AcquireAnyway(t) == key' = [token |-> t, ttl |-> TTL]
AcquireForever(t) == /\ key.token = NoToken
                     /\ key' = [token |-> t, ttl |-> 0]

\* SET key token NX PX ttl: succeeds only when the key is absent.
Acquire(t) == /\ key.token = NoToken
              /\ key' = [token |-> t, ttl |-> TTL]

\* get = token, then del.
Release(t) == key' = IF key.token = t THEN FreeKey ELSE key

\* get = token, then pexpire.
Extend(t) == key' = IF key.token = t THEN [key EXCEPT !.ttl = TTL] ELSE key

\* Redis lets one tick of the key's life pass.
Age == key' = CASE key.ttl = 0 -> key
                [] key.ttl = 1 -> FreeKey
                [] OTHER       -> [key EXCEPT !.ttl = @ - 1]
=============================================================================
