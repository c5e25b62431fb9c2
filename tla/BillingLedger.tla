---------------------------- MODULE BillingLedger ----------------------------
(***************************************************************************)
(* BillingService (billing/billing.service.ts): the prepaid balance of every *)
(* user, the ledger behind it, the membership and the fees paid from it, and *)
(* the referral rewards paid out of the fees.                                *)
(*                                                                          *)
(* A database transaction is one step, because applyEntry only increments a  *)
(* balance and inserts a row under a unique key; activateMembership, which   *)
(* computes from what it read, is split into its read and its commit, and    *)
(* commits only when no row it touches has changed (isolation Serializable). *)
(* Amounts are whole units, time is a day.                                   *)
(***************************************************************************)
EXTENDS Integers, FiniteSets, Sequences, FiniteSetsExt

CONSTANTS
    Users,
    NoUser,
    Referrer,           \* Referrer[u]: who invited u, or NoUser
    Proposals,          \* settings an administrator may try to save
    DefaultSettings,    \* the settings the first getSettings creates
    Positions,          \* numbers of the LIVE positions closed since billing started
    Owner,              \* Owner[p]
    Profit,             \* Profit[p]: realized profit of p with its independent levels
    Requests,           \* concurrent membership activations
    FeeSchedulers,      \* instances whose profit-fee pass runs (its lock may have expired)
    MaxUuids,           \* bound: activations and adjustments of a behaviour
    MaxDay              \* bound: last day of a behaviour

VARIABLES
    registered,     \* users with an account and a deposit address
    balance,        \* balanceQuote
    expires,        \* membershipExpiresAt, as a day; 0 for none
    entries,        \* the BalanceEntry rows
    settings,
    today,
    position,       \* position[p]: OPEN, CLOSED or SETTLED
    pending,        \* pending[f]: positions fee pass f has still to settle
    request,        \* request[r]: the activation r has read for
    uuids           \* random reference ids given out

ledger == <<balance, entries>>
ledgerVars == <<registered, balance, expires, entries, settings, today, position, pending, request,
                uuids>>

MaxReferralLevels == 5

Percent(amount, p) == (amount * p) \div 100

Total(es) == MapThenSumSet(LAMBDA e : e.amount, es)
EntriesOf(u) == {e \in entries : e.user = u}

\* Mutant: all of a fee may be given away.
WholeFeeRewards(s) ==
    /\ s.membershipFee >= 0 /\ s.membershipDays \in 1..3660 /\ s.profitFeePercent \in 0..50
    /\ Len(s.referralPercents) <= MaxReferralLevels
    /\ \A l \in DOMAIN s.referralPercents : s.referralPercents[l] \in 0..100

\* What updateSettings accepts.
ValidSettings(s) ==
    /\ s.membershipFee >= 0 /\ s.membershipDays \in 1..3660 /\ s.profitFeePercent \in 0..50
    /\ Len(s.referralPercents) <= MaxReferralLevels
    /\ \A l \in DOMAIN s.referralPercents : s.referralPercents[l] >= 0
    /\ MapThenSumSet(LAMBDA l : s.referralPercents[l], DOMAIN s.referralPercents) <= 50

ASSUME BillingLedgerAssumption ==
    /\ NoUser \notin Users
    /\ Referrer \in [Users -> Users \cup {NoUser}]
    /\ Owner \in [Positions -> Users]
    /\ Profit \in [Positions -> Int]
    /\ Proposals \cup {DefaultSettings} \subseteq
         [membershipFee : Int, membershipDays : Int, profitFeePercent : Int, referralPercents : Seq(Int)]
    /\ ValidSettings(DefaultSettings)

NoRequest == [user |-> NoUser]

InitLedger == /\ registered = {}
              /\ balance = [u \in Users |-> 0]
              /\ expires = [u \in Users |-> 0]
              /\ entries = {}
              /\ settings = DefaultSettings
              /\ today = 1
              /\ position = [p \in Positions |-> "OPEN"]
              /\ pending = [f \in FeeSchedulers |-> {}]
              /\ request = [r \in Requests |-> NoRequest]
              /\ uuids = 0

----------------------------------------------------------------------------
\* What a transaction sees of the settings and the memberships.
Now == [settings |-> settings, expires |-> expires]

Active(seen, u) == seen.expires[u] > today

\* The uplines of u: level l is who invited level l - 1.
Uplines(u) ==
    LET up[l \in 0..MaxReferralLevels] ==
            IF l = 0 THEN u ELSE IF up[l - 1] = NoUser THEN NoUser ELSE Referrer[up[l - 1]]
    IN up

\* distributeReferralRewards: the levels that are paid for a fee.
PaidLevels(seen, payer, fee) ==
    {l \in DOMAIN seen.settings.referralPercents :
        LET upline == Uplines(payer)[l]
        IN /\ upline # NoUser
           /\ Active(seen, upline)
           /\ Percent(fee, seen.settings.referralPercents[l]) > 0}

Rewards(seen, payer, type, id, fee) ==
    {[user |-> Uplines(payer)[l], type |-> type, id |-> id, level |-> l,
      amount |-> Percent(fee, seen.settings.referralPercents[l])] : l \in PaidLevels(seen, payer, fee)}

\* applyEntry, for all the entries of one transaction; an entry is known by its
\* user, type and reference, a reward by the fee it is paid from and its level.
Recorded(u, type, id) ==
    \E e \in entries : e.user = u /\ e.type = type /\ e.id = id /\ e.level = 0

Post(new) ==
    /\ entries' = entries \cup new
    /\ balance' = [u \in Users |-> balance[u] + Total({e \in new : e.user = u})]

Credit(u, type, id, amount) ==
    Post({[user |-> u, type |-> type, id |-> id, level |-> 0, amount |-> amount]})

\* A fee and the rewards paid out of it; nothing when it was applied already.
Charge(seen, u, type, id, fee) ==
    IF Recorded(u, type, id) THEN UNCHANGED ledger
    ELSE Post({[user |-> u, type |-> type, id |-> id, level |-> 0, amount |-> -fee]}
                \cup Rewards(seen, u, type, id, fee))

----------------------------------------------------------------------------
\* ensureAccount at registration: the account with its deposit address, for an
\* invited user after the one who invited.
Register(u) ==
    /\ u \notin registered
    /\ Referrer[u] \in registered \cup {NoUser}
    /\ registered' = registered \cup {u}
    /\ UNCHANGED <<balance, expires, entries, settings, today, position, pending, request, uuids>>

\* updateSettings of an administrator.
UpdateSettings ==
    /\ \E s \in Proposals : ValidSettings(s) /\ settings' = s
    /\ UNCHANGED <<registered, balance, expires, entries, today, position, pending, request, uuids>>

\* adminAdjust: a refund, a promotion or a debit.
AdminAdjust(u, amount) ==
    /\ u \in registered
    /\ uuids < MaxUuids
    /\ uuids' = uuids + 1
    /\ Credit(u, "ADMIN_ADJUSTMENT", uuids', amount)
    /\ UNCHANGED <<registered, expires, settings, today, position, pending, request>>

DayPasses ==
    /\ today < MaxDay
    /\ today' = today + 1
    /\ UNCHANGED <<registered, balance, expires, entries, settings, position, pending, request, uuids>>

----------------------------------------------------------------------------
\* activateMembership: the transaction reads; the balance must cover the fee.
ActivateRead(r, u) ==
    /\ request[r] = NoRequest
    /\ u \in registered
    /\ uuids < MaxUuids
    /\ balance[u] >= settings.membershipFee
    /\ request' = [request EXCEPT ![r] =
                     [user |-> u, seen |-> Now, balance |-> balance,
                      until |-> Max({today, expires[u]}) + settings.membershipDays]]
    /\ UNCHANGED <<registered, balance, expires, entries, settings, today, position, pending, uuids>>

\* Mutant: the default isolation, where a row may have changed since it was read.
ReadCommitted(r) == TRUE

\* Serializable: the rows the transaction writes are still as it read them (a
\* row that was changed and changed back is taken for unchanged).
Unchanged(r) ==
    LET u == request[r].user
        seen == request[r].seen
        written == {u} \cup {Uplines(u)[l] : l \in PaidLevels(seen, u, seen.settings.membershipFee)}
    IN \A v \in written : balance[v] = request[r].balance[v] /\ expires[v] = seen.expires[v]

\* ... and commits: fee, rewards and the new expiry.
ActivateCommit(r) ==
    LET u == request[r].user
    IN /\ request[r] # NoRequest
       /\ Unchanged(r)
       /\ uuids < MaxUuids
       /\ uuids' = uuids + 1
       /\ Charge(request[r].seen, u, "MEMBERSHIP_FEE", uuids',
                 request[r].seen.settings.membershipFee)
       /\ expires' = [expires EXCEPT ![u] = request[r].until]
       /\ request' = [request EXCEPT ![r] = NoRequest]
       /\ UNCHANGED <<registered, settings, today, position, pending>>

\* The transaction is rolled back, or the process dies.
ActivateFails(r) ==
    /\ request[r] # NoRequest
    /\ request' = [request EXCEPT ![r] = NoRequest]
    /\ UNCHANGED <<registered, balance, expires, entries, settings, today, position, pending, uuids>>

----------------------------------------------------------------------------
\* The bot closes a position of a LIVE strategy, with its profit final.
ClosePosition(p) ==
    /\ Owner[p] \in registered
    /\ position[p] = "OPEN"
    /\ position' = [position EXCEPT ![p] = "CLOSED"]
    /\ UNCHANGED <<registered, balance, expires, entries, settings, today, pending, request, uuids>>

\* settlePendingFees lists the positions that are not settled ...
FeePassLists(f) ==
    /\ pending[f] = {}
    /\ pending' = [pending EXCEPT ![f] = {p \in Positions : position[p] = "CLOSED"}]
    /\ pending'[f] # {}
    /\ UNCHANGED <<registered, balance, expires, entries, settings, today, position, request, uuids>>

FeeOf(p) == IF Profit[p] > 0 THEN Percent(Profit[p], settings.profitFeePercent) ELSE 0

\* Mutants: a position is claimed outside the transaction, which may fail after
\* it; a fee the balance does not cover is left for later.
SettleClaimOnly(f, p) ==
    /\ p \in pending[f]
    /\ pending' = [pending EXCEPT ![f] = @ \ {p}]
    /\ position' = [position EXCEPT ![p] = "SETTLED"]
    /\ UNCHANGED <<registered, balance, expires, entries, settings, today, request, uuids>>

SettleWhenCovered(f, p) ==
    /\ p \in pending[f]
    /\ pending' = [pending EXCEPT ![f] = @ \ {p}]
    /\ IF position[p] = "CLOSED" /\ balance[Owner[p]] >= FeeOf(p)
       THEN /\ position' = [position EXCEPT ![p] = "SETTLED"]
            /\ IF FeeOf(p) > 0 THEN Charge(Now, Owner[p], "PROFIT_FEE", p, FeeOf(p))
               ELSE UNCHANGED ledger
       ELSE UNCHANGED <<position, ledger>>
    /\ UNCHANGED <<registered, expires, settings, today, request, uuids>>

\* ... and settleProfitFee claims one and charges the fee in one transaction.
Settle(f, p) ==
    /\ p \in pending[f]
    /\ pending' = [pending EXCEPT ![f] = @ \ {p}]
    /\ IF position[p] = "CLOSED"
       THEN /\ position' = [position EXCEPT ![p] = "SETTLED"]
            /\ IF FeeOf(p) > 0 THEN Charge(Now, Owner[p], "PROFIT_FEE", p, FeeOf(p))
               ELSE UNCHANGED ledger
       ELSE UNCHANGED <<position, ledger>>
    /\ UNCHANGED <<registered, expires, settings, today, request, uuids>>

\* The transaction fails and the pass goes on with the next position.
SettleFails(f, p) ==
    /\ p \in pending[f]
    /\ pending' = [pending EXCEPT ![f] = @ \ {p}]
    /\ UNCHANGED <<registered, balance, expires, entries, settings, today, position, request, uuids>>

FeePassCrashes(f) ==
    /\ pending[f] # {}
    /\ pending' = [pending EXCEPT ![f] = {}]
    /\ UNCHANGED <<registered, balance, expires, entries, settings, today, position, request, uuids>>
=============================================================================
