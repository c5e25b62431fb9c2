------------------------------- MODULE Billing -------------------------------
(***************************************************************************)
(* The billing of the platform: the ledger with everything that writes it    *)
(* at the same time: the deposit scanners, the profit-fee passes, the        *)
(* membership requests of the users and the administrator.                   *)
(***************************************************************************)
EXTENDS DepositScanner

CONSTANT Adjustments   \* amounts the administrator may adjust by

ASSUME BillingAssumption == Adjustments \subseteq Int

vars == <<ledgerVars, chainVars, scanVars>>

Init == InitLedger /\ InitScanner

LedgerStep ==
    \/ \E u \in Users : Register(u)
    \/ UpdateSettings
    \/ \E u \in Users, amount \in Adjustments : AdminAdjust(u, amount)
    \/ DayPasses
    \/ \E r \in Requests : \/ \E u \in Users : ActivateRead(r, u)
                           \/ ActivateCommit(r)
                           \/ ActivateFails(r)
    \/ \E p \in Positions : ClosePosition(p)
    \/ \E f \in FeeSchedulers : \/ FeePassLists(f) \/ FeePassCrashes(f)
                                \/ \E p \in Positions : Settle(f, p) \/ SettleFails(f, p)

Next ==
    \/ LedgerStep /\ UNCHANGED <<chainVars, scanVars>>
    \/ Mine
    \/ \E s \in Scanners : \/ ScanStep(s)
                           \/ ScanFails(s)
                           \/ \E d \in Deposits : CreditLog(s, d)

Spec == Init /\ [][Next]_vars
----------------------------------------------------------------------------
\* A balance is the sum of the entries of its user (schema.prisma:192), so no
\* transfer, fee or reward moves it twice or without an entry.
LedgerBacksBalance == \A u \in Users : balance[u] = Total(EntriesOf(u))

Credited(d) == Amount[d] = 0 \/ Recorded(Receiver[d], "DEPOSIT", d)

\* Every transfer in the blocks that count as scanned is credited, although
\* addresses appear, passes overlap and fail half way, and progress is one number
\* ("a failed range is retried", bsc-deposit.scanner.ts:110).
ScannedDepositsCredited ==
    \A d \in Deposits :
        block[d] # 0 /\ firstBlock # NoBlock /\ block[d] \in firstBlock..lastScanned => Credited(d)

\* Each membership fee that was paid bought its days after the ones paid before
\* ("Extending adds time after the current expiry", admin-operations.md:91).
PaidDays(u) == {e \in EntriesOf(u) : e.type = "MEMBERSHIP_FEE" /\ e.level = 0}
PaidDaysGranted ==
    \A u \in Users : expires[u] >= Cardinality(PaidDays(u)) * DefaultSettings.membershipDays

\* A membership is never bought on credit: the fee leaves no debt, also when a
\* profit fee is charged while the request is being answered.
NoMembershipOnCredit ==
    [][\A u \in Users : PaidDays(u)' # PaidDays(u) => balance'[u] >= 0]_vars

\* The profit of p is worth a fee under every setting that can be saved.
FeeAlwaysDue(p) ==
    /\ Profit[p] > 0
    /\ \A s \in Proposals \cup {DefaultSettings} :
         ValidSettings(s) => Percent(Profit[p], s.profitFeePercent) > 0

\* The claim of a position and its charge are one transaction: no fee without a
\* settled position, and no profitable position settled without its fee, whatever
\* two fee passes and the administrator do (billing.service.ts:196-221).
SettledMeansCharged ==
    \A p \in Positions :
        /\ Recorded(Owner[p], "PROFIT_FEE", p) => position[p] = "SETTLED"
        /\ position[p] = "SETTLED" /\ FeeAlwaysDue(p) => Recorded(Owner[p], "PROFIT_FEE", p)

\* Rewards come only out of fees actually paid and never take more than half of
\* one, whatever the settings become (admin-operations.md:94).
RewardsWithinFee ==
    \A e \in entries : e.level > 0 =>
        \E fee \in entries :
            /\ fee.type = e.type /\ fee.id = e.id /\ fee.level = 0
            /\ 2 * Total({x \in entries : x.type = e.type /\ x.id = e.id /\ x.level > 0}) <= -fee.amount

\* Every transfer to a deposit address is credited at last, and every LIVE
\* position that closes is settled at last.
DepositsCredited == \A d \in Deposits : block[d] # 0 ~> Credited(d)
FeesSettled == \A p \in Positions : position[p] = "CLOSED" ~> position[p] = "SETTLED"
----------------------------------------------------------------------------
\* Why no fee is lost or charged twice.
SettlementInv ==
    /\ settings \in Proposals \cup {DefaultSettings} /\ ValidSettings(settings)
    /\ position \in [Positions -> {"OPEN", "CLOSED", "SETTLED"}]
    /\ SettledMeansCharged

\* Why nothing is missed: the parts of the inductive invariant.
Sent(d) == block[d] # 0
CreditedBefore(b) == \A d \in Deposits : Sent(d) /\ block[d] \in StartBlock..b - 1 => Credited(d)

ChainOK == /\ registered \subseteq Users
           /\ head \in Nat
           /\ block \in [Deposits -> Nat]
           /\ \A d \in Deposits : block[d] <= head /\ (Sent(d) => Receiver[d] \in registered)

ProgressOK == /\ lastScanned \in Int /\ lastScanned <= head
              /\ firstBlock \in {NoBlock, StartBlock}
              /\ lastScanned # NoBlock => firstBlock = StartBlock
              /\ CreditedBefore(lastScanned + 1)

Scan == [pc : {"idle", "state", "accounts", "range", "crediting"},
         safeHead : Int, from : Int, to : Int, ranges : Nat,
         watched : SUBSET Users, logs : SUBSET Deposits]

\* A range ends before any block that was not there when the pass began, and
\* the addresses were read after that: the pass knows every receiver in it.
ScanOK(s) ==
    /\ scanner[s].pc # "idle" => scanner[s].safeHead <= head
    /\ scanner[s].pc \in {"accounts", "range", "crediting"} =>
         /\ firstBlock = StartBlock
         /\ scanner[s].from <= scanner[s].safeHead
         /\ CreditedBefore(scanner[s].from)
    /\ scanner[s].pc \in {"range", "crediting"} =>
         \A d \in Deposits : Sent(d) /\ block[d] <= scanner[s].safeHead => Receiver[d] \in scanner[s].watched
    /\ scanner[s].pc = "crediting" =>
         /\ scanner[s].to <= scanner[s].safeHead
         /\ \A d \in Deposits : Sent(d) /\ block[d] \in scanner[s].from..scanner[s].to =>
                d \in scanner[s].logs \/ Credited(d)

ScanInv == /\ ChainOK
           /\ ProgressOK
           /\ scanner \in [Scanners -> Scan]
           /\ \A s \in Scanners : ScanOK(s)
=============================================================================
