----------------------------- MODULE MCBilling -----------------------------
(***************************************************************************)
(* The two halves of Billing on one instance each: the scanners, with users  *)
(* who register meanwhile, and everything else that writes the ledger.       *)
(***************************************************************************)
EXTENDS Billing

CONSTANTS
    alice, bob,
    SteadyScanners, SteadySchedulers  \* instances that are not down for good

ASSUME SteadyAssumption == SteadyScanners \subseteq Scanners /\ SteadySchedulers \subseteq FeeSchedulers

VARIABLE half   \* the half of this behaviour

\* Alice was invited by Bob.
MCReferrer == [x \in Users |-> IF x = alice THEN bob ELSE NoUser]

MCSettings(percents) == [membershipFee |-> 4, membershipDays |-> 2, profitFeePercent |-> 50,
                         referralPercents |-> percents]
MCDefault == MCSettings(<<50>>)
\* The last one gives away more than half of a fee.
MCProposals == {MCDefault, MCSettings(<<25, 25>>), MCSettings(<<75>>)}

MCOwner == [p \in Positions |-> alice]
MCProfit == [p \in Positions |-> 8]
MCReceiver == [d \in Deposits |-> alice]
MCAmount == [d \in Deposits |-> 4]

mcVars == <<vars, half>>

\* The scanning half begins when Bob is a user.
Scanning(A) == half = "scan" /\ bob \in registered /\ A /\ UNCHANGED half
Booking(A) == half = "ledger" /\ A /\ UNCHANGED <<chainVars, scanVars, half>>

MCInit == Init /\ half \in {"scan", "ledger"}

MCNext ==
    \/ Booking(LedgerStep)
    \/ half = "scan" /\ \E u \in Users : Register(u) /\ UNCHANGED <<chainVars, scanVars, half>>
    \/ Scanning(Mine)
    \/ \E s \in Scanners : \/ Scanning(ScanStep(s))
                           \/ Scanning(ScanFails(s))
                           \/ \E d \in Deposits : Scanning(CreditLog(s, d))

\* The chain grows; of the calls to it and to the database not all fail, so each
\* step of a scan and each settlement of the steady instances succeeds at some time
\* when it is tried again and again.  One half is never played with the other, so a
\* condition on a step of either is the condition on both.
MCFairness ==
    /\ WF_mcVars(Scanning(Mine))
    /\ \A s \in SteadyScanners, f \in SteadySchedulers :
         /\ WF_mcVars(Scanning(ReadHead(s)))
         /\ SF_mcVars(Scanning(ReadState(s)) \/ Booking(FeePassLists(f)))
         /\ \A p \in Positions : SF_mcVars(Scanning(ReadAccounts(s)) \/ Booking(Settle(f, p)))
         /\ SF_mcVars(Scanning(FetchLogs(s))) /\ SF_mcVars(Scanning(SaveProgress(s)))
         /\ \A d \in Deposits : SF_mcVars(Scanning(CreditLog(s, d)))

MCSpec == MCInit /\ [][MCNext]_mcVars /\ MCFairness
=============================================================================
