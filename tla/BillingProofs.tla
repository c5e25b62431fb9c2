--------------------------- MODULE BillingProofs ---------------------------
(***************************************************************************)
(* Proofs about billing, for any number of users, scanners, transfers, fee   *)
(* passes and membership requests.  With a configured start block no         *)
(* transfer in a block that counts as scanned is missed.  No fee is lost or  *)
(* charged twice.  Every balance is the sum of its entries, the rewards of a *)
(* fee take at most half of it, and no membership is bought on credit or     *)
(* without its days.                                                         *)
(***************************************************************************)
EXTENDS Billing, FiniteSums, TLAPS

Grows == /\ entries \subseteq entries'
         /\ registered \subseteq registered'
         /\ registered' \subseteq registered \cup Users

\* Nothing takes an entry out of the ledger or an address away (applyEntry and
\* ensureAccount are the only writers).
LEMMA LedgerGrows == LedgerStep => Grows
<1> SUFFICES ASSUME LedgerStep
             PROVE  Grows
  OBVIOUS
<1>1. ASSUME NEW u \in Users, Register(u)
      PROVE  Grows
  BY <1>1 DEF Grows, Register
<1>2. CASE UpdateSettings
  BY <1>2 DEF Grows, UpdateSettings
<1>3. ASSUME NEW u \in Users, NEW amount \in Adjustments, AdminAdjust(u, amount)
      PROVE  Grows
  BY <1>3 DEF Grows, AdminAdjust, Credit, Post
<1>4. CASE DayPasses
  BY <1>4 DEF Grows, DayPasses
<1>5. ASSUME NEW r \in Requests, \/ \E u \in Users : ActivateRead(r, u)
                                 \/ ActivateCommit(r)
                                 \/ ActivateFails(r)
      PROVE  Grows
  BY <1>5 DEF Grows, ActivateRead, ActivateCommit, ActivateFails, Charge, Post, ledger
<1>6. ASSUME NEW p \in Positions, ClosePosition(p)
      PROVE  Grows
  BY <1>6 DEF Grows, ClosePosition
<1>7. ASSUME NEW f \in FeeSchedulers,
             \/ FeePassLists(f) \/ FeePassCrashes(f)
             \/ \E p \in Positions : Settle(f, p) \/ SettleFails(f, p)
      PROVE  Grows
  BY <1>7 DEF Grows, FeePassLists, FeePassCrashes, Settle, SettleFails, Charge, Post, ledger
<1> QED
  BY <1>1, <1>2, <1>3, <1>4, <1>5, <1>6, <1>7 DEF LedgerStep

\* What is credited stays credited.
LEMMA CreditedStays ==
  ASSUME entries \subseteq entries', NEW d \in Deposits, Credited(d)
  PROVE  Credited(d)'
  BY DEF Credited, Recorded

\* After creditDeposit the transfer is in the ledger, or it was dust.
LEMMA CreditCredits ==
  ASSUME NEW d \in Deposits, CreditDeposit(d)
  PROVE  Credited(d)' /\ entries \subseteq entries'
<1>1. CASE Amount[d] = 0 \/ Recorded(Receiver[d], "DEPOSIT", d)
  BY <1>1 DEF CreditDeposit, Credited, Recorded, ledger
<1>2. CASE ~(Amount[d] = 0 \/ Recorded(Receiver[d], "DEPOSIT", d))
  <2> DEFINE entry == [user |-> Receiver[d], type |-> "DEPOSIT", id |-> d, level |-> 0,
                       amount |-> Amount[d]]
  <2>1. entries' = entries \cup {entry}
    BY <1>2 DEF CreditDeposit, Credit, Post
  <2>2. entry \in entries' /\ entry.user = Receiver[d] /\ entry.type = "DEPOSIT"
          /\ entry.id = d /\ entry.level = 0
    BY <2>1
  <2> QED
    BY <2>1, <2>2 DEF Credited, Recorded
<1> QED
  BY <1>1, <1>2

\* An invariant part that only looks at what grows survives every step that
\* leaves the chain and the scanners alone.
LEMMA ScanInvStays ==
  ASSUME ScanInv, Grows, UNCHANGED <<chainVars, scanVars>>
  PROVE  ScanInv'
<1>1. \A d \in Deposits : Credited(d) => Credited(d)'
  BY CreditedStays DEF Grows
<1>2. ChainOK'
  BY DEF ScanInv, ChainOK, Sent, chainVars, Grows
<1>3. ProgressOK'
  BY <1>1 DEF ScanInv, ProgressOK, CreditedBefore, Sent, chainVars, scanVars
<1>4. \A s \in Scanners : ScanOK(s)'
  BY <1>1 DEF ScanInv, ScanOK, CreditedBefore, Sent, chainVars, scanVars
<1> QED
  BY <1>2, <1>3, <1>4 DEF ScanInv, scanVars

\* A scanner that stops holds nothing that could be wrong.
LEMMA StopScanOK ==
  ASSUME ScanInv, NEW s \in Scanners, StopScan(s), UNCHANGED <<head, block, entries>>,
         firstBlock' = firstBlock \/ firstBlock' = StartBlock
  PROVE  /\ scanner' \in [Scanners -> Scan]
         /\ \A t \in Scanners : ScanOK(t)'
<1>1. scanner' \in [Scanners -> Scan]
  BY DEF ScanInv, StopScan, NotScanning, Scan
<1>2. \A t \in Scanners : t # s => scanner'[t] = scanner[t]
  BY DEF ScanInv, StopScan
<1>3. scanner'[s].pc = "idle"
  BY DEF ScanInv, StopScan, NotScanning
<1>4. \A d \in Deposits : Credited(d)' = Credited(d)
  BY DEF Credited, Recorded
<1>5. \A t \in Scanners : ScanOK(t)'
  BY <1>2, <1>3, <1>4 DEF ScanInv, ScanOK, CreditedBefore, Sent
<1> QED
  BY <1>1, <1>5

\* A new block holds only transfers to addresses that are assigned, and comes
\* after everything a scanner looks at.
LEMMA MineKeeps == ASSUME ScanInv, Mine PROVE ScanInv'
<1>1. /\ head' = head + 1 /\ UNCHANGED <<registered, entries, scanVars>>
      /\ \A d \in Deposits : \/ block'[d] = block[d]
                             \/ /\ block[d] = 0 /\ block'[d] = head + 1
                                /\ Receiver[d] \in registered
      /\ block' \in [Deposits -> Nat]
  BY DEF Mine, scanVars, ledgerVars, ScanInv, ChainOK
<1>2. \A d \in Deposits : Credited(d)' = Credited(d)
  BY <1>1 DEF Credited, Recorded
<1>3. ChainOK'
  BY <1>1 DEF ScanInv, ChainOK, Sent
<1>4. ASSUME NEW b \in Int, b <= head + 1, CreditedBefore(b)
      PROVE  CreditedBefore(b)'
  BY <1>1, <1>2, <1>4, DepositScannerAssumption DEF ScanInv, ChainOK, CreditedBefore, Sent
<1>5. ProgressOK'
  BY <1>1, <1>4 DEF ScanInv, ChainOK, ProgressOK, scanVars
<1>6. ASSUME NEW s \in Scanners
      PROVE  ScanOK(s)'
  <2>1. scanner[s] \in Scan /\ ScanOK(s) /\ UNCHANGED <<scanner, firstBlock>> /\ head \in Nat
    BY <1>1 DEF ScanInv, ChainOK, scanVars
  <2>2. \A d \in Deposits : Sent(d)' /\ block'[d] <= head => Sent(d) /\ block'[d] = block[d]
    BY <1>1, <2>1 DEF Sent
  <2>3. ASSUME scanner[s].pc # "idle"
        PROVE  scanner[s].safeHead <= head + 1 /\ scanner[s].safeHead \in Int
    BY <2>1, <2>3 DEF ScanOK, Scan
  <2>4. ASSUME scanner[s].pc \in {"accounts", "range", "crediting"}
        PROVE  firstBlock = StartBlock /\ scanner[s].from <= scanner[s].safeHead
                 /\ CreditedBefore(scanner[s].from)'
    BY <1>4, <2>1, <2>4 DEF ScanOK, Scan
  <2>5. ASSUME scanner[s].pc \in {"range", "crediting"}
        PROVE  \A d \in Deposits : Sent(d)' /\ block'[d] <= scanner[s].safeHead =>
                   Receiver[d] \in scanner[s].watched
    BY <1>1, <2>1, <2>2, <2>5 DEF ScanOK, Scan, ScanInv, ChainOK
  <2>6. ASSUME scanner[s].pc = "crediting"
        PROVE  /\ scanner[s].to <= scanner[s].safeHead
               /\ \A d \in Deposits : Sent(d)' /\ block'[d] \in scanner[s].from..scanner[s].to =>
                      d \in scanner[s].logs \/ Credited(d)'
    BY <1>1, <1>2, <2>1, <2>2, <2>6 DEF ScanOK, Scan, ScanInv, ChainOK
  <2> QED
    BY <1>1, <2>1, <2>3, <2>4, <2>5, <2>6 DEF ScanOK, Scan
<1> QED
  BY <1>1, <1>3, <1>5, <1>6 DEF ScanInv, scanVars

----------------------------------------------------------------------------
\* A scanner that steps disturbs neither the chain nor another scanner.
LEMMA OthersStay ==
  ASSUME ScanInv, NEW s \in Scanners, UNCHANGED <<head, block, registered>>,
         entries \subseteq entries',
         firstBlock' = firstBlock \/ firstBlock' = StartBlock,
         \A t \in Scanners \ {s} : scanner'[t] = scanner[t]
  PROVE  /\ ChainOK'
         /\ \A b : CreditedBefore(b) => CreditedBefore(b)'
         /\ \A t \in Scanners \ {s} : ScanOK(t)'
<1>1. \A d \in Deposits : Credited(d) => Credited(d)'
  BY CreditedStays
<1>2. ChainOK'
  BY DEF ScanInv, ChainOK, Sent
<1>3. \A b : CreditedBefore(b) => CreditedBefore(b)'
  BY <1>1 DEF CreditedBefore, Sent
<1>4. ASSUME NEW t \in Scanners \ {s} PROVE ScanOK(t)'
  <2>1. ScanOK(t) /\ scanner'[t] = scanner[t]
    BY DEF ScanInv
  <2> QED
    BY <1>1, <1>3, <2>1 DEF ScanOK, Sent
<1> QED
  BY <1>2, <1>3, <1>4

LEMMA ReadHeadKeeps == ASSUME ScanInv, NEW s \in Scanners, ReadHead(s) PROVE ScanInv'
<1> head - Confirmations \in Int
  BY DepositScannerAssumption DEF ScanInv, ChainOK
<1>1. /\ UNCHANGED <<head, block, registered, entries, lastScanned, firstBlock>>
      /\ scanner' \in [Scanners -> Scan]
      /\ \A t \in Scanners \ {s} : scanner'[t] = scanner[t]
      /\ scanner'[s].pc = "state" /\ scanner'[s].safeHead = head - Confirmations
  BY DEF ReadHead, chainVars, ledgerVars, ScanInv, Scan
<1>2. /\ ChainOK' /\ \A t \in Scanners \ {s} : ScanOK(t)'
      /\ \A b : CreditedBefore(b) => CreditedBefore(b)'
  BY <1>1, OthersStay
<1>3. ScanOK(s)'
  BY <1>1, DepositScannerAssumption DEF ScanOK, ScanInv, ChainOK
<1>4. ProgressOK'
  BY <1>1, <1>2 DEF ProgressOK, ScanInv
<1> QED
  BY <1>1, <1>2, <1>3, <1>4 DEF ScanInv

\* A pass begins right after the last block that counts as scanned, or at the
\* configured start, and leaves nothing behind it.
LEMMA ReadStateKeeps ==
  ASSUME StartBlock # NoBlock, ScanInv, NEW s \in Scanners, ReadState(s)
  PROVE  ScanInv'
<1> DEFINE from == FirstOf(s, lastScanned)
<1>1. /\ UNCHANGED <<head, block, registered, entries, lastScanned>>
      /\ scanner[s].pc = "state" /\ scanner[s] \in Scan /\ scanner[s].safeHead <= head
  BY DEF ReadState, ScannerAt, chainVars, ledgerVars, ScanInv, ScanOK
<1>2. from \in Int /\ CreditedBefore(from)
  BY DepositScannerAssumption DEF FirstOf, ScanInv, ProgressOK, CreditedBefore
<1>3. firstBlock' = firstBlock \/ firstBlock' = StartBlock
  BY DEF ReadState, FirstOf, ScanInv, ProgressOK
<1>4. CASE from > scanner[s].safeHead
  <2>1. StopScan(s) /\ UNCHANGED firstBlock
    BY <1>4 DEF ReadState
  <2>2. scanner' \in [Scanners -> Scan] /\ \A t \in Scanners : ScanOK(t)'
    BY <1>1, <2>1, StopScanOK
  <2>3. \A t \in Scanners \ {s} : scanner'[t] = scanner[t]
    BY <2>1 DEF StopScan, ScanInv
  <2>4. ChainOK' /\ \A b : CreditedBefore(b) => CreditedBefore(b)'
    BY <1>1, <2>1, <2>3, OthersStay
  <2>5. ProgressOK'
    BY <1>1, <2>1, <2>4 DEF ProgressOK, ScanInv
  <2> QED
    BY <2>2, <2>4, <2>5 DEF ScanInv
<1>5. CASE ~(from > scanner[s].safeHead)
  <2>1. /\ scanner' = [scanner EXCEPT ![s].pc = "accounts", ![s].from = from]
        /\ firstBlock' = IF firstBlock = NoBlock THEN from ELSE firstBlock
    BY <1>5 DEF ReadState
  <2>2. /\ scanner' \in [Scanners -> Scan]
        /\ \A t \in Scanners \ {s} : scanner'[t] = scanner[t]
        /\ scanner'[s].pc = "accounts" /\ scanner'[s].safeHead = scanner[s].safeHead
        /\ scanner'[s].from = from
    BY <1>1, <1>2, <2>1 DEF ScanInv, Scan
  <2>3. /\ ChainOK' /\ \A t \in Scanners \ {s} : ScanOK(t)'
        /\ \A b : CreditedBefore(b) => CreditedBefore(b)'
    BY <1>1, <1>3, <2>2, OthersStay
  <2>4. firstBlock' = StartBlock
    BY <2>1 DEF FirstOf, ScanInv, ProgressOK
  <2>5. ScanOK(s)'
    BY <1>1, <1>2, <1>5, <2>2, <2>3, <2>4 DEF ScanOK, Scan
  <2>6. ProgressOK'
    BY <1>1, <2>3, <2>4 DEF ProgressOK, ScanInv
  <2> QED
    BY <2>2, <2>3, <2>5, <2>6 DEF ScanInv
<1> QED
  BY <1>4, <1>5

\* The addresses are read after the head: every transfer up to it goes to one of
\* them.
LEMMA ReadAccountsKeeps == ASSUME ScanInv, NEW s \in Scanners, ReadAccounts(s) PROVE ScanInv'
<1>1. /\ UNCHANGED <<head, block, registered, entries, lastScanned, firstBlock>>
      /\ scanner[s].pc = "accounts"
      /\ scanner' \in [Scanners -> Scan]
      /\ \A t \in Scanners \ {s} : scanner'[t] = scanner[t]
      /\ scanner'[s].pc = "range" /\ scanner'[s].watched = registered
      /\ scanner'[s].safeHead = scanner[s].safeHead /\ scanner'[s].from = scanner[s].from
  BY DEF ReadAccounts, ScannerAt, chainVars, ledgerVars, ScanInv, ChainOK, Scan
<1>2. /\ ChainOK' /\ \A t \in Scanners \ {s} : ScanOK(t)'
      /\ \A b : CreditedBefore(b) => CreditedBefore(b)'
  BY <1>1, OthersStay
<1>3. ScanOK(s)'
  BY <1>1, <1>2 DEF ScanOK, ScanInv, ChainOK, Sent
<1>4. ProgressOK'
  BY <1>1, <1>2 DEF ProgressOK, ScanInv
<1> QED
  BY <1>1, <1>2, <1>3, <1>4 DEF ScanInv

\* The logs of a range hold every transfer in it that may still be uncredited,
\* because the pass knows every receiver.
LEMMA FetchLogsKeeps == ASSUME ScanInv, NEW s \in Scanners, FetchLogs(s) PROVE ScanInv'
<1>1. RangeEnd(s) \in Int /\ RangeEnd(s) <= scanner[s].safeHead
      /\ scanner[s] \in Scan /\ ScanOK(s) /\ scanner[s].pc = "range"
  BY DepositScannerAssumption DEF RangeEnd, ScanInv, Scan, FetchLogs, ScannerAt
<1>2. /\ UNCHANGED <<head, block, registered, entries, lastScanned, firstBlock>>
      /\ scanner' \in [Scanners -> Scan]
      /\ \A t \in Scanners \ {s} : scanner'[t] = scanner[t]
      /\ scanner'[s].pc = "crediting" /\ scanner'[s].to = RangeEnd(s)
      /\ scanner'[s].safeHead = scanner[s].safeHead /\ scanner'[s].from = scanner[s].from
      /\ scanner'[s].watched = scanner[s].watched
      /\ scanner'[s].logs = {d \in Deposits : /\ block[d] # 0
                                              /\ block[d] \in scanner[s].from..RangeEnd(s)
                                              /\ Receiver[d] \in scanner[s].watched}
  BY <1>1 DEF FetchLogs, chainVars, ledgerVars, ScanInv, Scan
<1>3. /\ ChainOK' /\ \A t \in Scanners \ {s} : ScanOK(t)'
      /\ \A b : CreditedBefore(b) => CreditedBefore(b)'
  BY <1>2, OthersStay
<1>4. \A d \in Deposits : Sent(d)' /\ block'[d] \in scanner'[s].from..scanner'[s].to =>
          d \in scanner'[s].logs
  BY <1>1, <1>2 DEF ScanOK, Sent, Scan, ScanInv, ChainOK
<1>5. ScanOK(s)'
  BY <1>1, <1>2, <1>3, <1>4 DEF ScanOK, Sent
<1>6. ProgressOK'
  BY <1>2, <1>3 DEF ProgressOK, ScanInv
<1> QED
  BY <1>2, <1>3, <1>5, <1>6 DEF ScanInv

\* A log leaves the list when its transfer is in the ledger.
LEMMA CreditLogKeeps ==
  ASSUME ScanInv, NEW s \in Scanners, NEW d \in Deposits, CreditLog(s, d)
  PROVE  ScanInv'
<1>1. Credited(d)' /\ entries \subseteq entries'
  BY CreditCredits DEF CreditLog
<1>2. /\ UNCHANGED <<head, block, registered, lastScanned, firstBlock>>
      /\ scanner[s] \in Scan /\ ScanOK(s) /\ scanner[s].pc = "crediting"
      /\ scanner' \in [Scanners -> Scan]
      /\ \A t \in Scanners \ {s} : scanner'[t] = scanner[t]
      /\ scanner'[s] = [scanner[s] EXCEPT !.logs = @ \ {d}]
  BY DEF CreditLog, ScannerAt, chainVars, ScanInv, Scan
<1>3. /\ ChainOK' /\ \A t \in Scanners \ {s} : ScanOK(t)'
      /\ \A b : CreditedBefore(b) => CreditedBefore(b)'
  BY <1>1, <1>2, OthersStay
<1>4. \A e \in Deposits : Credited(e) => Credited(e)'
  BY <1>1, CreditedStays
<1>5. ScanOK(s)'
  BY <1>1, <1>2, <1>3, <1>4 DEF ScanOK, Sent, Scan
<1>6. ProgressOK'
  BY <1>2, <1>3 DEF ProgressOK, ScanInv
<1> QED
  BY <1>2, <1>3, <1>5, <1>6 DEF ScanInv

\* Progress is saved when nothing of the range is left to credit.
LEMMA SaveProgressKeeps == ASSUME ScanInv, NEW s \in Scanners, SaveProgress(s) PROVE ScanInv'
<1>1. /\ UNCHANGED <<head, block, registered, entries, firstBlock>>
      /\ lastScanned' = scanner[s].to
      /\ scanner[s] \in Scan /\ ScanOK(s) /\ scanner[s].pc = "crediting" /\ scanner[s].logs = {}
      /\ head \in Nat
  BY DEF SaveProgress, Progress, ScannerAt, chainVars, ledgerVars, ScanInv, ChainOK
<1>2. CreditedBefore(scanner[s].to + 1)
  BY <1>1, DepositScannerAssumption DEF ScanOK, CreditedBefore, Scan, ScanInv, ChainOK
<1>3. /\ scanner[s].to \in Int /\ scanner[s].to <= scanner[s].safeHead
      /\ scanner[s].safeHead \in Int /\ scanner[s].safeHead <= head /\ firstBlock = StartBlock
  BY <1>1 DEF ScanOK, Scan
<1>4. ASSUME scanner' \in [Scanners -> Scan], \A t \in Scanners \ {s} : scanner'[t] = scanner[t],
             ScanOK(s)'
      PROVE  ScanInv'
  <2>1. /\ ChainOK' /\ \A t \in Scanners \ {s} : ScanOK(t)'
        /\ \A b : CreditedBefore(b) => CreditedBefore(b)'
    BY <1>1, <1>4, OthersStay
  <2>2. ProgressOK'
    BY <1>1, <1>2, <1>3, <2>1 DEF ProgressOK
  <2> QED
    BY <1>4, <2>1, <2>2 DEF ScanInv
<1>5. CASE StopScan(s)
  BY <1>1, <1>4, <1>5, StopScanOK DEF StopScan, ScanInv
<1>6. CASE /\ scanner[s].to + 1 <= scanner[s].safeHead
           /\ scanner' = [scanner EXCEPT ![s].pc = "range", ![s].from = scanner[s].to + 1,
                                         ![s].ranges = scanner[s].ranges + 1]
  <2>1. /\ scanner' \in [Scanners -> Scan]
        /\ \A t \in Scanners \ {s} : scanner'[t] = scanner[t]
        /\ scanner'[s].pc = "range" /\ scanner'[s].from = scanner[s].to + 1
        /\ scanner'[s].safeHead = scanner[s].safeHead /\ scanner'[s].watched = scanner[s].watched
    BY <1>1, <1>3, <1>6 DEF ScanInv, Scan
  <2>2. \A b : CreditedBefore(b) => CreditedBefore(b)'
    BY <1>1, <2>1, OthersStay
  <2>3. ScanOK(s)'
    BY <1>1, <1>2, <1>3, <1>6, <2>1, <2>2 DEF ScanOK, Sent
  <2> QED
    BY <1>4, <2>1, <2>3
<1> QED
  BY <1>5, <1>6 DEF SaveProgress

LEMMA ScanFailsKeeps == ASSUME ScanInv, NEW s \in Scanners, ScanFails(s) PROVE ScanInv'
<1>1. /\ UNCHANGED <<head, block, registered, entries, lastScanned, firstBlock>> /\ StopScan(s)
  BY DEF ScanFails, chainVars, ledgerVars
<1>2. scanner' \in [Scanners -> Scan] /\ \A t \in Scanners : ScanOK(t)'
  BY <1>1, StopScanOK
<1>3. \A t \in Scanners \ {s} : scanner'[t] = scanner[t]
  BY <1>1 DEF StopScan, ScanInv
<1>4. ChainOK' /\ \A b : CreditedBefore(b) => CreditedBefore(b)'
  BY <1>1, <1>3, OthersStay
<1>5. ProgressOK'
  BY <1>1, <1>4 DEF ProgressOK, ScanInv
<1> QED
  BY <1>2, <1>4, <1>5 DEF ScanInv

----------------------------------------------------------------------------
LEMMA ScanInvInit == Init => ScanInv
<1> SUFFICES ASSUME Init
             PROVE  ScanInv
  OBVIOUS
<1>1. /\ \A d \in Deposits : ~Sent(d)
      /\ block \in [Deposits -> Nat] /\ head \in Nat /\ registered = {}
      /\ \A d \in Deposits : block[d] <= head
  BY DepositScannerAssumption DEF Init, InitScanner, InitLedger, Sent
<1>2. /\ scanner \in [Scanners -> Scan] /\ \A s \in Scanners : scanner[s].pc = "idle"
      /\ lastScanned = -1 /\ firstBlock = NoBlock /\ head >= 0
  BY <1>1 DEF Init, InitScanner, NotScanning, Scan, NoBlock
<1> QED
  BY <1>1, <1>2 DEF ScanInv, ChainOK, ProgressOK, ScanOK, CreditedBefore, NoBlock

LEMMA ScanInvStep ==
  ASSUME StartBlock # NoBlock, ScanInv, [Next]_vars
  PROVE  ScanInv'
<1>1. CASE LedgerStep /\ UNCHANGED <<chainVars, scanVars>>
  BY <1>1, LedgerGrows, ScanInvStays
<1>2. CASE Mine
  BY <1>2, MineKeeps
<1>3. ASSUME NEW s \in Scanners, ScanStep(s)
      PROVE  ScanInv'
  BY <1>3, ReadHeadKeeps, ReadStateKeeps, ReadAccountsKeeps, FetchLogsKeeps, SaveProgressKeeps
  DEF ScanStep
<1>4. ASSUME NEW s \in Scanners, ScanFails(s)
      PROVE  ScanInv'
  BY <1>4, ScanFailsKeeps
<1>5. ASSUME NEW s \in Scanners, NEW d \in Deposits, CreditLog(s, d)
      PROVE  ScanInv'
  BY <1>5, CreditLogKeeps
<1>6. CASE UNCHANGED vars
  <2>1. Grows /\ UNCHANGED <<chainVars, scanVars>>
    BY <1>6 DEF vars, ledgerVars, Grows
  <2> QED
    BY <2>1, ScanInvStays
<1> QED
  BY <1>1, <1>2, <1>3, <1>4, <1>5, <1>6 DEF Next

\* The inductive invariant of the scanners: progress and every running pass have
\* nothing uncredited behind them (bsc-deposit.scanner.ts:69-118).
THEOREM ScanInvariant == StartBlock # NoBlock => (Spec => []ScanInv)
<1> SUFFICES ASSUME StartBlock # NoBlock
             PROVE  Spec => []ScanInv
  OBVIOUS
<1>1. ScanInv /\ [Next]_vars => ScanInv'
  BY ScanInvStep
<1> QED
  BY <1>1, ScanInvInit, PTL DEF Spec

\* With a configured start block no transfer in a scanned block is missed, for any
\* number of overlapping, failing scanners, any range size and confirmations.
THEOREM NothingMissed == StartBlock # NoBlock => (Spec => []ScannedDepositsCredited)
<1> SUFFICES ASSUME StartBlock # NoBlock
             PROVE  Spec => []ScannedDepositsCredited
  OBVIOUS
<1>1. Spec => []ScanInv
  BY ScanInvariant
<1>2. ScanInv => ScannedDepositsCredited
  BY DepositScannerAssumption
  DEF ScanInv, ChainOK, ProgressOK, CreditedBefore, Sent, ScannedDepositsCredited
<1> QED
  BY <1>1, <1>2, PTL

----------------------------------------------------------------------------
FeeRecorded(p) == Recorded(Owner[p], "PROFIT_FEE", p)

\* An entry that is no fee of p leaves the fee of p as it was.
LEMMA OtherEntries ==
  ASSUME NEW p \in Positions, NEW new, entries' = entries \cup new,
         \A e \in new : e.type # "PROFIT_FEE" \/ e.id # p
  PROVE  FeeRecorded(p)' = FeeRecorded(p)
  BY DEF FeeRecorded, Recorded

\* A charge that is no profit fee of p leaves it as it was; one that is puts it
\* into the ledger, unless it is there.
LEMMA ChargeRecords ==
  ASSUME NEW p \in Positions, NEW seen, NEW u, NEW type, NEW id, NEW fee,
         Charge(seen, u, type, id, fee)
  PROVE  /\ type # "PROFIT_FEE" \/ id # p => FeeRecorded(p)' = FeeRecorded(p)
         /\ type = "PROFIT_FEE" /\ id = p /\ u = Owner[p] => FeeRecorded(p)'
<1> DEFINE main == [user |-> u, type |-> type, id |-> id, level |-> 0, amount |-> -fee]
           new == {main} \cup Rewards(seen, u, type, id, fee)
<1>1. CASE Recorded(u, type, id)
  BY <1>1 DEF Charge, ledger, FeeRecorded, Recorded
<1>2. CASE ~Recorded(u, type, id)
  <2>1. entries' = entries \cup new
    BY <1>2 DEF Charge, Post
  <2>2. \A e \in new : e.type = type /\ e.id = id
    BY DEF Rewards
  <2>3. type # "PROFIT_FEE" \/ id # p => FeeRecorded(p)' = FeeRecorded(p)
    <3> HIDE DEF new
    <3> QED
      BY <2>1, <2>2, OtherEntries
  <2>4. main \in entries'
    BY <2>1
  <2> QED
    BY <2>3, <2>4 DEF FeeRecorded, Recorded
<1> QED
  BY <1>1, <1>2

LEMMA SettlementStays ==
  ASSUME SettlementInv, UNCHANGED position,
         settings' = settings \/ (settings' \in Proposals /\ ValidSettings(settings')),
         \A p \in Positions : FeeRecorded(p)' = FeeRecorded(p)
  PROVE  SettlementInv'
<1>1. \A p \in Positions : FeeAlwaysDue(p)' = FeeAlwaysDue(p)
  BY DEF FeeAlwaysDue
<1>2. SettledMeansCharged'
  BY <1>1 DEF SettlementInv, SettledMeansCharged, FeeRecorded
<1>3. settings' \in Proposals \cup {DefaultSettings} /\ ValidSettings(settings')
  BY DEF SettlementInv
<1> QED
  BY <1>2, <1>3 DEF SettlementInv

LEMMA SettleKeeps ==
  ASSUME SettlementInv, NEW f \in FeeSchedulers, NEW q \in Positions, Settle(f, q)
  PROVE  SettlementInv'
<1>1. CASE position[q] # "CLOSED"
  BY <1>1, SettlementStays DEF Settle, ledger, FeeRecorded, Recorded
<1>2. CASE position[q] = "CLOSED"
  <2>1. position' = [position EXCEPT ![q] = "SETTLED"] /\ UNCHANGED settings
    BY <1>2 DEF Settle
  <2>2. \A p \in Positions \ {q} : FeeRecorded(p)' = FeeRecorded(p)
    BY <1>2, ChargeRecords DEF Settle, ledger, FeeRecorded, Recorded
  <2>3. FeeAlwaysDue(q) => FeeOf(q) > 0
    BY DEF FeeAlwaysDue, FeeOf, SettlementInv
  <2>4. FeeOf(q) > 0 => FeeRecorded(q)'
    BY <1>2, ChargeRecords DEF Settle
  <2>5. \A p \in Positions : FeeAlwaysDue(p)' = FeeAlwaysDue(p)
    BY DEF FeeAlwaysDue
  <2>6. SettledMeansCharged'
    BY <2>1, <2>2, <2>3, <2>4, <2>5 DEF SettlementInv, SettledMeansCharged, FeeRecorded
  <2> QED
    BY <2>1, <2>6 DEF SettlementInv
<1> QED
  BY <1>1, <1>2

LEMMA CloseKeeps ==
  ASSUME SettlementInv, NEW q \in Positions, ClosePosition(q)
  PROVE  SettlementInv'
<1>1. /\ position[q] = "OPEN" /\ position' = [position EXCEPT ![q] = "CLOSED"]
      /\ UNCHANGED <<entries, settings>>
  BY DEF ClosePosition
<1>2. \A p \in Positions : FeeAlwaysDue(p)' = FeeAlwaysDue(p) /\ FeeRecorded(p)' = FeeRecorded(p)
  BY <1>1 DEF FeeAlwaysDue, FeeRecorded, Recorded
<1>3. SettledMeansCharged'
  BY <1>1, <1>2 DEF SettlementInv, SettledMeansCharged, FeeRecorded
<1> QED
  BY <1>1, <1>3 DEF SettlementInv

LEMMA SettlementStep == ASSUME SettlementInv, [Next]_vars PROVE SettlementInv'
<1>1. ASSUME NEW f \in FeeSchedulers, NEW q \in Positions, Settle(f, q)
      PROVE  SettlementInv'
  BY <1>1, SettleKeeps
<1>2. ASSUME NEW q \in Positions, ClosePosition(q)
      PROVE  SettlementInv'
  BY <1>2, CloseKeeps
<1>3. ASSUME UNCHANGED <<position, entries>>,
             settings' = settings \/ (settings' \in Proposals /\ ValidSettings(settings'))
      PROVE  SettlementInv'
  BY <1>3, SettlementStays DEF FeeRecorded, Recorded
<1>4. ASSUME NEW u, NEW type \in {"DEPOSIT", "ADMIN_ADJUSTMENT"}, NEW id, NEW amount,
             Credit(u, type, id, amount), UNCHANGED <<position, settings>>
      PROVE  SettlementInv'
  <2> DEFINE new == {[user |-> u, type |-> type, id |-> id, level |-> 0, amount |-> amount]}
  <2>1. \A p \in Positions : FeeRecorded(p)' = FeeRecorded(p)
    <3>1. entries' = entries \cup new /\ \A e \in new : e.type # "PROFIT_FEE"
      BY <1>4 DEF Credit, Post
    <3> HIDE DEF new
    <3> QED
      BY <3>1, OtherEntries
  <2> QED
    BY <1>4, <2>1, SettlementStays
<1>5. ASSUME NEW r \in Requests, ActivateCommit(r)
      PROVE  SettlementInv'
  <2>1. \A p \in Positions : FeeRecorded(p)' = FeeRecorded(p)
    BY <1>5, ChargeRecords DEF ActivateCommit
  <2> QED
    BY <1>5, <2>1, SettlementStays DEF ActivateCommit
<1>6. CASE LedgerStep
  <2>1. ASSUME NEW r \in Requests, \/ \E u \in Users : ActivateRead(r, u)
                                   \/ ActivateFails(r)
        PROVE  SettlementInv'
    BY <1>3, <2>1 DEF ActivateRead, ActivateFails
  <2>2. ASSUME NEW f \in FeeSchedulers, \/ FeePassLists(f) \/ FeePassCrashes(f)
                                        \/ \E p \in Positions : SettleFails(f, p)
        PROVE  SettlementInv'
    BY <1>3, <2>2 DEF FeePassLists, FeePassCrashes, SettleFails
  <2>3. ASSUME NEW u \in Users, NEW amount \in Adjustments, AdminAdjust(u, amount)
        PROVE  SettlementInv'
    BY <1>4, <2>3 DEF AdminAdjust
  <2>4. ASSUME \/ \E u \in Users : Register(u)
               \/ UpdateSettings
               \/ DayPasses
        PROVE  SettlementInv'
    BY <1>3, <2>4 DEF Register, UpdateSettings, DayPasses
  <2> QED
    BY <1>1, <1>2, <1>5, <1>6, <2>1, <2>2, <2>3, <2>4 DEF LedgerStep
<1>7. ASSUME NEW s \in Scanners, NEW d \in Deposits, CreditLog(s, d)
      PROVE  SettlementInv'
  BY <1>3, <1>4, <1>7 DEF CreditLog, CreditDeposit, ledger
<1>8. CASE Mine \/ (\E s \in Scanners : ScanStep(s) \/ ScanFails(s)) \/ UNCHANGED vars
  BY <1>3, <1>8
  DEF Mine, ScanStep, ReadHead, ReadState, ReadAccounts, FetchLogs, SaveProgress, ScanFails,
      ledgerVars, vars
<1> QED
  BY <1>6, <1>7, <1>8 DEF Next

\* A profit fee is charged exactly with the settlement of its position, for any
\* number of fee passes that overlap, fail and crash (billing.service.ts:191-222).
THEOREM FeesChargedOnce == Spec => []SettledMeansCharged
<1>1. Init => SettlementInv
  BY BillingLedgerAssumption
  DEF Init, InitLedger, SettlementInv, SettledMeansCharged, Recorded
<1>2. SettlementInv /\ [Next]_vars => SettlementInv'
  BY SettlementStep
<1>3. SettlementInv => SettledMeansCharged
  BY DEF SettlementInv
<1> QED
  BY <1>1, <1>2, <1>3, PTL DEF Spec

----------------------------------------------------------------------------
\* The sums of the ledger are sums of FiniteSums: of the amounts of entries ...
Amounts(es) == [e \in es |-> e.amount]
LEMMA TotalIsSum ==
    ASSUME NEW S, IsFiniteSet(S)
    PROVE  Total(S) = SumOf(Amounts(S), S)
<1> DEFINE Eq(g) == g = [s \in SUBSET S |-> IF s = {} THEN 0 ELSE (First(s)).amount + g[s \ {First(s)}]]
<1>1. Total(S) = (CHOOSE g : Eq(g))[S]
  BY DEF Total, MapThenSumSet, MapThenFoldSet, First
<1>2. ASSUME NEW g PROVE Eq(g) <=> IsSum(g, Amounts(S), S)
  <2>1. \A s \in SUBSET S : s # {} => Amounts(S)[First(s)] = First(s).amount
    BY FirstIsTaken DEF Amounts
  <2>2. [s \in SUBSET S |-> IF s = {} THEN 0 ELSE (First(s)).amount + g[s \ {First(s)}]]
       = [s \in SUBSET S |-> IF s = {} THEN 0 ELSE Amounts(S)[First(s)] + g[s \ {First(s)}]]
    BY <2>1
  <2> QED BY <2>2 DEF IsSum
<1>3. PICK g : Eq(g) /\ Total(S) = g[S]
  <2>1. \E g : Eq(g)
    BY <1>2, SumExists
  <2> HIDE DEF Eq
  <2> QED BY <1>1, <2>1
<1>4. PICK h : IsSum(h, Amounts(S), S) /\ SumOf(Amounts(S), S) = h[S]
  BY SumOfIsSum
<1>5. IsSum(g, Amounts(S), S)
  BY <1>2, <1>3
<1> QED BY <1>3, <1>4, <1>5, SumsAgree

\* ... and of the percentages of the referral levels.
LEMMA PercentsAreSum ==
    ASSUME NEW s, IsFiniteSet(DOMAIN s.referralPercents)
    PROVE  MapThenSumSet(LAMBDA l : s.referralPercents[l], DOMAIN s.referralPercents)
             = SumOf(s.referralPercents, DOMAIN s.referralPercents)
BY DEF SumOf, IsSum, MapThenSumSet, MapThenFoldSet, First

\* Entries that are not in the ledger yet add their total to it.
LEMMA TotalUnion ==
    ASSUME NEW S, IsFiniteSet(S), NEW T, IsFiniteSet(T), S \cap T = {},
           \A e \in S \cup T : e.amount \in Int
    PROVE  Total(S \cup T) = Total(S) + Total(T) /\ Total(S) \in Int /\ Total(T) \in Int
<1> DEFINE U == S \cup T
<1>1. IsFiniteSet(U) /\ \A e \in U : Amounts(U)[e] = e.amount /\ Amounts(U)[e] \in Int
  BY FS_Union DEF Amounts
<1>2. /\ \A e \in S : Amounts(U)[e] = Amounts(S)[e] /\ Amounts(U)[e] \in Int
      /\ \A e \in T : Amounts(U)[e] = Amounts(T)[e] /\ Amounts(U)[e] \in Int
  BY DEF Amounts
<1>3. \A x \in S \cup T : Amounts(U)[x] \in Int
  BY <1>1
<1>4. SumOf(Amounts(U), S \cup T) = SumOf(Amounts(U), S) + SumOf(Amounts(U), T)
  <2> HIDE DEF U
  <2> QED BY <1>3, SumUnion
<1>5. /\ SumOf(Amounts(U), S) = SumOf(Amounts(S), S) /\ SumOf(Amounts(U), S) \in Int
      /\ SumOf(Amounts(U), T) = SumOf(Amounts(T), T) /\ SumOf(Amounts(U), T) \in Int
  <2> HIDE DEF U
  <2> QED BY <1>2, SumEqual, SumInteger
<1>6. Total(U) = SumOf(Amounts(U), U) /\ Total(S) = SumOf(Amounts(S), S) /\ Total(T) = SumOf(Amounts(T), T)
  BY <1>1, TotalIsSum
<1> QED BY <1>4, <1>5, <1>6

LEMMA TotalSingle ==
    ASSUME NEW e, e.amount \in Int
    PROVE  Total({e}) = e.amount /\ IsFiniteSet({e})
<1>1. IsFiniteSet({e}) /\ Amounts({e})[e] = e.amount
  BY FS_Singleton DEF Amounts
<1>2. SumOf(Amounts({e}), {e}) = Amounts({e})[e]
  BY <1>1, SumSingle
<1> QED BY <1>1, <1>2, TotalIsSum

LEMMA TotalEmpty == Total({}) = 0
BY TotalIsSum, SumEmpty, FS_EmptySet

LEMMA TotalNonNegative ==
    ASSUME NEW S, IsFiniteSet(S), \A e \in S : e.amount \in Nat
    PROVE  Total(S) >= 0 /\ Total(S) \in Int
<1>1. \A e \in S : Amounts(S)[e] \in Nat /\ Amounts(S)[e] \in Int
  BY DEF Amounts
<1> QED BY <1>1, TotalIsSum, SumNonNegative, SumInteger

----------------------------------------------------------------------------
\* Settings that updateSettings has accepted.
Accepted(s) ==
    /\ s \in [membershipFee : Int, membershipDays : Int, profitFeePercent : Int,
              referralPercents : Seq(Int)]
    /\ ValidSettings(s)

LEMMA AcceptedPercents ==
    ASSUME NEW s, Accepted(s)
    PROVE  /\ IsFiniteSet(DOMAIN s.referralPercents) /\ DOMAIN s.referralPercents \subseteq Nat \ {0}
           /\ \A l \in DOMAIN s.referralPercents : s.referralPercents[l] \in Nat
           /\ SumOf(s.referralPercents, DOMAIN s.referralPercents) <= 50
           /\ s.membershipFee \in Nat
<1>1. /\ s.referralPercents \in Seq(Int) /\ s.membershipFee \in Nat
      /\ \A l \in DOMAIN s.referralPercents : s.referralPercents[l] >= 0
      /\ MapThenSumSet(LAMBDA l : s.referralPercents[l], DOMAIN s.referralPercents) <= 50
  BY DEF Accepted, ValidSettings
<1>2. DOMAIN s.referralPercents = 1..Len(s.referralPercents) /\ Len(s.referralPercents) \in Nat
  BY <1>1
<1>3. IsFiniteSet(DOMAIN s.referralPercents)
  BY <1>2, FS_Interval
<1>4. \A l \in DOMAIN s.referralPercents : s.referralPercents[l] \in Nat
  BY <1>1
<1>5. SumOf(s.referralPercents, DOMAIN s.referralPercents) <= 50
  BY <1>1, <1>3, PercentsAreSum
<1> QED
  BY <1>1, <1>2, <1>3, <1>4, <1>5

LEMMA PercentRoundsDown ==
    ASSUME NEW fee \in Nat, NEW p \in Nat
    PROVE  /\ fee * p \in Int /\ Percent(fee, p) \in Int
           /\ 100 * Percent(fee, p) <= fee * p
<1>1. fee * p \in Int
  OBVIOUS
<1>2. \A n \in Int : n \div 100 \in Int /\ 100 * (n \div 100) <= n
  OBVIOUS
<1> QED
  BY <1>1, <1>2 DEF Percent

\* The rewards of a fee take at most half of it, because every level is rounded
\* down (distributeReferralRewards, billing.service.ts:334-353).
LEMMA RewardsBounded ==
    ASSUME NEW seen, Accepted(seen.settings), NEW payer, NEW type, NEW id, NEW fee \in Nat
    PROVE  /\ IsFiniteSet(Rewards(seen, payer, type, id, fee))
           /\ \A e \in Rewards(seen, payer, type, id, fee) :
                e.type = type /\ e.id = id /\ e.level \in Nat \ {0} /\ e.amount \in Nat
           /\ 2 * Total(Rewards(seen, payer, type, id, fee)) <= fee
<1> DEFINE pct == seen.settings.referralPercents
           P == PaidLevels(seen, payer, fee)
           R == Rewards(seen, payer, type, id, fee)
           g == [l \in P |-> [user |-> Uplines(payer)[l], type |-> type, id |-> id, level |-> l,
                              amount |-> Percent(fee, pct[l])]]
           a == Amounts(R)
           q == [l \in P |-> a[g[l]]]
           q100 == [l \in P |-> 100 * q[l]]
           share == [l \in P |-> fee * pct[l]]
<1>1. /\ IsFiniteSet(DOMAIN pct) /\ DOMAIN pct \subseteq Nat \ {0}
      /\ \A l \in DOMAIN pct : pct[l] \in Nat
      /\ SumOf(pct, DOMAIN pct) <= 50
  BY AcceptedPercents
<1>2. P \subseteq DOMAIN pct /\ IsFiniteSet(P) /\ \A l \in P : Percent(fee, pct[l]) > 0
  <2>1. P \subseteq DOMAIN pct /\ \A l \in P : Percent(fee, pct[l]) > 0
    BY DEF PaidLevels
  <2> QED
    BY <1>1, <2>1, FS_Subset
<1>3. \A l \in P : /\ pct[l] \in Nat /\ l \in Nat \ {0}
                   /\ fee * pct[l] \in Int /\ Percent(fee, pct[l]) \in Nat
                   /\ 100 * Percent(fee, pct[l]) <= fee * pct[l]
  <2> SUFFICES ASSUME NEW l \in P
               PROVE  /\ pct[l] \in Nat /\ l \in Nat \ {0}
                      /\ fee * pct[l] \in Int /\ Percent(fee, pct[l]) \in Nat
                      /\ 100 * Percent(fee, pct[l]) <= fee * pct[l]
    OBVIOUS
  <2>1. pct[l] \in Nat /\ l \in Nat \ {0} /\ Percent(fee, pct[l]) > 0
    BY <1>1, <1>2
  <2> HIDE DEF P, pct
  <2>2. \A p \in Nat : /\ fee * p \in Int /\ Percent(fee, p) \in Int
                        /\ 100 * Percent(fee, p) <= fee * p
    BY PercentRoundsDown
  <2>3. /\ fee * pct[l] \in Int /\ Percent(fee, pct[l]) \in Int
        /\ 100 * Percent(fee, pct[l]) <= fee * pct[l]
    BY <2>1, <2>2
  <2> QED
    BY <2>1, <2>3
<1>4. R = {g[l] : l \in P}
  BY DEF Rewards
<1>5. g \in Bijection(P, R)
  <2>1. g \in [P -> R] /\ \A t \in R : \E l \in P : g[l] = t
    <3> HIDE DEF P, R
    <3> QED BY <1>4
  <2>2. \A l, m \in P : g[l] = g[m] => l = m
    <3>1. \A l \in P : g[l].level = l
      OBVIOUS
    <3> HIDE DEF g
    <3> QED BY <3>1
  <2> HIDE DEF g, P, R
  <2> QED
    BY <2>1, <2>2 DEF Bijection, Injection, Surjection, IsInjective
<1>6. \A e \in R : e.type = type /\ e.id = id /\ e.level \in Nat \ {0} /\ e.amount \in Nat
  <2>1. \A l \in P : g[l].type = type /\ g[l].id = id /\ g[l].level = l
                     /\ g[l].amount = Percent(fee, pct[l])
    OBVIOUS
  <2> HIDE DEF g, P, R, pct
  <2> QED
    BY <1>3, <1>4, <2>1
<1>7. \A e \in R : a[e] = e.amount /\ a[e] \in Int
  BY <1>6 DEF Amounts
<1>8. IsFiniteSet(R) /\ SumOf(a, R) = SumOf(q, P)
  <2> HIDE DEF a, g, R, P
  <2> QED
    BY <1>2, <1>5, <1>7, SumImage
<1>9. \A l \in P : q[l] = Percent(fee, pct[l])
  <2>1. \A l \in P : g[l] \in R /\ g[l].amount = Percent(fee, pct[l])
    BY <1>4
  <2> HIDE DEF a, g, R, P
  <2> QED
    BY <1>7, <2>1
<1> HIDE DEF P, R, g, a, q
<1>10. SumOf(q100, P) = 100 * SumOf(q, P)
  <2>1. \A l \in P : q[l] \in Int /\ q100[l] = 100 * q[l]
    BY <1>3, <1>9
  <2> HIDE DEF q100
  <2> QED
    BY <1>2, <2>1, SumScaled
<1>11. SumOf(share, P) = fee * SumOf(pct, P)
  <2>1. \A l \in P : pct[l] \in Int /\ share[l] = fee * pct[l]
    BY <1>3
  <2> HIDE DEF share
  <2> QED
    BY <1>2, <2>1, SumScaled
<1>12. SumOf(q100, P) <= SumOf(share, P)
  <2>1. \A l \in P : q100[l] \in Int /\ share[l] \in Int /\ q100[l] <= share[l]
    BY <1>3, <1>9
  <2> HIDE DEF share, q100
  <2> QED
    BY <1>2, <2>1, SumAtMost
<1>13. SumOf(pct, P) <= 50 /\ SumOf(pct, P) \in Int /\ SumOf(q, P) \in Int
  <2>1. SumOf(pct, P) <= SumOf(pct, DOMAIN pct)
    BY <1>1, <1>2, SumOfPart
  <2>2. \A l \in P : pct[l] \in Int /\ q[l] \in Int
    BY <1>3, <1>9
  <2>3. SumOf(pct, P) \in Int /\ SumOf(q, P) \in Int
    BY <1>2, <2>2, SumInteger
  <2>4. SumOf(pct, DOMAIN pct) \in Int
    BY <1>1, SumInteger
  <2> QED
    BY <1>1, <2>1, <2>3, <2>4
<1>14. fee * SumOf(pct, P) <= fee * 50
  <2>1. \A x \in Int : x <= 50 => fee * x <= fee * 50
    OBVIOUS
  <2> QED
    BY <1>13, <2>1
<1>15. Total(R) = SumOf(q, P)
  BY <1>8, TotalIsSum DEF a
<1>16. 100 * SumOf(q, P) <= 50 * fee
  <2>1. fee * SumOf(pct, P) \in Int /\ fee * 50 = 50 * fee
    BY <1>13
  <2> HIDE DEF pct, q100, share
  <2> QED
    BY <1>10, <1>11, <1>12, <1>13, <1>14, <2>1
<1>17. 2 * Total(R) <= fee
  BY <1>13, <1>15, <1>16
<1> QED
  BY <1>6, <1>8, <1>17 DEF R

----------------------------------------------------------------------------
\* The ledger: what an entry is known by is its own, so none is written twice,
\* and a reward is there only with its fee.
EntryKnown(e) ==
    /\ e.amount \in Int
    /\ e.level \in Nat
    /\ e.type \in {"ADMIN_ADJUSTMENT", "MEMBERSHIP_FEE"} => e.id \in Nat /\ e.id <= uuids
    /\ e.type = "PROFIT_FEE" /\ e.level = 0 => e.user = Owner[e.id]

Books ==
    /\ uuids \in Nat
    /\ balance \in [Users -> Int]
    /\ IsFiniteSet(entries)
    /\ \A e \in entries : EntryKnown(e)
    /\ LedgerBacksBalance
    /\ RewardsWithinFee

\* New entries move the balances by what they say.
LEMMA PostBacksBalance ==
    ASSUME Books, NEW new, IsFiniteSet(new), new \cap entries = {},
           \A e \in new : e.amount \in Int, Post(new)
    PROVE  /\ IsFiniteSet(entries')
           /\ balance' \in [Users -> Int]
           /\ LedgerBacksBalance'
<1>1. entries' = entries \cup new
      /\ balance' = [u \in Users |-> balance[u] + Total({e \in new : e.user = u})]
  BY DEF Post
<1>2. IsFiniteSet(entries) /\ \A e \in entries : e.amount \in Int
  BY DEF Books, EntryKnown
<1>3. ASSUME NEW u \in Users
      PROVE  /\ Total(EntriesOf(u)') = Total(EntriesOf(u)) + Total({e \in new : e.user = u})
             /\ Total({e \in new : e.user = u}) \in Int
  <2> DEFINE S == EntriesOf(u)
             T == {e \in new : e.user = u}
  <2>1. S \subseteq entries /\ T \subseteq new /\ EntriesOf(u)' = S \cup T
    BY <1>1 DEF EntriesOf
  <2> HIDE DEF S, T
  <2>2. IsFiniteSet(S) /\ IsFiniteSet(T) /\ S \cap T = {} /\ \A e \in S \cup T : e.amount \in Int
    BY <1>2, <2>1, FS_Subset
  <2>3. Total(S \cup T) = Total(S) + Total(T) /\ Total(T) \in Int
    BY <2>2, TotalUnion
  <2> QED
    BY <2>1, <2>3 DEF S, T
<1>4. IsFiniteSet(entries')
  BY <1>1, <1>2, FS_Union
<1>5. \A u \in Users : balance[u] = Total(EntriesOf(u)) /\ balance[u] \in Int
  BY DEF Books, LedgerBacksBalance
<1>6. balance' \in [Users -> Int]
  BY <1>1, <1>3, <1>5
<1>7. \A u \in Users : balance'[u] = Total(EntriesOf(u)')
  BY <1>1, <1>3, <1>5
<1>8. LedgerBacksBalance'
  BY <1>7 DEF LedgerBacksBalance
<1> QED
  BY <1>4, <1>6, <1>8

\* One entry that is no fee and not there yet (applyEntry of a deposit or an
\* adjustment).
LEMMA CreditKeepsBooks ==
    ASSUME Books, NEW u, NEW type \in {"DEPOSIT", "ADMIN_ADJUSTMENT"}, NEW id, NEW amount \in Int,
           Credit(u, type, id, amount), ~Recorded(u, type, id),
           uuids' \in Nat, uuids' >= uuids, type = "ADMIN_ADJUSTMENT" => id = uuids'
    PROVE  Books'
<1> DEFINE entry == [user |-> u, type |-> type, id |-> id, level |-> 0, amount |-> amount]
<1>1. Post({entry}) /\ entries' = entries \cup {entry}
  BY DEF Credit, Post
<1>2. entry.user = u /\ entry.type = type /\ entry.id = id /\ entry.level = 0 /\ entry.amount = amount
  OBVIOUS
<1> HIDE DEF entry
<1>3. entry \notin entries
  BY <1>2 DEF Recorded
<1>4. IsFiniteSet(entries') /\ balance' \in [Users -> Int] /\ LedgerBacksBalance'
  <2>1. IsFiniteSet({entry}) /\ {entry} \cap entries = {} /\ \A e \in {entry} : e.amount \in Int
    BY <1>2, <1>3, FS_Singleton
  <2> QED
    BY <1>1, <2>1, PostBacksBalance
<1>5. \A e \in entries' : EntryKnown(e)'
  BY <1>1, <1>2 DEF Books, EntryKnown
<1>6. RewardsWithinFee'
  <2>1. \A t, i : {x \in entries' : x.type = t /\ x.id = i /\ x.level > 0}
                    = {x \in entries : x.type = t /\ x.id = i /\ x.level > 0}
    BY <1>1, <1>2
  <2>2. \A e \in entries' : e.level > 0 => e \in entries
    BY <1>1, <1>2
  <2> QED
    BY <1>1, <2>1, <2>2 DEF Books, RewardsWithinFee
<1> QED
  BY <1>4, <1>5, <1>6 DEF Books

\* A fee with its rewards: they are new together, and the rewards take at most
\* half of it.
LEMMA ChargeKeepsBooks ==
    ASSUME Books, NEW seen, Accepted(seen.settings), NEW u,
           NEW type \in {"MEMBERSHIP_FEE", "PROFIT_FEE"}, NEW id, NEW fee \in Nat,
           Charge(seen, u, type, id, fee),
           \A e \in entries : e.type = type /\ e.id = id /\ e.level = 0 => e.user = u,
           uuids' \in Nat, uuids' >= uuids,
           IF type = "MEMBERSHIP_FEE" THEN id = uuids' ELSE u = Owner[id]
    PROVE  Books'
<1>1. CASE Recorded(u, type, id)
  <2>1. UNCHANGED <<balance, entries>>
    BY <1>1 DEF Charge, ledger
  <2>2. \A e \in entries' : EntryKnown(e)'
    BY <2>1 DEF Books, EntryKnown
  <2>3. LedgerBacksBalance' /\ RewardsWithinFee'
    BY <2>1 DEF Books, LedgerBacksBalance, RewardsWithinFee, EntriesOf
  <2> QED
    BY <2>1, <2>2, <2>3 DEF Books
<1>2. CASE ~Recorded(u, type, id)
  <2> DEFINE main == [user |-> u, type |-> type, id |-> id, level |-> 0, amount |-> -fee]
             R == Rewards(seen, u, type, id, fee)
  <2>1. Post({main} \cup R) /\ entries' = entries \cup ({main} \cup R)
    BY <1>2 DEF Charge, Post
  <2>2. main.user = u /\ main.type = type /\ main.id = id /\ main.level = 0 /\ main.amount = -fee
    OBVIOUS
  <2>3. /\ IsFiniteSet(R) /\ 2 * Total(R) <= fee
        /\ \A e \in R : e.type = type /\ e.id = id /\ e.level \in Nat \ {0} /\ e.amount \in Nat
    BY RewardsBounded
  <2> HIDE DEF main, R
  <2>4. ASSUME NEW e \in entries, e.type = type, e.id = id
        PROVE  FALSE
    <3>1. CASE e.level = 0
      BY <1>2, <2>4, <3>1 DEF Recorded
    <3>2. CASE e.level > 0
      <4>1. PICK f \in entries : f.type = e.type /\ f.id = e.id /\ f.level = 0
        BY <3>2 DEF Books, RewardsWithinFee
      <4> QED
        BY <1>2, <2>4, <4>1 DEF Recorded
    <3> QED
      BY <3>1, <3>2 DEF Books, EntryKnown
  <2>5. IsFiniteSet(entries') /\ balance' \in [Users -> Int] /\ LedgerBacksBalance'
    <3>1. IsFiniteSet({main} \cup R) /\ ({main} \cup R) \cap entries = {}
      BY <2>2, <2>3, <2>4, FS_Singleton, FS_Union
    <3>2. \A e \in {main} \cup R : e.amount \in Int
      BY <2>2, <2>3
    <3> QED
      BY <2>1, <3>1, <3>2, PostBacksBalance
  <2>6. \A e \in entries' : EntryKnown(e)'
    BY <2>1, <2>2, <2>3 DEF Books, EntryKnown
  <2>7. RewardsWithinFee'
    <3> DEFINE paid(t, i) == {x \in entries : x.type = t /\ x.id = i /\ x.level > 0}
               paidNow(t, i) == {x \in entries' : x.type = t /\ x.id = i /\ x.level > 0}
    <3>1. \A t, i : t # type \/ i # id => paidNow(t, i) = paid(t, i)
      BY <2>1, <2>2, <2>3
    <3>2. paidNow(type, id) = R
      BY <2>1, <2>2, <2>3, <2>4
    <3>3. \A e \in entries : e.level > 0 =>
              \E f \in entries : /\ f.type = e.type /\ f.id = e.id /\ f.level = 0
                                 /\ 2 * Total(paid(e.type, e.id)) <= -f.amount
      BY DEF Books, RewardsWithinFee
    <3>4. SUFFICES ASSUME NEW e \in entries', e.level > 0
                   PROVE  \E f \in entries' : /\ f.type = e.type /\ f.id = e.id /\ f.level = 0
                                              /\ 2 * Total(paidNow(e.type, e.id)) <= -f.amount
      BY DEF RewardsWithinFee
    <3> HIDE DEF paid, paidNow
    <3>5. CASE e.type = type /\ e.id = id
      <4>1. 2 * Total(paidNow(e.type, e.id)) <= -main.amount
        BY <2>2, <2>3, <3>2, <3>5
      <4> QED
        BY <2>1, <2>2, <3>5, <4>1
    <3>6. CASE ~(e.type = type /\ e.id = id)
      <4>1. e \in entries
        BY <2>1, <2>2, <2>3, <3>6
      <4> QED
        BY <2>1, <3>1, <3>3, <3>4, <3>6, <4>1
    <3> QED
      BY <3>5, <3>6
  <2> QED
    BY <2>5, <2>6, <2>7 DEF Books
<1> QED
  BY <1>1, <1>2

----------------------------------------------------------------------------
\* What an activation has read: its fee was covered (activateMembership,
\* billing.service.ts:161-168).
Activation == [user : Users,
               seen : [settings : Proposals \cup {DefaultSettings}, expires : [Users -> Int]],
               balance : [Users -> Int],
               until : Int]

RequestOK(r) ==
    request[r] # NoRequest =>
        /\ Accepted(request[r].seen.settings)
        /\ request[r].balance[request[r].user] >= request[r].seen.settings.membershipFee

Accounts ==
    /\ Accepted(settings) /\ settings \in Proposals \cup {DefaultSettings}
    /\ today \in Int
    /\ expires \in [Users -> Int]
    /\ request \in [Requests -> Activation \cup {NoRequest}]
    /\ \A r \in Requests : RequestOK(r)

LedgerInv == Books /\ Accounts

LEMMA RequestRead ==
    ASSUME Accounts, NEW r \in Requests, request[r] # NoRequest
    PROVE  /\ request[r] \in Activation /\ RequestOK(r)
           /\ request[r].user \in Users /\ Accepted(request[r].seen.settings)
           /\ request[r].seen.settings.membershipFee \in Nat
<1>1. request[r] \in Activation /\ Accepted(request[r].seen.settings)
  BY DEF Accounts, RequestOK
<1>2. request[r].seen.settings.membershipFee \in Nat
  BY <1>1, AcceptedPercents
<1> QED
  BY <1>1, <1>2 DEF Accounts, Activation

LEMMA LaterOf == ASSUME NEW a \in Int, NEW b \in Int PROVE Max({a, b}) \in Int /\ Max({a, b}) >= b
BY DEF Max

LEMMA AcceptedProposals == \A s \in Proposals \cup {DefaultSettings} : ValidSettings(s) => Accepted(s)
BY BillingLedgerAssumption DEF Accepted

\* The books stay when nothing is written.
LEMMA BooksStay == ASSUME Books, UNCHANGED <<balance, entries, uuids>> PROVE Books'
<1>1. \A e \in entries' : EntryKnown(e)'
  BY DEF Books, EntryKnown
<1> QED
  BY <1>1 DEF Books, LedgerBacksBalance, RewardsWithinFee, EntriesOf

\* The accounts stay while no one reads for an activation.
LEMMA AccountsStay ==
    ASSUME Accounts, UNCHANGED <<settings, today, expires>>,
           \A r \in Requests : request'[r] \in {request[r], NoRequest},
           request' \in [Requests -> Activation \cup {NoRequest}]
    PROVE  Accounts'
BY DEF Accounts, RequestOK

LEMMA ActivateReadKeeps ==
    ASSUME LedgerInv, NEW r \in Requests, NEW u \in Users, ActivateRead(r, u)
    PROVE  LedgerInv'
<1> DEFINE read == [user |-> u, seen |-> Now, balance |-> balance,
                    until |-> Max({today, expires[u]}) + settings.membershipDays]
<1>1. /\ UNCHANGED <<balance, entries, uuids, settings, today, expires>>
      /\ request' = [request EXCEPT ![r] = read]
      /\ balance[u] >= settings.membershipFee
  BY DEF ActivateRead
<1>2. read \in Activation
  <2>1. settings.membershipDays \in Int /\ Max({today, expires[u]}) \in Int
    BY LaterOf DEF LedgerInv, Accounts, Accepted
  <2> QED
    BY <2>1 DEF Activation, Now, LedgerInv, Accounts, Books
<1>3. /\ read.seen.settings = settings /\ read.balance[read.user] = balance[u]
  BY DEF Now
<1> HIDE DEF read
<1>4. request' \in [Requests -> Activation \cup {NoRequest}]
  BY <1>1, <1>2 DEF LedgerInv, Accounts
<1>5. \A s \in Requests : RequestOK(s)'
  BY <1>1, <1>3 DEF LedgerInv, Accounts, RequestOK
<1>6. Accounts'
  BY <1>1, <1>4, <1>5 DEF LedgerInv, Accounts
<1> QED
  BY <1>1, <1>6, BooksStay DEF LedgerInv

LEMMA ActivateCommitKeeps ==
    ASSUME LedgerInv, NEW r \in Requests, ActivateCommit(r)
    PROVE  LedgerInv'
<1> DEFINE u == request[r].user
           seen == request[r].seen
<1>1. /\ request[r] # NoRequest /\ uuids' = uuids + 1
      /\ Charge(seen, u, "MEMBERSHIP_FEE", uuids', seen.settings.membershipFee)
      /\ expires' = [expires EXCEPT ![u] = request[r].until]
      /\ request' = [request EXCEPT ![r] = NoRequest]
      /\ UNCHANGED <<settings, today>>
  BY DEF ActivateCommit
<1>2. /\ request[r] \in Activation /\ u \in Users /\ Accepted(seen.settings)
      /\ seen.settings.membershipFee \in Nat
  BY <1>1, RequestRead DEF LedgerInv
<1>3. Books'
  <2>1. uuids \in Nat /\ \A e \in entries : e.type = "MEMBERSHIP_FEE" => e.id \in Nat /\ e.id <= uuids
    BY DEF LedgerInv, Books, EntryKnown
  <2>2. ~ \E e \in entries : e.type = "MEMBERSHIP_FEE" /\ e.id = uuids'
    BY <1>1, <2>1
  <2> HIDE DEF u, seen
  <2> QED
    BY <1>1, <1>2, <2>1, <2>2, ChargeKeepsBooks DEF LedgerInv
<1>4. Accounts'
  <2>1. expires' \in [Users -> Int]
    BY <1>1, <1>2 DEF LedgerInv, Accounts, Activation
  <2>2. /\ request' \in [Requests -> Activation \cup {NoRequest}]
        /\ \A s \in Requests : request'[s] \in {request[s], NoRequest}
    BY <1>1 DEF LedgerInv, Accounts
  <2> QED
    BY <1>1, <2>1, <2>2 DEF LedgerInv, Accounts, RequestOK
<1> QED
  BY <1>3, <1>4 DEF LedgerInv

LEMMA SettleKeepsLedger ==
    ASSUME LedgerInv, NEW f \in FeeSchedulers, NEW p \in Positions, Settle(f, p)
    PROVE  LedgerInv'
<1>1. UNCHANGED <<settings, today, expires, request, uuids>>
  BY DEF Settle
<1>2. Accounts'
  BY <1>1, AccountsStay DEF LedgerInv, Accounts
<1>3. CASE UNCHANGED ledger
  BY <1>1, <1>2, <1>3, BooksStay DEF ledger, LedgerInv
<1>4. CASE FeeOf(p) > 0 /\ Charge(Now, Owner[p], "PROFIT_FEE", p, FeeOf(p))
  <2>1. FeeOf(p) \in Nat
    <3>1. FeeOf(p) = Percent(Profit[p], settings.profitFeePercent)
      BY <1>4 DEF FeeOf
    <3>2. Profit[p] \in Int /\ settings.profitFeePercent \in Int
      BY BillingLedgerAssumption DEF LedgerInv, Accounts, Accepted
    <3>3. Profit[p] * settings.profitFeePercent \in Int
      BY <3>2
    <3>4. Percent(Profit[p], settings.profitFeePercent) \in Int
      BY <3>3 DEF Percent
    <3> QED
      BY <1>4, <3>1, <3>4
  <2>2. Accepted(Now.settings)
    BY DEF Now, LedgerInv, Accounts
  <2>3. \A e \in entries : e.type = "PROFIT_FEE" /\ e.id = p /\ e.level = 0 => e.user = Owner[p]
    BY DEF LedgerInv, Books, EntryKnown
  <2>4. Books /\ uuids' \in Nat /\ uuids' >= uuids
    BY <1>1 DEF LedgerInv, Books
  <2>5. Books'
    BY <1>4, <2>1, <2>2, <2>3, <2>4, ChargeKeepsBooks
  <2> QED
    BY <1>2, <2>5 DEF LedgerInv
<1> QED
  BY <1>3, <1>4 DEF Settle, ledger

LEMMA CreditLogKeepsLedger ==
    ASSUME LedgerInv, NEW s \in Scanners, NEW d \in Deposits, CreditLog(s, d)
    PROVE  LedgerInv'
<1>1. UNCHANGED <<settings, today, expires, request, uuids>> /\ CreditDeposit(d)
  BY DEF CreditLog
<1>2. Accounts'
  BY <1>1, AccountsStay DEF LedgerInv, Accounts
<1>3. CASE UNCHANGED ledger
  BY <1>1, <1>2, <1>3, BooksStay DEF ledger, LedgerInv
<1>4. CASE ~Recorded(Receiver[d], "DEPOSIT", d) /\ Credit(Receiver[d], "DEPOSIT", d, Amount[d])
  <2>1. Amount[d] \in Int /\ Books /\ uuids' \in Nat /\ uuids' >= uuids
    BY <1>1, DepositScannerAssumption DEF LedgerInv, Books
  <2>2. Books'
    BY <1>4, <2>1, CreditKeepsBooks
  <2> QED
    BY <1>2, <2>2 DEF LedgerInv
<1> QED
  BY <1>1, <1>3, <1>4 DEF CreditDeposit

LEMMA AdminAdjustKeeps ==
    ASSUME LedgerInv, NEW u \in Users, NEW amount \in Adjustments, AdminAdjust(u, amount)
    PROVE  LedgerInv'
<1>1. /\ UNCHANGED <<settings, today, expires, request>> /\ uuids' = uuids + 1
      /\ Credit(u, "ADMIN_ADJUSTMENT", uuids', amount)
  BY DEF AdminAdjust
<1>2. Accounts'
  BY <1>1, AccountsStay DEF LedgerInv, Accounts
<1>3. Books /\ uuids' \in Nat /\ uuids' >= uuids /\ amount \in Int
  BY <1>1, BillingAssumption DEF LedgerInv, Books
<1>4. ~Recorded(u, "ADMIN_ADJUSTMENT", uuids')
  BY <1>1, <1>3 DEF Recorded, Books, EntryKnown
<1>5. Books'
  BY <1>1, <1>3, <1>4, CreditKeepsBooks
<1> QED
  BY <1>2, <1>5 DEF LedgerInv

LEMMA LedgerInvInit == Init => LedgerInv
<1> SUFFICES ASSUME Init
             PROVE  LedgerInv
  OBVIOUS
<1>1. /\ entries = {} /\ balance = [u \in Users |-> 0] /\ uuids = 0 /\ settings = DefaultSettings
      /\ today = 1 /\ expires = [u \in Users |-> 0] /\ request = [r \in Requests |-> NoRequest]
  BY DEF Init, InitLedger
<1>2. Books
  <2>1. \A u \in Users : EntriesOf(u) = {}
    BY <1>1 DEF EntriesOf
  <2>2. LedgerBacksBalance
    BY <1>1, <2>1, TotalEmpty DEF LedgerBacksBalance
  <2> QED
    BY <1>1, <2>2, FS_EmptySet DEF Books, RewardsWithinFee
<1>3. Accepted(DefaultSettings)
  BY BillingLedgerAssumption, AcceptedProposals
<1>4. Accounts
  BY <1>1, <1>3 DEF Accounts, RequestOK
<1> QED
  BY <1>2, <1>4 DEF LedgerInv

LEMMA LedgerInvStep == ASSUME LedgerInv, [Next]_vars PROVE LedgerInv'
<1>1. ASSUME UNCHANGED <<balance, entries, uuids, today, expires, request>>,
             settings' = settings \/ (settings' \in Proposals /\ ValidSettings(settings'))
      PROVE  LedgerInv'
  <2>1. Accepted(settings') /\ settings' \in Proposals \cup {DefaultSettings}
    BY <1>1, AcceptedProposals DEF LedgerInv, Accounts
  <2>2. Accounts'
    BY <1>1, <2>1 DEF LedgerInv, Accounts, RequestOK
  <2> QED
    BY <1>1, <2>2, BooksStay DEF LedgerInv
<1>2. ASSUME NEW r \in Requests, ActivateFails(r)
      PROVE  LedgerInv'
  <2>1. /\ UNCHANGED <<balance, entries, uuids, settings, today, expires>>
        /\ request' = [request EXCEPT ![r] = NoRequest]
    BY <1>2 DEF ActivateFails
  <2>2. /\ request' \in [Requests -> Activation \cup {NoRequest}]
        /\ \A s \in Requests : request'[s] \in {request[s], NoRequest}
    BY <2>1 DEF LedgerInv, Accounts
  <2> QED
    BY <2>1, <2>2, AccountsStay, BooksStay DEF LedgerInv
<1>3. CASE DayPasses
  <2>1. Accounts'
    BY <1>3 DEF DayPasses, LedgerInv, Accounts, RequestOK
  <2> QED
    BY <1>3, <2>1, BooksStay DEF DayPasses, LedgerInv
<1>4. CASE LedgerStep
  <2>1. ASSUME \/ \E u \in Users : Register(u)
               \/ UpdateSettings
               \/ \E p \in Positions : ClosePosition(p)
        PROVE  LedgerInv'
    BY <1>1, <2>1 DEF Register, UpdateSettings, ClosePosition
  <2>2. ASSUME NEW f \in FeeSchedulers, \/ FeePassLists(f) \/ FeePassCrashes(f)
                                        \/ \E p \in Positions : SettleFails(f, p)
        PROVE  LedgerInv'
    BY <1>1, <2>2 DEF FeePassLists, FeePassCrashes, SettleFails
  <2> QED
    BY <1>2, <1>3, <1>4, <2>1, <2>2, ActivateReadKeeps, ActivateCommitKeeps, SettleKeepsLedger,
       AdminAdjustKeeps
    DEF LedgerStep
<1>5. CASE Mine \/ (\E s \in Scanners : ScanStep(s) \/ ScanFails(s)) \/ UNCHANGED vars
  BY <1>1, <1>5
  DEF Mine, ScanStep, ReadHead, ReadState, ReadAccounts, FetchLogs, SaveProgress, ScanFails,
      ledgerVars, vars
<1> QED
  BY <1>4, <1>5, CreditLogKeepsLedger DEF Next

\* The inductive invariant of the ledger: what an entry is known by is its own, and
\* what an activation has read covers its fee (billing.service.ts:161-372).
THEOREM LedgerInvariant == Spec => []LedgerInv
BY LedgerInvInit, LedgerInvStep, PTL DEF Spec

\* Every balance is the sum of the entries of its user, for any number of users,
\* scanners, fee passes and requests and any amounts (billing.service.ts:355-372).
THEOREM BalancesAreBacked == Spec => []LedgerBacksBalance
<1>1. LedgerInv => LedgerBacksBalance
  BY DEF LedgerInv, Books
<1> QED
  BY <1>1, LedgerInvariant, PTL

\* The rewards paid out of a fee never take more than half of it, for any sequence
\* of accepted settings and any chain of invitations (billing.service.ts:334-353).
THEOREM RewardsAreFunded == Spec => []RewardsWithinFee
<1>1. LedgerInv => RewardsWithinFee
  BY DEF LedgerInv, Books
<1> QED
  BY <1>1, LedgerInvariant, PTL

----------------------------------------------------------------------------
\* Only the entry of a membership fee buys days.
LEMMA OthersBuyNothing ==
    ASSUME NEW u, NEW new, entries' = entries \cup new,
           \A e \in new : e.type # "MEMBERSHIP_FEE" \/ e.level # 0 \/ e.user # u
    PROVE  PaidDays(u)' = PaidDays(u)
BY DEF PaidDays, EntriesOf

\* Days are bought, and expiries moved, by the commit of an activation only.
LEMMA OnlyCommitsBuy ==
    ASSUME LedgerInv, [Next]_vars
    PROVE  \/ /\ UNCHANGED expires
              /\ \A u \in Users : PaidDays(u)' = PaidDays(u)
           \/ \E r \in Requests : ActivateCommit(r)
<1> DEFINE NothingBought == /\ UNCHANGED expires
                            /\ \A u \in Users : PaidDays(u)' = PaidDays(u)
<1>1. ASSUME UNCHANGED <<entries, expires>>
      PROVE  NothingBought
  BY <1>1 DEF PaidDays, EntriesOf
<1>2. ASSUME NEW v, NEW type \in {"DEPOSIT", "ADMIN_ADJUSTMENT"}, NEW id, NEW amount,
             Credit(v, type, id, amount), UNCHANGED expires
      PROVE  NothingBought
  <2> DEFINE new == {[user |-> v, type |-> type, id |-> id, level |-> 0, amount |-> amount]}
  <2>1. entries' = entries \cup new /\ \A e \in new : e.type # "MEMBERSHIP_FEE"
    BY <1>2 DEF Credit, Post
  <2> HIDE DEF new
  <2> QED
    BY <1>2, <2>1, OthersBuyNothing
<1>3. ASSUME NEW f \in FeeSchedulers, NEW p \in Positions, Settle(f, p)
      PROVE  NothingBought
  <2>1. CASE UNCHANGED entries
    BY <1>1, <1>3, <2>1 DEF Settle
  <2>2. CASE Charge(Now, Owner[p], "PROFIT_FEE", p, FeeOf(p)) /\ ~UNCHANGED entries
    <3> DEFINE main == [user |-> Owner[p], type |-> "PROFIT_FEE", id |-> p, level |-> 0,
                        amount |-> -FeeOf(p)]
               new == {main} \cup Rewards(Now, Owner[p], "PROFIT_FEE", p, FeeOf(p))
    <3>1. entries' = entries \cup new
      BY <2>2 DEF Charge, Post, ledger
    <3>2. \A e \in new : e.type # "MEMBERSHIP_FEE"
      BY DEF Rewards
    <3>3. UNCHANGED expires
      BY <1>3 DEF Settle
    <3> HIDE DEF new
    <3> QED
      BY <3>1, <3>2, <3>3, OthersBuyNothing
  <2> QED
    BY <1>3, <2>1, <2>2 DEF Settle, ledger
<1> HIDE DEF NothingBought
<1>4. ASSUME NEW s \in Scanners, NEW d \in Deposits, CreditLog(s, d)
      PROVE  NothingBought
  BY <1>1, <1>2, <1>4 DEF CreditLog, CreditDeposit, ledger
<1>5. ASSUME NEW v \in Users, NEW amount \in Adjustments, AdminAdjust(v, amount)
      PROVE  NothingBought
  BY <1>2, <1>5 DEF AdminAdjust
<1>6. CASE LedgerStep
  <2>1. ASSUME \/ \E u \in Users : Register(u)
               \/ UpdateSettings \/ DayPasses
               \/ \E p \in Positions : ClosePosition(p)
               \/ \E f \in FeeSchedulers : \/ FeePassLists(f) \/ FeePassCrashes(f)
                                           \/ \E p \in Positions : SettleFails(f, p)
               \/ \E r \in Requests : ActivateFails(r) \/ \E u \in Users : ActivateRead(r, u)
        PROVE  NothingBought
    BY <1>1, <2>1 DEF Register, UpdateSettings, DayPasses, ClosePosition, FeePassLists, FeePassCrashes,
       SettleFails, ActivateFails, ActivateRead
  <2> QED
    BY <1>3, <1>5, <1>6, <2>1 DEF LedgerStep, NothingBought
<1>7. CASE Mine \/ (\E s \in Scanners : ScanStep(s) \/ ScanFails(s)) \/ UNCHANGED vars
  <2>1. UNCHANGED <<entries, expires>>
    BY <1>7
    DEF Mine, ScanStep, ReadHead, ReadState, ReadAccounts, FetchLogs, SaveProgress, ScanFails,
        ledgerVars, vars
  <2> QED
    BY <1>1, <2>1 DEF NothingBought
<1> QED
  BY <1>4, <1>6, <1>7 DEF Next, NothingBought

\* What a commit does: the fee and its rewards are new, the balance and the expiry
\* of the payer are the ones the activation read.
LEMMA CommitBuys ==
    ASSUME LedgerInv, NEW r \in Requests, ActivateCommit(r), NEW u, u = request[r].user
    PROVE  /\ u \in Users
           /\ \A v \in Users \ {u} : PaidDays(v)' = PaidDays(v)
           /\ \E main : main \notin PaidDays(u) /\ PaidDays(u)' = PaidDays(u) \cup {main}
           /\ balance'[u] >= 0
           /\ expires' = [expires EXCEPT ![u] = request[r].until]
           /\ expires[u] = request[r].seen.expires[u]
<1> DEFINE seen == request[r].seen
           fee == seen.settings.membershipFee
           main == [user |-> u, type |-> "MEMBERSHIP_FEE", id |-> uuids', level |-> 0, amount |-> -fee]
           R == Rewards(seen, u, "MEMBERSHIP_FEE", uuids', fee)
           RU == {e \in R : e.user = u}
           new == {main} \cup R
<1>1. /\ request[r] # NoRequest /\ uuids' = uuids + 1
      /\ Charge(seen, u, "MEMBERSHIP_FEE", uuids', fee)
      /\ expires' = [expires EXCEPT ![u] = request[r].until]
      /\ Unchanged(r)
  BY DEF ActivateCommit
<1>2. u \in Users /\ Accepted(seen.settings) /\ fee \in Nat /\ request[r] \in Activation
      /\ request[r].balance[u] >= fee
  BY <1>1, RequestRead DEF LedgerInv, RequestOK
<1>3. \A e \in entries : e.type = "MEMBERSHIP_FEE" => e.id # uuids'
  BY <1>1 DEF LedgerInv, Books, EntryKnown
<1>4. ~Recorded(u, "MEMBERSHIP_FEE", uuids')
  BY <1>3 DEF Recorded
<1>5. entries' = entries \cup new
      /\ balance' = [v \in Users |-> balance[v] + Total({e \in new : e.user = v})]
  BY <1>1, <1>4 DEF Charge, Post
<1>6. main.user = u /\ main.type = "MEMBERSHIP_FEE" /\ main.level = 0 /\ main.amount = -fee
      /\ main.id = uuids'
  OBVIOUS
<1>7. balance[u] = request[r].balance[u] /\ expires[u] = seen.expires[u]
  BY <1>1 DEF Unchanged
<1> HIDE DEF seen, fee, main, R
<1>8. /\ IsFiniteSet(R)
      /\ \A e \in R : e.type = "MEMBERSHIP_FEE" /\ e.id = uuids' /\ e.level \in Nat \ {0}
                      /\ e.amount \in Nat
  BY <1>2, RewardsBounded DEF R
<1>9. ASSUME NEW v \in Users \ {u}
      PROVE  PaidDays(v)' = PaidDays(v)
  <2>1. \A e \in new : e.level # 0 \/ e.user # v
    BY <1>6, <1>8
  <2> HIDE DEF new
  <2> QED
    BY <1>5, <2>1, OthersBuyNothing
<1>10. main \notin PaidDays(u) /\ PaidDays(u)' = PaidDays(u) \cup {main}
  <2>1. main \notin PaidDays(u)
    BY <1>3, <1>6 DEF PaidDays, EntriesOf
  <2>2. \A e \in R : e.level # 0
    BY <1>8
  <2>3. PaidDays(u)' = PaidDays(u) \cup {main}
    BY <1>5, <1>6, <2>2 DEF PaidDays, EntriesOf
  <2> QED
    BY <2>1, <2>3
<1>11. balance'[u] >= 0
  <2>1. {e \in new : e.user = u} = {main} \cup RU
    BY <1>6
  <2>2. IsFiniteSet(RU) /\ {main} \cap RU = {} /\ \A e \in RU : e.amount \in Nat
    BY <1>6, <1>8, FS_Subset
  <2> HIDE DEF RU, new
  <2>3. Total({main}) = -fee /\ IsFiniteSet({main}) /\ \A e \in {main} \cup RU : e.amount \in Int
    <3>1. main.amount \in Int
      BY <1>2, <1>6
    <3>2. Total({main}) = main.amount /\ IsFiniteSet({main})
      BY <3>1, TotalSingle
    <3> QED
      BY <1>6, <2>2, <3>1, <3>2
  <2>4. Total({main} \cup RU) = Total({main}) + Total(RU)
    BY <2>2, <2>3, TotalUnion
  <2>5. Total(RU) >= 0 /\ Total(RU) \in Int
    BY <2>2, TotalNonNegative
  <2>6. balance'[u] = balance[u] + Total({main} \cup RU) /\ balance[u] \in Int /\ balance[u] >= fee
    BY <1>2, <1>5, <1>7, <2>1 DEF LedgerInv, Books
  <2> QED
    BY <1>2, <2>3, <2>4, <2>5, <2>6
<1> QED
  BY <1>1, <1>2, <1>7, <1>9, <1>10, <1>11 DEF seen

\* A membership is never bought on credit, whatever fee passes, scanners and the
\* administrator do between its read and its commit (activateMembership under
\* isolation Serializable, billing.service.ts:161-181).
THEOREM MembershipsArePaid == Spec => NoMembershipOnCredit
<1> DEFINE Paid == \A u \in Users : PaidDays(u)' # PaidDays(u) => balance'[u] >= 0
<1>1. LedgerInv /\ [Next]_vars => [Paid]_vars
  <2> SUFFICES ASSUME LedgerInv, [Next]_vars
               PROVE  Paid
    OBVIOUS
  <2>1. ASSUME NEW r \in Requests, ActivateCommit(r)
        PROVE  Paid
    <3>1. PICK u : u = request[r].user
      OBVIOUS
    <3> QED
      BY <2>1, <3>1, CommitBuys
  <2> QED
    BY <2>1, OnlyCommitsBuy
<1> QED
  BY <1>1, LedgerInvariant, PTL DEF Spec, NoMembershipOnCredit

----------------------------------------------------------------------------
\* The days of a fee are never set below the first setting.
DaysNeverCut ==
    \A s \in Proposals : ValidSettings(s) => s.membershipDays >= DefaultSettings.membershipDays

\* An activation adds its days after the expiry it read.
AddsDays(r) ==
    request[r] # NoRequest =>
        request[r].until >= request[r].seen.expires[request[r].user] + DefaultSettings.membershipDays

DaysInv == (\A r \in Requests : AddsDays(r)) /\ PaidDaysGranted

LEMMA DefaultDays == DefaultSettings.membershipDays \in Int
BY BillingLedgerAssumption

LEMMA ActivateReadAddsDays ==
    ASSUME DaysNeverCut, LedgerInv, DaysInv, NEW r \in Requests, NEW u \in Users, ActivateRead(r, u)
    PROVE  \A s \in Requests : AddsDays(s)'
<1> DEFINE read == [user |-> u, seen |-> Now, balance |-> balance,
                    until |-> Max({today, expires[u]}) + settings.membershipDays]
<1>1. request' = [request EXCEPT ![r] = read] /\ request \in [Requests -> Activation \cup {NoRequest}]
  BY DEF ActivateRead, LedgerInv, Accounts
<1>2. /\ read.user = u /\ read.seen.expires = expires
      /\ read.until = Max({today, expires[u]}) + settings.membershipDays
  BY DEF Now
<1>3. settings.membershipDays >= DefaultSettings.membershipDays /\ settings.membershipDays \in Int
  BY DefaultDays DEF LedgerInv, Accounts, Accepted, DaysNeverCut
<1>4. Max({today, expires[u]}) \in Int /\ Max({today, expires[u]}) >= expires[u] /\ expires[u] \in Int
  BY LaterOf DEF LedgerInv, Accounts
<1>5. read.until >= read.seen.expires[read.user] + DefaultSettings.membershipDays
  BY <1>2, <1>3, <1>4, DefaultDays
<1> HIDE DEF read
<1> QED
  BY <1>1, <1>5 DEF DaysInv, AddsDays

LEMMA CommitGrantsDays ==
    ASSUME LedgerInv, DaysInv, NEW r \in Requests, ActivateCommit(r)
    PROVE  DaysInv'
<1> DEFINE D == DefaultSettings.membershipDays
<1> PICK u : u = request[r].user
  OBVIOUS
<1>1. PICK main : /\ u \in Users
                  /\ \A v \in Users \ {u} : PaidDays(v)' = PaidDays(v)
                  /\ main \notin PaidDays(u) /\ PaidDays(u)' = PaidDays(u) \cup {main}
                  /\ expires' = [expires EXCEPT ![u] = request[r].until]
                  /\ expires[u] = request[r].seen.expires[u]
  BY CommitBuys
<1>2. /\ request[r] # NoRequest /\ request' = [request EXCEPT ![r] = NoRequest]
      /\ request \in [Requests -> Activation \cup {NoRequest}]
      /\ expires \in [Users -> Int]
  BY DEF ActivateCommit, LedgerInv, Accounts
<1>3. request[r].until >= expires[u] + D /\ request[r].until \in Int
  BY <1>1, <1>2 DEF DaysInv, AddsDays, Activation
<1>4. \A s \in Requests : AddsDays(s)'
  BY <1>2 DEF DaysInv, AddsDays
<1> DEFINE n == Cardinality(PaidDays(u))
<1>5. Cardinality(PaidDays(u)') = n + 1 /\ n \in Nat
  <2>1. IsFiniteSet(entries) /\ PaidDays(u) \subseteq entries
    BY DEF LedgerInv, Books, PaidDays, EntriesOf
  <2>2. IsFiniteSet(PaidDays(u))
    BY <2>1, FS_Subset
  <2> QED
    BY <1>1, <2>2, FS_AddElement, FS_CardinalityType
<1>6. expires[u] >= n * D
  BY <1>1 DEF DaysInv, PaidDaysGranted
<1> HIDE DEF n
<1>7. request[r].until >= (n + 1) * D
  <2>1. \A a \in Nat, b \in Int : (a + 1) * b = a * b + b /\ a * b \in Int
    OBVIOUS
  <2> QED
    BY <1>1, <1>2, <1>3, <1>5, <1>6, <2>1, DefaultDays
<1>8. \A v \in Users : expires'[v] >= Cardinality(PaidDays(v)') * D
  <2>1. expires'[u] >= Cardinality(PaidDays(u)') * D
    BY <1>1, <1>2, <1>5, <1>7
  <2>2. \A v \in Users \ {u} : expires'[v] = expires[v] /\ expires[v] >= Cardinality(PaidDays(v)) * D
    BY <1>1, <1>2 DEF DaysInv, PaidDaysGranted
  <2>3. \A v \in Users \ {u} : Cardinality(PaidDays(v)') = Cardinality(PaidDays(v))
    BY <1>1
  <2> QED
    BY <2>1, <2>2, <2>3
<1> QED
  BY <1>4, <1>8 DEF DaysInv, PaidDaysGranted

LEMMA DaysInvStep == ASSUME DaysNeverCut, LedgerInv, DaysInv, [Next]_vars PROVE DaysInv'
<1>1. CASE \E r \in Requests : ActivateCommit(r)
  BY <1>1, CommitGrantsDays
<1>2. CASE UNCHANGED expires /\ \A u \in Users : PaidDays(u)' = PaidDays(u)
  <2>1. PaidDaysGranted'
    BY <1>2 DEF DaysInv, PaidDaysGranted
  <2>2. ASSUME UNCHANGED request
        PROVE  \A s \in Requests : AddsDays(s)'
    BY <2>2 DEF DaysInv, AddsDays
  <2>3. ASSUME NEW r \in Requests, ActivateFails(r)
        PROVE  \A s \in Requests : AddsDays(s)'
    BY <2>3 DEF ActivateFails, DaysInv, AddsDays, LedgerInv, Accounts
  <2>4. CASE LedgerStep
    <3>1. ASSUME \/ \E u \in Users : Register(u)
                 \/ UpdateSettings \/ DayPasses
                 \/ \E u \in Users, amount \in Adjustments : AdminAdjust(u, amount)
                 \/ \E p \in Positions : ClosePosition(p)
                 \/ \E f \in FeeSchedulers :
                      \/ FeePassLists(f) \/ FeePassCrashes(f)
                      \/ \E p \in Positions : SettleFails(f, p) \/ Settle(f, p)
          PROVE  UNCHANGED request
      BY <3>1 DEF Register, UpdateSettings, DayPasses, AdminAdjust, ClosePosition, FeePassLists,
         FeePassCrashes, SettleFails, Settle
    <3>2. ASSUME NEW r \in Requests, NEW u \in Users, ActivateRead(r, u)
          PROVE  \A s \in Requests : AddsDays(s)'
      BY <3>2, ActivateReadAddsDays
    <3> QED
      BY <1>1, <2>1, <2>2, <2>3, <2>4, <3>1, <3>2 DEF LedgerStep, DaysInv
  <2>5. CASE \/ Mine \/ UNCHANGED vars
             \/ \E s \in Scanners : \/ ScanStep(s) \/ ScanFails(s)
                                    \/ \E d \in Deposits : CreditLog(s, d)
    <3>1. UNCHANGED request
      BY <2>5
      DEF Mine, ScanStep, ReadHead, ReadState, ReadAccounts, FetchLogs, SaveProgress, ScanFails,
          CreditLog, ledgerVars, vars
    <3> QED
      BY <2>1, <2>2, <3>1 DEF DaysInv
  <2> QED
    BY <2>4, <2>5 DEF Next
<1> QED
  BY <1>1, <1>2, OnlyCommitsBuy

\* Every membership fee that was paid bought its days after the ones paid before,
\* for any number of concurrent requests (activateMembership,
\* billing.service.ts:161-181), as long as the days of a fee are not cut.
THEOREM MembershipsLast == DaysNeverCut => (Spec => []PaidDaysGranted)
<1> SUFFICES ASSUME DaysNeverCut
             PROVE  Spec => []PaidDaysGranted
  OBVIOUS
<1>1. Init => DaysInv
  <2> SUFFICES ASSUME Init
               PROVE  DaysInv
    OBVIOUS
  <2>1. /\ \A r \in Requests : request[r] = NoRequest
        /\ \A u \in Users : PaidDays(u) = {} /\ expires[u] = 0
    BY DEF Init, InitLedger, PaidDays, EntriesOf
  <2>2. Cardinality({}) = 0 /\ 0 * DefaultSettings.membershipDays = 0
    BY FS_EmptySet, DefaultDays
  <2> QED
    BY <2>1, <2>2 DEF DaysInv, AddsDays, PaidDaysGranted
<1>2. LedgerInv /\ DaysInv /\ [Next]_vars => DaysInv'
  BY DaysInvStep
<1>3. DaysInv => PaidDaysGranted
  BY DEF DaysInv
<1> QED
  BY <1>1, <1>2, <1>3, LedgerInvariant, PTL DEF Spec
=============================================================================
