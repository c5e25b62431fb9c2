---------------------------- MODULE DepositScanner ----------------------------
(***************************************************************************)
(* BscDepositScanner (billing/bsc-deposit.scanner.ts): it asks the chain for *)
(* its head, reads its own progress, then the deposit addresses, and credits *)
(* the transfers of one range of confirmed blocks after the other; progress  *)
(* is saved after each range.  Passes of several instances may overlap: the  *)
(* lock of the scanner is not renewed.                                       *)
(*                                                                          *)
(* The log queries of one range (200 addresses each) are one step: the       *)
(* blocks they ask for are final.                                            *)
(***************************************************************************)
EXTENDS BillingLedger

CONSTANTS
    Scanners,       \* instances that scan
    Deposits,       \* transfers to deposit addresses a behaviour may see
    Receiver,       \* Receiver[d]: the user whose address d goes to
    Amount,         \* Amount[d], after floorQuote; 0 for dust
    Confirmations,
    BlockRange,     \* blocks of one log query
    MaxRanges,      \* ranges of one pass
    StartBlock,     \* BSC_SCAN_START_BLOCK, or NoBlock
    MaxHead         \* bound: last block of a behaviour

NoBlock == -1

ASSUME DepositScannerAssumption ==
    /\ Receiver \in [Deposits -> Users]
    /\ Amount \in [Deposits -> Nat]
    /\ Confirmations \in Nat
    /\ BlockRange \in Nat \ {0}
    /\ MaxRanges \in Nat \ {0}
    /\ StartBlock \in Nat \cup {NoBlock}
    /\ MaxHead \in Nat

VARIABLES
    head,           \* number of the latest block
    block,          \* block[d]: the block of transfer d, 0 while it is not sent
    lastScanned,    \* lastScannedBlock, NoBlock while there is no DepositScanState
    firstBlock,     \* history: the first block of the first range ever tried
    scanner         \* scanner[s]: where s is, and what it has read

chainVars == <<head, block>>
scanVars == <<lastScanned, firstBlock, scanner>>

NotScanning == [pc |-> "idle", safeHead |-> 0, from |-> 0, to |-> 0, ranges |-> 0,
                watched |-> {}, logs |-> {}]

InitScanner == /\ head = Confirmations
               /\ block = [d \in Deposits |-> 0]
               /\ lastScanned = NoBlock
               /\ firstBlock = NoBlock
               /\ scanner = [s \in Scanners |-> NotScanning]

ScannerAt(s, pc) == scanner[s].pc = pc
StopScan(s) == scanner' = [scanner EXCEPT ![s] = NotScanning]

\* A block with transfers is added to the chain; an address can be sent to from
\* the moment it is assigned.  (The last blocks of a behaviour are empty, so that
\* every transfer gets its confirmations.)
Mine ==
    /\ head < MaxHead
    /\ head' = head + 1
    /\ \E sent \in SUBSET {d \in Deposits : block[d] = 0 /\ Receiver[d] \in registered} :
         /\ sent # {} => head' + Confirmations <= MaxHead
         /\ block' = [d \in Deposits |-> IF d \in sent THEN head' ELSE block[d]]
    /\ UNCHANGED <<scanVars, ledgerVars>>

----------------------------------------------------------------------------
\* getBlockNumber
ReadHead(s) ==
    /\ ScannerAt(s, "idle")
    /\ scanner' = [scanner EXCEPT ![s].pc = "state", ![s].safeHead = head - Confirmations]
    /\ UNCHANGED <<chainVars, lastScanned, firstBlock, ledgerVars>>

\* Mutant: the configured start is not looked at.
FirstAtHead(s, last) == IF last # NoBlock THEN last + 1 ELSE scanner[s].safeHead

\* Where a pass begins that found `last` in the database.
FirstOf(s, last) ==
    IF last # NoBlock THEN last + 1
    ELSE IF StartBlock # NoBlock THEN StartBlock ELSE scanner[s].safeHead

ReadState(s) ==
    LET from == FirstOf(s, lastScanned)
    IN /\ ScannerAt(s, "state")
       /\ IF from > scanner[s].safeHead
          THEN StopScan(s) /\ UNCHANGED firstBlock
          ELSE /\ scanner' = [scanner EXCEPT ![s].pc = "accounts", ![s].from = from]
               /\ firstBlock' = IF firstBlock = NoBlock THEN from ELSE firstBlock
       /\ UNCHANGED <<chainVars, lastScanned, ledgerVars>>

ReadAccounts(s) ==
    /\ ScannerAt(s, "accounts")
    /\ scanner' = [scanner EXCEPT ![s].pc = "range", ![s].watched = registered]
    /\ UNCHANGED <<chainVars, lastScanned, firstBlock, ledgerVars>>

RangeEnd(s) ==
    LET end == scanner[s].from + BlockRange - 1
    IN IF end < scanner[s].safeHead THEN end ELSE scanner[s].safeHead

\* getLogs
FetchLogs(s) ==
    /\ ScannerAt(s, "range")
    /\ scanner' = [scanner EXCEPT
                     ![s].pc = "crediting", ![s].to = RangeEnd(s),
                     ![s].logs = {d \in Deposits : /\ block[d] # 0
                                                   /\ block[d] \in scanner[s].from..RangeEnd(s)
                                                   /\ Receiver[d] \in scanner[s].watched}]
    /\ UNCHANGED <<chainVars, lastScanned, firstBlock, ledgerVars>>

\* Mutant: the transfer is credited again.
CreditAgain(d) == Credit(Receiver[d], "DEPOSIT", d, Amount[d])

\* creditDeposit: dust and transfers credited already are passed over.
CreditDeposit(d) ==
    IF Amount[d] = 0 \/ Recorded(Receiver[d], "DEPOSIT", d) THEN UNCHANGED ledger
    ELSE Credit(Receiver[d], "DEPOSIT", d, Amount[d])

CreditLog(s, d) ==
    /\ ScannerAt(s, "crediting")
    /\ d \in scanner[s].logs
    /\ CreditDeposit(d)
    /\ scanner' = [scanner EXCEPT ![s].logs = @ \ {d}]
    /\ UNCHANGED <<chainVars, lastScanned, firstBlock, registered, expires, settings, today,
                   position, pending, request, uuids>>

\* Mutant: the whole pass is saved as done.
ProgressToHead(s) == scanner[s].safeHead

Progress(s) == scanner[s].to

\* Progress is saved, and the next range follows if there is one.
SaveProgress(s) ==
    LET next == scanner[s].to + 1
        done == scanner[s].ranges + 1
    IN /\ ScannerAt(s, "crediting")
       /\ scanner[s].logs = {}
       /\ lastScanned' = Progress(s)
       /\ IF done < MaxRanges /\ next <= scanner[s].safeHead
          THEN scanner' = [scanner EXCEPT ![s].pc = "range", ![s].from = next, ![s].ranges = done]
          ELSE StopScan(s)
       /\ UNCHANGED <<chainVars, firstBlock, ledgerVars>>

\* A call to the chain or the database throws, or the process dies.
ScanFails(s) ==
    /\ ~ScannerAt(s, "idle")
    /\ StopScan(s)
    /\ UNCHANGED <<chainVars, lastScanned, firstBlock, ledgerVars>>

ScanStep(s) == ReadHead(s) \/ ReadState(s) \/ ReadAccounts(s) \/ FetchLogs(s) \/ SaveProgress(s)
=============================================================================
