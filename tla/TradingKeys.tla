---------------------------- MODULE TradingKeys ----------------------------
(***************************************************************************)
(* The identities one bot (a TradingStrategy) trades under.  An action key  *)
(* of the runner (testnet-strategy-runner.service.ts) is a string such as   *)
(* strategy:S:position:P:dca:3:attempt-2; here it is the record of what the *)
(* string tells apart.  The client order id is a hash of the action key, so *)
(* a key also names the order on the exchange and the row of the order.     *)
(*                                                                          *)
(* Quantities are whole lots: every entry buys Lot of them.                 *)
(***************************************************************************)
EXTENDS Naturals, FiniteSets, FiniteSetsExt, Functions

CONSTANTS
    MaxCycles,        \* bound: cycles an initial entry is numbered with
    MaxLevel,         \* maxDcaOrders + 1, the deepest level of a position
    IndependentFrom,  \* independentFromLevel
    MaxEntryAttempts, \* bound: entry keys of one level
    Lot               \* lots of one entry

ASSUME TradingKeysAssumption ==
    /\ MaxCycles \in Nat \ {0}
    /\ MaxLevel \in Nat \ {0}
    /\ IndependentFrom \in Nat \ {0, 1}
    /\ MaxEntryAttempts \in Nat \ {0}
    /\ Lot \in Nat \ {0}

Cycles == 1..MaxCycles
Levels == 1..MaxLevel
IndependentLevels == IndependentFrom..MaxLevel

\* Levels bought by the ladder (INITIAL_ENTRY once per cycle, DCA_ENTRY and
\* INDEPENDENT_ENTRY with a fresh key for each cancelled attempt), and the one
\* exit key of the parent (level 1) and of each independent leg.
EntryKeys == [side : {"BUY"}, cycle : Cycles, level : {1}, attempt : {1}] \cup
             [side : {"BUY"}, cycle : Cycles, level : Levels \ {1}, attempt : 1..MaxEntryAttempts]
ExitKeys == [side : {"SELL"}, cycle : Cycles, level : {1} \cup IndependentLevels, attempt : {1}]
Keys == EntryKeys \cup ExitKeys

\* The positions of a behaviour: an entry opens at most one.
Slots == 1..Cardinality(EntryKeys)

EntryKey(cycle, level, attempt) == [side |-> "BUY", cycle |-> cycle, level |-> level, attempt |-> attempt]
ExitKey(cycle, level) == [side |-> "SELL", cycle |-> cycle, level |-> level, attempt |-> 1]

NoKey == [side |-> "NONE", cycle |-> 0, level |-> 0, attempt |-> 0]

\* actionType of a key.
InitialEntry(k) == k.side = "BUY" /\ k.level = 1
IndependentEntry(k) == k.side = "BUY" /\ k.level >= IndependentFrom
IndependentExit(k) == k.side = "SELL" /\ k.level >= IndependentFrom
ParentExit(k) == k.side = "SELL" /\ k.level = 1

\* The attempts of one entry: the keys that differ only in the suffix.
SameEntry(k, j) == /\ k.side = "BUY" /\ j.side = "BUY"
                   /\ k.cycle = j.cycle /\ k.level = j.level

\* Order statuses of TradingOrder that are not final, and final without being filled.
OpenStatuses == {"PENDING", "PARTIALLY_FILLED"}
TerminalStatuses == {"CANCELLED", "REJECTED"}
=============================================================================
