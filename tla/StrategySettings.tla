-------------------------- MODULE StrategySettings --------------------------
(***************************************************************************)
(* StrategyService: the rows of a user's own bots.  A request names some    *)
(* settings; the service merges them with the row it has read, validates    *)
(* the whole and writes the whole.  Two requests may overlap.               *)
(***************************************************************************)
EXTENDS StrategyMath

CONSTANTS
    OwnRows,          \* bots a user may make
    Editors,          \* requests of the user
    NewSettings,      \* bound: settings a new bot may have
    Edits,            \* bound: partial updates, functions from names of settings
    MaxEdits          \* bound: requests of one behaviour

VARIABLES
    own,      \* per bot, its row
    editor,   \* what each request has read
    edits     \* requests started so far

settingsVars == <<own, editor, edits>>

NoRow == [status |-> "NONE"]
Deleted == [status |-> "DELETED"]
IdleEditor == [pc |-> "idle"]

MaxSignalCandles == 950   \* MAX_SIGNAL_CANDLES

\* validateConfigRanges; percents are whole here.
ValidRanges(s) ==
    /\ s.maxDcaOrders \in 1..MaxDcaLevels
    /\ s.dcaStep \in 3..15
    /\ s.takeProfit \in 1..5 /\ s.subTrigger \in 1..5 /\ s.subTakeProfit \in 1..5
    /\ \A i \in DOMAIN s.dcaMultipliers : s.dcaMultipliers[i] > 0

\* validateEntryRules: how far back a dip may lie depends on the candles.
ValidEntryRules(s) ==
    /\ s.lookback \in 5..(s.timeframe * (MaxSignalCandles - 60))
    /\ s.stopLoss \in 0..90

\* normalize and buildPlan
ValidStrategy(s) == ValidRanges(s) /\ ValidEntryRules(s) /\ ValidRecovery(s) /\ ValidPlanInput(s)

Merged(row, edit) == [f \in DOMAIN row |-> IF f \in DOMAIN edit THEN edit[f] ELSE row[f]]

-----------------------------------------------------------------------------
StartEdit(q, r) ==
    /\ editor[q].pc = "idle"
    /\ edits < MaxEdits
    /\ edits' = edits + 1
    /\ editor' = [editor EXCEPT ![q] = r]

\* create: one statement.
CreateStrategy(q, b, s) ==
    /\ own[b] = NoRow /\ ValidStrategy(s)
    /\ StartEdit(q, IdleEditor)
    /\ own' = [own EXCEPT ![b] = [status |-> "STOPPED", settings |-> s]]

\* update: a bot that runs is not edited.
ReadForUpdate(q, b, edit) ==
    /\ own[b].status \in {"STOPPED", "PAUSED"}
    /\ ValidStrategy(Merged(own[b].settings, edit))
    /\ StartEdit(q, [pc |-> "update", bot |-> b, edit |-> edit, row |-> Merged(own[b].settings, edit)])
    /\ UNCHANGED own

\* Mutant: only the settings the request names are written.
WritesEdited(w, row) == Merged(row, w.edit)

WritesRow(w, row) == w.row

\* The row it was read from may run by now, or be gone.
WriteUpdate(q) ==
    LET w == editor[q] IN
    /\ w.pc = "update"
    /\ own' = IF own[w.bot] = Deleted THEN own
              ELSE [own EXCEPT ![w.bot].settings = WritesRow(w, @)]
    /\ editor' = [editor EXCEPT ![q] = IdleEditor]
    /\ UNCHANGED edits

\* setStatus and remove read the row before they write; a bot with an open
\* position is not removed, which is another reason to refuse here.
ReadToSet(q, b, status) ==
    /\ own[b] \notin {NoRow, Deleted}
    /\ StartEdit(q, [pc |-> "set", bot |-> b, status |-> status])
    /\ UNCHANGED own

WriteStatus(q) ==
    LET w == editor[q] IN
    /\ w.pc = "set"
    /\ own' = IF own[w.bot] = Deleted THEN own
              ELSE [own EXCEPT ![w.bot] = IF w.status = "DELETED" THEN Deleted ELSE [@ EXCEPT !.status = w.status]]
    /\ editor' = [editor EXCEPT ![q] = IdleEditor]
    /\ UNCHANGED edits

-----------------------------------------------------------------------------
SettingsInit ==
    /\ own = [b \in OwnRows |-> NoRow]
    /\ editor = [q \in Editors |-> IdleEditor]
    /\ edits = 0

SettingsNext ==
    \E q \in Editors :
        \/ \E b \in OwnRows :
               \/ \E s \in NewSettings : CreateStrategy(q, b, s)
               \/ \E edit \in Edits : ReadForUpdate(q, b, edit)
               \/ \E status \in {"RUNNING", "PAUSED", "STOPPED", "DELETED"} : ReadToSet(q, b, status)
        \/ WriteUpdate(q) \/ WriteStatus(q)

SettingsSpec == SettingsInit /\ [][SettingsNext]_settingsVars

-----------------------------------------------------------------------------
\* Whatever updates overlap, a stored bot is one the engines can run: its levels,
\* its recovery legs and its look-back fit together, although each request only
\* named some of them and validated them against a row another one has changed.
SettingsAlwaysValid == \A b \in OwnRows : own[b] \notin {NoRow, Deleted} => ValidStrategy(own[b].settings)
-----------------------------------------------------------------------------
(* Types *)

\* A row that was made has a status and settings.
Made(b) == own[b] = [status |-> own[b].status, settings |-> own[b].settings]

SettingsTypeOK ==
    /\ own = [b \in OwnRows |-> own[b]]
    /\ editor = [q \in Editors |-> editor[q]]
    /\ \A b \in OwnRows : own[b] \in {NoRow, Deleted} \/ Made(b)
=============================================================================
