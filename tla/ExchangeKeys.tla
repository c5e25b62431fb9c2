---------------------------- MODULE ExchangeKeys ----------------------------
(***************************************************************************)
(* API keys of a user: ExchangeCredentialsService keeps one row for each     *)
(* exchange and environment, ExchangeAccountManagementService asks Binance   *)
(* what a LIVE key may do before it is stored.  Key, secret and passphrase   *)
(* are written and read together and stand for one value here, which stands  *)
(* for a key on each exchange; what it may do is what the exchange says.     *)
(***************************************************************************)
EXTENDS Naturals, FiniteSets

CONSTANTS
    ApiKeys,        \* keys a user has been given by an exchange
    Rights,         \* Rights[k]: subset of {"spot", "withdraw"}
    KeyRequests,    \* requests that may run at once
    MaxKeyChanges,  \* bound: rows written or removed
    NoApiKey

ASSUME ExchangeKeysAssumption ==
    /\ Rights \in [ApiKeys -> SUBSET {"spot", "withdraw"}]
    /\ NoApiKey \notin ApiKeys /\ MaxKeyChanges \in Nat

\* Binance LIVE; Bybit Testnet and OKX Demo.  Binance TESTNET is stored as they are.
DemoExchanges == {"BYBIT", "OKX"}
Exchanges == {"LIVE"} \cup DemoExchanges

VARIABLES
    credential,    \* the rows, by exchange
    keyRequest,    \* the requests
    keyChanges     \* rows written or removed so far

keyVars == <<credential, keyRequest, keyChanges>>

NoKeyRequest == [at |-> "idle", exchange |-> "LIVE", key |-> NoApiKey, row |-> 0]

\* Rows are numbered as they are created; an upsert keeps the number of the row.
NoCredential == [row |-> 0, key |-> NoApiKey]

\* A mutant: a key that may withdraw is accepted.
MayTrade(k) == "spot" \in Rights[k]
Acceptable(k) == MayTrade(k) /\ "withdraw" \notin Rights[k]

\* A LIVE key is validated first, the others are stored as they are.
AskToSave(q, exchange, k) ==
    /\ keyRequest[q].at = "idle" /\ keyChanges < MaxKeyChanges
    /\ keyRequest' = [keyRequest EXCEPT ![q] =
           [NoKeyRequest EXCEPT !.at = IF exchange = "LIVE" THEN "validate" ELSE "save",
                                !.exchange = exchange, !.key = k]]
    /\ UNCHANGED <<credential, keyChanges>>

\* getAccount and getApiKeyPermissions: both must answer and both must agree.
ValidateKey(q) ==
    /\ keyRequest[q].at = "validate"
    /\ keyRequest' = [keyRequest EXCEPT ![q] =
           IF Acceptable(@.key) THEN [@ EXCEPT !.at = "save"] ELSE NoKeyRequest]
    /\ UNCHANGED <<credential, keyChanges>>

\* upsert: the row is replaced as a whole, or created.
SaveKey(q) ==
    LET exchange == keyRequest[q].exchange
        row == IF credential[exchange].row = 0 THEN keyChanges + 1
               ELSE credential[exchange].row
    IN /\ keyRequest[q].at = "save" /\ keyChanges < MaxKeyChanges
       /\ credential' = [credential EXCEPT ![exchange] = [row |-> row, key |-> keyRequest[q].key]]
       /\ keyRequest' = [keyRequest EXCEPT ![q] = NoKeyRequest]
       /\ keyChanges' = keyChanges + 1

\* Exchange or database do not answer.
KeyRequestFails(q) ==
    /\ keyRequest[q].at # "idle"
    /\ keyRequest' = [keyRequest EXCEPT ![q] = NoKeyRequest]
    /\ UNCHANGED <<credential, keyChanges>>

\* removeExchange: the row is looked up ...
AskToRemove(q, exchange) ==
    /\ keyRequest[q].at = "idle" /\ keyChanges < MaxKeyChanges
    /\ credential[exchange].row # 0
    /\ keyRequest' = [keyRequest EXCEPT ![q] =
           [NoKeyRequest EXCEPT !.at = "remove", !.exchange = exchange,
                                !.row = credential[exchange].row]]
    /\ UNCHANGED <<credential, keyChanges>>

\* ... and deleted by its number, whatever key it holds by now; when it is gone
\* the request fails.
RemoveKey(q) ==
    LET exchange == keyRequest[q].exchange
        mine == credential[exchange].row = keyRequest[q].row
    IN /\ keyRequest[q].at = "remove" /\ keyChanges < MaxKeyChanges
       /\ credential' = IF mine THEN [credential EXCEPT ![exchange] = NoCredential] ELSE credential
       /\ keyChanges' = IF mine THEN keyChanges + 1 ELSE keyChanges
       /\ keyRequest' = [keyRequest EXCEPT ![q] = NoKeyRequest]

KeysInit ==
    /\ credential = [exchange \in Exchanges |-> NoCredential]
    /\ keyRequest = [q \in KeyRequests |-> NoKeyRequest]
    /\ keyChanges = 0

KeyStep(q) ==
    \/ \E exchange \in Exchanges : AskToRemove(q, exchange)
    \/ \E exchange \in Exchanges, k \in ApiKeys : AskToSave(q, exchange, k)
    \/ ValidateKey(q) \/ SaveKey(q) \/ RemoveKey(q) \/ KeyRequestFails(q)

-----------------------------------------------------------------------------
(* Properties *)

KeyRows == [row : Nat, key : ApiKeys \cup {NoApiKey}]
KeyAsked ==
    [at : {"idle", "validate", "save", "remove"}, exchange : Exchanges,
     key : ApiKeys \cup {NoApiKey}, row : Nat]

\* The type invariant of the keys.
KeysTypeOK ==
    /\ credential \in [Exchanges -> KeyRows]
    /\ keyRequest \in [KeyRequests -> KeyAsked]
    /\ keyChanges \in Nat

\* The key the LIVE bots trade with may trade and may not withdraw, whichever of
\* several requests that save, replace and remove keys came last.
LiveKeyCannotWithdraw ==
    credential["LIVE"].key # NoApiKey => Rights[credential["LIVE"].key] = {"spot"}
=============================================================================
