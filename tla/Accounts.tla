------------------------------ MODULE Accounts ------------------------------
(***************************************************************************)
(* The account of one user: sign-in, password changes, reset links and the  *)
(* authenticator app.  Every request reads the row first; the hashing of a  *)
(* password, or the next query, lies between that and its write.            *)
(***************************************************************************)
EXTENDS Integers, FiniteSets, Sequences

CONSTANTS
    AccountRequests,   \* requests that may be under way at once
    Browsers,          \* clients of the user, each with a device id
    MaxSteps,          \* bound: the last time step of the authenticator codes
    MaxCalls,          \* bound: requests of one behaviour
    MaxLinks           \* bound: reset links ever calls

VARIABLES
    user,      \* the row: password and secret as their numbers, secret 0 for none
    links,     \* rows of PasswordResetToken
    devices,   \* rows of UserKnownDevice
    session,   \* per browser, the token it keeps
    call,      \* what each request has read
    calls,     \* requests so far; each has a password and a secret of its own
    totpStep,  \* the time, in steps of the codes
    taken      \* codes of the secret that were accepted, numbered per code

accountVars == <<user, links, devices, session, call, calls, totpStep, taken>>

NoSession == [ver |-> 0, password |-> 0]
NoStep == 0          \* totpLastStep is null
NoRequest == [pc |-> "idle"]

Goes(q, r) == call' = [call EXCEPT ![q] = r]

Begins(q, r) ==
    /\ call[q] = NoRequest /\ calls < MaxCalls
    /\ calls' = calls + 1
    /\ Goes(q, r)

\* verifyTotp: the codes of the step before, this one and the next.
CodesNow == (totpStep - 1)..(totpStep + 1)

ClaimsStep(step) == user.lastStep < step

\* A code is counted as long as its secret stays.
Accepting(w) == IF w.row.secret # user.secret THEN taken
                ELSE taken \cup {[step |-> w.step, nr |-> Cardinality({c \in taken : c.step = w.step})]}

\* consume: next is what the request does when the code was claimed.
Consume(q, next) ==
    LET w == call[q] IN
    /\ IF w.row.secret # 0 /\ w.step > w.row.lastStep /\ ClaimsStep(w.step)
       THEN /\ user' = [user EXCEPT !.lastStep = w.step]
            /\ taken' = Accepting(w)
            /\ Goes(q, next)
       ELSE Goes(q, NoRequest) /\ UNCHANGED <<user, taken>>
    /\ UNCHANGED <<links, devices, session, calls, totpStep>>

-----------------------------------------------------------------------------
(* Sign-in *)

\* login, with the password as of when the user typed it; with the app enabled
\* and no code the answer is twoFactorRequired, and he signs in again with one.
Login(q, b, step) ==
    /\ session[b] = NoSession
    /\ step \in CodesNow
    /\ Begins(q, [pc |-> IF user.enabled THEN "code" ELSE "device", row |-> user,
                  browser |-> b, step |-> IF user.enabled THEN step ELSE NoStep])
    /\ UNCHANGED <<user, links, devices, session, totpStep, taken>>

LoginCode(q) == call[q].pc = "code" /\ Consume(q, [call[q] EXCEPT !.pc = "device"])

\* recordDevice: a device the user has is updated, a new one is created.
FindDevice(q) ==
    LET w == call[q] IN
    /\ w.pc = "device"
    /\ Goes(q, [pc |-> "token", row |-> w.row, browser |-> w.browser, known |-> w.browser \in devices])
    /\ UNCHANGED <<user, links, devices, session, calls, totpStep, taken>>

\* The token of the version that was read; the request fails when another one of
\* the same device has created its row meanwhile.
SignIn(q) ==
    LET w == call[q] IN
    /\ w.pc = "token"
    /\ devices' = devices \cup {w.browser}
    /\ session' = IF w.known \/ w.browser \notin devices
                  THEN [session EXCEPT ![w.browser] = [ver |-> w.row.authVersion, password |-> w.row.password]]
                  ELSE session
    /\ Goes(q, NoRequest)
    /\ UNCHANGED <<user, links, calls, totpStep, taken>>

\* canActivate, and AuthContext: a refused token is dropped.
Accepted(b) == session[b].ver = user.authVersion

DropSession(b) ==
    /\ session[b] # NoSession
    /\ session' = [session EXCEPT ![b] = NoSession]
    /\ UNCHANGED <<user, links, devices, call, calls, totpStep, taken>>

-----------------------------------------------------------------------------
(* Passwords *)

\* Mutant: a new password leaves the sessions alone.
KeepsVersion(row) == row.authVersion

NextVersion(row) == row.authVersion + 1

Repassworded(p) == [user EXCEPT !.password = p, !.authVersion = NextVersion(user)]
LinksSpent == [l \in DOMAIN links |-> [links[l] EXCEPT !.usedAt = TRUE]]

\* changePassword: two writes, with the hash of the new password before them.
ChangePassword(q, b) ==
    /\ session[b] # NoSession /\ Accepted(b)
    /\ Begins(q, [pc |-> "change", password |-> calls'])
    /\ UNCHANGED <<user, links, devices, session, totpStep, taken>>

WritePassword(q) ==
    /\ call[q].pc = "change"
    /\ user' = Repassworded(call[q].password)
    /\ Goes(q, [pc |-> "spend"])
    /\ UNCHANGED <<links, devices, session, calls, totpStep, taken>>

SpendLinks(q) ==
    /\ call[q].pc = "spend"
    /\ links' = LinksSpent
    /\ Goes(q, NoRequest)
    /\ UNCHANGED <<user, devices, session, calls, totpStep, taken>>

\* requestPasswordReset: the old links are spent, then the new one is calls.
RequestReset(q) ==
    /\ Len(links) < MaxLinks
    /\ Begins(q, [pc |-> "link"])
    /\ links' = LinksSpent
    /\ UNCHANGED <<user, devices, session, totpStep, taken>>

CreateLink(q) ==
    /\ call[q].pc = "link"
    /\ Len(links) < MaxLinks
    /\ links' = Append(links, [usedAt |-> FALSE, expired |-> FALSE, resets |-> 0])
    /\ Goes(q, NoRequest)
    /\ UNCHANGED <<user, devices, session, calls, totpStep, taken>>

Usable(l) == ~links[l].usedAt /\ ~links[l].expired

ResetPassword(q, l) ==
    /\ Usable(l)
    /\ Begins(q, [pc |-> "reset", link |-> l, password |-> calls'])
    /\ UNCHANGED <<user, links, devices, session, totpStep, taken>>

\* The transaction spends the link, or finds it spent and changes nothing.
WriteReset(q) ==
    LET l == call[q].link IN
    /\ call[q].pc = "reset"
    /\ IF Usable(l)
       THEN /\ user' = Repassworded(call[q].password)
            /\ links' = [LinksSpent EXCEPT ![l].resets = @ + 1]
       ELSE UNCHANGED <<user, links>>
    /\ Goes(q, NoRequest)
    /\ UNCHANGED <<devices, session, calls, totpStep, taken>>

LinkExpires(l) ==
    /\ Usable(l)
    /\ links' = [links EXCEPT ![l].expired = TRUE]
    /\ UNCHANGED <<user, devices, session, call, calls, totpStep, taken>>

-----------------------------------------------------------------------------
(* The authenticator app *)

\* setup: a new secret, which takes effect when a code of it is confirmed.
Setup(q, b) ==
    /\ session[b] # NoSession /\ Accepted(b) /\ ~user.enabled
    /\ Begins(q, [pc |-> "setup", secret |-> calls'])
    /\ UNCHANGED <<user, links, devices, session, totpStep, taken>>

WriteSecret(q) ==
    /\ call[q].pc = "setup"
    /\ user' = [user EXCEPT !.secret = call[q].secret, !.lastStep = NoStep]
    /\ taken' = {} /\ Goes(q, NoRequest)
    /\ UNCHANGED <<links, devices, session, calls, totpStep>>

\* enable and disable: the row, the code, the write.
Confirm(q, b, step) ==
    /\ session[b] # NoSession /\ Accepted(b) /\ user.secret # 0
    /\ step \in CodesNow
    /\ Begins(q, [pc |-> IF user.enabled THEN "disable" ELSE "enable", row |-> user, step |-> step])
    /\ UNCHANGED <<user, links, devices, session, totpStep, taken>>

ConfirmCode(q) ==
    \/ call[q].pc = "enable" /\ Consume(q, [pc |-> "on"])
    \/ call[q].pc = "disable" /\ Consume(q, [pc |-> "off"])

SwitchApp(q) ==
    /\ call[q].pc \in {"on", "off"}
    /\ user' = IF call[q].pc = "on" THEN [user EXCEPT !.enabled = TRUE]
               ELSE [user EXCEPT !.enabled = FALSE, !.secret = 0, !.lastStep = NoStep]
    /\ taken' = IF call[q].pc = "on" THEN taken ELSE {}
    /\ Goes(q, NoRequest)
    /\ UNCHANGED <<links, devices, session, calls, totpStep>>

-----------------------------------------------------------------------------
StepPasses ==
    /\ totpStep < MaxSteps
    /\ totpStep' = totpStep + 1
    /\ UNCHANGED <<user, links, devices, session, call, calls, taken>>

\* register, from a client that sent no device id: the row, and its token.
AccountInit ==
    /\ user = [password |-> 1, authVersion |-> 0, secret |-> 0, enabled |-> FALSE, lastStep |-> NoStep]
    /\ links = <<>>
    /\ devices = {}
    /\ session = [b \in Browsers |-> [ver |-> 0, password |-> 1]]
    /\ call = [q \in AccountRequests |-> NoRequest]
    /\ calls = 1 /\ totpStep = 2 /\ taken = {}

AccountNext ==
    \/ \E q \in AccountRequests :
           \/ \E b \in Browsers : \/ ChangePassword(q, b) \/ Setup(q, b)
                                  \/ \E step \in CodesNow : Login(q, b, step) \/ Confirm(q, b, step)
           \/ \E l \in DOMAIN links : ResetPassword(q, l)
           \/ LoginCode(q) \/ FindDevice(q) \/ SignIn(q)
           \/ WritePassword(q) \/ SpendLinks(q)
           \/ RequestReset(q) \/ CreateLink(q) \/ WriteReset(q)
           \/ WriteSecret(q) \/ ConfirmCode(q) \/ SwitchApp(q)
    \/ \E b \in Browsers : DropSession(b)
    \/ \E l \in DOMAIN links : LinkExpires(l)
    \/ StepPasses

AccountSpec == AccountInit /\ [][AccountNext]_accountVars

-----------------------------------------------------------------------------
\* However requests of one user overlap: a token that is accepted was given for the
\* password in force, a code signs in once as long as its secret stays, and a reset
\* link sets one password.
AccountsSound ==
    /\ \A b \in Browsers :
           session[b] # NoSession /\ Accepted(b) => session[b].password = user.password
    /\ \A c \in taken : c.nr = 0
    /\ \A l \in DOMAIN links : links[l].resets <= 1
-----------------------------------------------------------------------------
(* Types *)

UserRow == [password : Nat, authVersion : Nat, secret : Nat, enabled : BOOLEAN, lastStep : Int]
ResetLink == [usedAt : BOOLEAN, expired : BOOLEAN, resets : Nat]

AccountTypeOK ==
    /\ user \in UserRow
    /\ links \in Seq(ResetLink)
    /\ DOMAIN session = Browsers /\ DOMAIN call = AccountRequests
    /\ calls \in Nat /\ totpStep \in Int
=============================================================================
