---------------------------- MODULE TelegramLink ----------------------------
(***************************************************************************)
(* How a user connects a Telegram chat: a one-time token in a link, the     *)
(* /start message Telegram delivers (and may deliver again) to the webhook, *)
(* and the settings of the channels, which any request may rewrite from     *)
(* what it read before.                                                     *)
(***************************************************************************)
EXTENDS Naturals, Sequences, FiniteSets

CONSTANTS
    Users, Chats,
    Updates,          \* calls of the webhook
    LinkRequests,     \* requests of the users: link, disconnect, settings
    MaxTokens,        \* bound: tokens of one behaviour
    MaxLinkRequests,  \* bound: requests of one behaviour
    NoUser, NoChat

ASSUME LinkAssumption ==
    NoUser \notin Users /\ NoChat \notin Chats /\ {MaxTokens, MaxLinkRequests} \subseteq Nat

VARIABLES
    preference,   \* NotificationPreference, one row per user
    token,        \* TelegramConnectionToken, oldest first
    connects,     \* per token, how often it connected a chat
    update,       \* what each call of the webhook has read
    linkRequest,  \* what each request has read
    linkRequests  \* requests started so far

linkVars == <<preference, token, connects, update, linkRequest, linkRequests>>

NoPreference == [chat |-> NoChat, enabled |-> FALSE]
IdleUpdate == [pc |-> "idle", token |-> 0, chat |-> NoChat]
IdleLinkRequest == [pc |-> "idle", user |-> NoUser, view |-> NoPreference, enable |-> FALSE]

\* A mutant: the claim forgets usedAt.
NotExpired(t) == ~token[t].expired
Live(t) == ~token[t].used /\ ~token[t].expired

\* telegramChatId @unique
ChatFree(u, c) == c = NoChat \/ \A v \in Users \ {u} : preference[v].chat # c

-----------------------------------------------------------------------------
(* TelegramConnectionService.processWebhook *)

\* A /start message with a token arrives; whoever has the link may send it.
ReceiveStart(h, t, c) ==
    /\ update[h].pc = "idle"
    /\ update' = [update EXCEPT ![h] = [pc |-> IF Live(t) THEN "claim" ELSE "idle", token |-> t, chat |-> c]]
    /\ UNCHANGED <<preference, token, connects, linkRequest, linkRequests>>

\* updateMany with usedAt null and not expired: one call gets the token.
ClaimToken(h) ==
    LET t == update[h].token IN
    /\ update[h].pc = "claim"
    /\ token' = [token EXCEPT ![t].used = @ \/ Live(t)]
    /\ update' = [update EXCEPT ![h] = IF Live(t) THEN [@ EXCEPT !.pc = "check"] ELSE IdleUpdate]
    /\ UNCHANGED <<preference, connects, linkRequest, linkRequests>>

CheckOtherAccount(h) ==
    LET w == update[h] IN
    /\ w.pc = "check"
    /\ update' = [update EXCEPT ![h] = IF ChatFree(token[w.token].user, w.chat)
                                       THEN [@ EXCEPT !.pc = "connect"] ELSE IdleUpdate]
    /\ UNCHANGED <<preference, token, connects, linkRequest, linkRequests>>

\* The upsert; a chat another account got meanwhile violates the unique key.
ConnectChat(h) ==
    LET w == update[h]
        u == token[w.token].user
    IN /\ w.pc = "connect"
       /\ IF ChatFree(u, w.chat)
          THEN /\ preference' = [preference EXCEPT ![u] = [chat |-> w.chat, enabled |-> TRUE]]
               /\ connects' = [connects EXCEPT ![w.token] = @ + 1]
          ELSE UNCHANGED <<preference, connects>>
       /\ update' = [update EXCEPT ![h] = IdleUpdate]
       /\ UNCHANGED <<token, linkRequest, linkRequests>>

\* The process restarts between two steps; Telegram delivers the update again.
LoseUpdate(h) ==
    /\ update[h].pc # "idle"
    /\ update' = [update EXCEPT ![h] = IdleUpdate]
    /\ UNCHANGED <<preference, token, connects, linkRequest, linkRequests>>

ExpireToken(t) ==
    /\ Live(t)
    /\ token' = [token EXCEPT ![t].expired = TRUE]
    /\ UNCHANGED <<preference, connects, update, linkRequest, linkRequests>>

-----------------------------------------------------------------------------
(* Requests of a user; each is two statements. *)

StartLinkRequest(r, u, pc, view, enable) ==
    /\ linkRequest[r].pc = "idle"
    /\ linkRequests < MaxLinkRequests
    /\ linkRequests' = linkRequests + 1
    /\ linkRequest' = [linkRequest EXCEPT ![r] = [pc |-> pc, user |-> u, view |-> view, enable |-> enable]]

RetireTokens(u) == token' = [t \in DOMAIN token |-> [token[t] EXCEPT !.used = @ \/ token[t].user = u]]

\* createConnectionLink: the older links of the user end, then the new one is made.
RequestLink(r, u) ==
    /\ Len(token) < MaxTokens
    /\ StartLinkRequest(r, u, "create", NoPreference, FALSE)
    /\ RetireTokens(u)
    /\ UNCHANGED <<preference, connects, update>>

CreateToken(r) ==
    /\ linkRequest[r].pc = "create"
    /\ Len(token) < MaxTokens
    /\ token' = Append(token, [user |-> linkRequest[r].user, used |-> FALSE, expired |-> FALSE])
    /\ connects' = Append(connects, 0)
    /\ linkRequest' = [linkRequest EXCEPT ![r] = IdleLinkRequest]
    /\ UNCHANGED <<preference, update, linkRequests>>

\* disconnect: the chat first, the open links after it.
Disconnect(r, u) ==
    /\ StartLinkRequest(r, u, "retire", NoPreference, FALSE)
    /\ preference' = [preference EXCEPT ![u] = NoPreference]
    /\ UNCHANGED <<token, connects, update>>

RetireAfterDisconnect(r) ==
    /\ linkRequest[r].pc = "retire"
    /\ RetireTokens(linkRequest[r].user)
    /\ linkRequest' = [linkRequest EXCEPT ![r] = IdleLinkRequest]
    /\ UNCHANGED <<preference, connects, update, linkRequests>>

\* updateSettings reads the row, and refuses to enable a channel without a chat.
ReadSettings(r, u, enable) ==
    /\ enable => preference[u].chat # NoChat
    /\ StartLinkRequest(r, u, "write", preference[u], enable)
    /\ UNCHANGED <<preference, token, connects, update>>

\* The upsert writes the chat it has read.
WriteSettings(r) ==
    LET w == linkRequest[r] IN
    /\ w.pc = "write"
    /\ preference' = [preference EXCEPT ![w.user] =
           IF ChatFree(w.user, w.view.chat) THEN [chat |-> w.view.chat, enabled |-> w.enable] ELSE @]
    /\ linkRequest' = [linkRequest EXCEPT ![r] = IdleLinkRequest]
    /\ UNCHANGED <<token, connects, update, linkRequests>>

-----------------------------------------------------------------------------
LinkInit ==
    /\ preference = [u \in Users |-> NoPreference]
    /\ token = <<>> /\ connects = <<>>
    /\ update = [h \in Updates |-> IdleUpdate]
    /\ linkRequest = [r \in LinkRequests |-> IdleLinkRequest]
    /\ linkRequests = 0

LinkNext ==
    \/ \E h \in Updates :
           \/ \E t \in DOMAIN token, c \in Chats : ReceiveStart(h, t, c)
           \/ ClaimToken(h) \/ CheckOtherAccount(h) \/ ConnectChat(h) \/ LoseUpdate(h)
    \/ \E t \in DOMAIN token : ExpireToken(t)
    \/ \E r \in LinkRequests :
           \/ \E u \in Users : \/ RequestLink(r, u) \/ Disconnect(r, u)
                               \/ \E enable \in BOOLEAN : ReadSettings(r, u, enable)
           \/ CreateToken(r) \/ RetireAfterDisconnect(r) \/ WriteSettings(r)

LinkSpec == LinkInit /\ [][LinkNext]_linkVars

-----------------------------------------------------------------------------
\* A link connects one chat once, although Telegram repeats its message and two
\* calls of the webhook find the token unused; no chat receives the messages of
\* two accounts, and an enabled channel has a chat, whatever settings a request
\* restores that read them before the disconnection.
TelegramLinksSound ==
    /\ \A t \in DOMAIN connects : connects[t] <= 1
    /\ \A u, v \in Users : u # v /\ preference[u].chat # NoChat => preference[u].chat # preference[v].chat
    /\ \A u \in Users : preference[u].enabled => preference[u].chat # NoChat
-----------------------------------------------------------------------------
(* Types *)

PreferenceRows == [chat : Chats \cup {NoChat}, enabled : BOOLEAN]
TokenRows == [user : Users, used : BOOLEAN, expired : BOOLEAN]
UpdateStates ==
    [pc : {"idle", "claim", "check", "connect"}, token : Nat, chat : Chats \cup {NoChat}]
RequestStates ==
    [pc : {"idle", "create", "retire", "write"}, user : Users \cup {NoUser},
     view : PreferenceRows, enable : BOOLEAN]

LinkTypeOK ==
    /\ preference \in [Users -> PreferenceRows]
    /\ token \in Seq(TokenRows)
    /\ connects \in Seq(Nat) /\ Len(connects) = Len(token)
    /\ update \in [Updates -> UpdateStates]
    /\ linkRequest \in [LinkRequests -> RequestStates]
    /\ linkRequests \in Nat
=============================================================================
