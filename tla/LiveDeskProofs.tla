--------------------------- MODULE LiveDeskProofs ---------------------------
(***************************************************************************)
(* Proofs about the LIVE desk of a user, for any packages, requests, passes *)
(* and ceilings: overlapping requests never leave him two subscriptions to  *)
(* one package, no entry goes on under a ceiling he has not confirmed, and  *)
(* the ceiling covers every active package.  And about the catalogue of the *)
(* packages, for any templates, offers and administrators: what can be      *)
(* subscribed to can be paid for.                                           *)
(***************************************************************************)
EXTENDS LiveDesk, PackageCatalogue, FiniteSums, TLAPS

-----------------------------------------------------------------------------
(* Subscriptions.  What a request has seen of the profile plays no part, and  *)
(* so is left to any set S.                                                  *)

SubscriptionRows == [package : Packages \cup {NoPackage}, status : {"none", "ACTIVE", "CANCELLED"}]
RequestRows(S) ==
    [pc : RequestPcs, package : Packages \cup {NoPackage}, of : Bots \cup {NoBot},
     wanted : {"none", "RUNNING", "STOPPED"}, read : SUBSET Subscriptions,
     made : SUBSET Subscriptions, seen : S]

\* What a subscription under way has read: subscriptions that exist, to other packages
\* than its own, or that have ended.  They stay so, for no subscription starts twice.
ReadOthers(r) ==
    r.pc = "subscribing" =>
        /\ \A i \in r.read : /\ subscription[i].status # "none"
                             /\ Active(i) => subscription[i].package # r.package
        /\ \A i \in r.made \ r.read : subscription[i].status = "CANCELLED"

\* A subscription that was never made names no package.
PackageNamed == \A i \in Subscriptions : subscription[i].status = "none" => subscription[i] = NoSubscription

SubscriptionsInv ==
    /\ subscription \in [Subscriptions -> SubscriptionRows]
    /\ \E S : request \in [DeskRequests -> RequestRows(S)]
    /\ PackageNamed
    /\ \A q \in DeskRequests : ReadOthers(request[q])
    /\ OneActivePerPackage

LEMMA SubscriptionsInvInit == DeskInit => SubscriptionsInv
<1> SUFFICES ASSUME DeskInit PROVE SubscriptionsInv
  OBVIOUS
<1>1. NoDeskRequest \in RequestRows({NoProfile}) /\ NoDeskRequest.pc = "idle"
  BY DEF NoDeskRequest, RequestRows, RequestPcs
<1>2. \E S : request \in [DeskRequests -> RequestRows(S)]
  BY <1>1 DEF DeskInit
<1>3. \A q \in DeskRequests : ReadOthers(request[q])
  BY <1>1 DEF DeskInit, ReadOthers
<1>4. subscription \in [Subscriptions -> SubscriptionRows] /\ OneActivePerPackage
  BY DEF DeskInit, NoSubscription, SubscriptionRows, OneActivePerPackage, ActiveOnes, Active
<1>5. PackageNamed
  BY DEF DeskInit, PackageNamed
<1> QED BY <1>2, <1>3, <1>4, <1>5 DEF SubscriptionsInv

\* A request goes on or is answered while no subscription changes.
LEMMA RequestGoes ==
    ASSUME SubscriptionsInv, NEW q \in DeskRequests, NEW S, UNCHANGED subscription,
           request' = [request EXCEPT ![q] = request'[q]], request'[q] \in RequestRows(S),
           ReadOthers(request'[q])
    PROVE  SubscriptionsInv'
<1>1. PICK T : request \in [DeskRequests -> RequestRows(T)]
  BY DEF SubscriptionsInv
<1>2. \A p \in DeskRequests : p # q => request'[p] = request[p]
  BY <1>1
<1>3. RequestRows(S) \subseteq RequestRows(S \cup T) /\ RequestRows(T) \subseteq RequestRows(S \cup T)
  BY DEF RequestRows
<1>4. request' \in [DeskRequests -> RequestRows(S \cup T)]
  BY <1>1, <1>3
<1>5. \A p \in DeskRequests : ReadOthers(request[p])' 
  <2> SUFFICES ASSUME NEW p \in DeskRequests PROVE ReadOthers(request[p])'
    OBVIOUS
  <2>1. CASE p = q
    BY <2>1 DEF ReadOthers, Active
  <2>2. CASE p # q
    BY <1>2, <2>2 DEF SubscriptionsInv, ReadOthers, Active
  <2> QED BY <2>1, <2>2
<1> QED BY <1>4, <1>5 DEF SubscriptionsInv, OneActivePerPackage, PackageNamed, ActiveOnes, Active

LEMMA AnswerGoes ==
    ASSUME SubscriptionsInv, NEW q \in DeskRequests, UNCHANGED subscription, Answer(q)
    PROVE  SubscriptionsInv'
<1>1. request'[q] = NoDeskRequest
  BY DEF Answer, SubscriptionsInv
<1>2. request'[q] \in RequestRows({NoProfile}) /\ ReadOthers(request'[q])
  BY <1>1 DEF NoDeskRequest, RequestRows, RequestPcs, ReadOthers
<1>3. request' = [request EXCEPT ![q] = request'[q]]
  BY <1>1 DEF Answer
<1> QED BY <1>2, <1>3, RequestGoes

\* A request that only moves to another step, or notes the bot it is about.
LEMMA RequestSteps ==
    ASSUME SubscriptionsInv, NEW q \in DeskRequests, NEW pc \in RequestPcs \ {"subscribing"},
           NEW b \in Bots \cup {NoBot}, NEW s \in {"none", "RUNNING", "STOPPED"}, UNCHANGED subscription,
           request' = [request EXCEPT ![q] = [request[q] EXCEPT !.pc = pc, !.of = b, !.wanted = s]]
    PROVE  SubscriptionsInv'
<1>1. PICK T : request \in [DeskRequests -> RequestRows(T)]
  BY DEF SubscriptionsInv
<1>2. request'[q] = [request[q] EXCEPT !.pc = pc, !.of = b, !.wanted = s]
  BY <1>1
<1>3. request[q] \in RequestRows(T)
  BY <1>1
<1>4. request'[q] \in RequestRows(T) /\ request'[q].pc = pc
  <2> DEFINE moved == [request[q] EXCEPT !.pc = pc]
             noted == [moved EXCEPT !.of = b]
             asked == [noted EXCEPT !.wanted = s]
  <2>1. moved \in RequestRows(T) /\ moved.pc = pc
    BY <1>3 DEF RequestRows
  <2>2. noted \in RequestRows(T) /\ noted.pc = pc
    <3> HIDE DEF moved
    <3> QED BY <2>1 DEF RequestRows
  <2>3. asked \in RequestRows(T) /\ asked.pc = pc
    <3> HIDE DEF noted
    <3> QED BY <2>2 DEF RequestRows
  <2>4. request'[q] = asked
    BY <1>2
  <2> HIDE DEF asked
  <2> QED BY <2>3, <2>4
<1>5. ReadOthers(request'[q])
  BY <1>4 DEF ReadOthers
<1>6. request' = [request EXCEPT ![q] = request'[q]]
  BY <1>2
<1> QED BY <1>4, <1>5, <1>6, RequestGoes

\* A subscription that was made and is not active has ended: no row is made that is not
\* active, and status and package are written together.
LEMMA MadeHasStatus ==
    ASSUME SubscriptionsInv, NEW i \in MadeOnes
    PROVE  subscription[i].status \in {"ACTIVE", "CANCELLED"}
BY DEF SubscriptionsInv, SubscriptionRows, MadeOnes, NoSubscription, PackageNamed

LEMMA SubscribeReadKeeps ==
    ASSUME SubscriptionsInv, NEW q \in DeskRequests, NEW p \in Packages, SubscribeRead(q, p)
    PROVE  SubscriptionsInv'
<1>1. /\ request'[q] = [NoDeskRequest EXCEPT !.pc = "subscribing", !.package = p,
                                             !.read = ActiveOnes, !.made = MadeOnes, !.seen = profile]
      /\ UNCHANGED subscription /\ \A i \in ActiveOnes : subscription[i].package # p
  BY DEF SubscribeRead, SubscriptionsInv
<1>2. NoDeskRequest \in RequestRows({NoProfile})
  BY DEF NoDeskRequest, RequestRows, RequestPcs
<1>3. ActiveOnes \subseteq Subscriptions /\ MadeOnes \subseteq Subscriptions
  BY DEF ActiveOnes, MadeOnes
<1>4. request'[q] \in RequestRows({profile})
  BY <1>1, <1>2, <1>3 DEF RequestRows, RequestPcs
<1>5. request'[q].package = p /\ request'[q].read = ActiveOnes /\ request'[q].made = MadeOnes
  BY <1>1, <1>2 DEF RequestRows
<1>6. ReadOthers(request'[q])
  <2>1. \A i \in MadeOnes \ ActiveOnes : subscription[i].status = "CANCELLED"
    BY MadeHasStatus DEF ActiveOnes, MadeOnes, Active
  <2> QED BY <1>1, <1>5, <2>1 DEF ReadOthers, ActiveOnes, Active
<1>7. request' = [request EXCEPT ![q] = request'[q]]
  BY <1>1 DEF SubscribeRead
<1> QED BY <1>1, <1>4, <1>6, <1>7, RequestGoes

\* The commit: the isolation level lets only the active subscriptions exist that the
\* request has read, and none of them is to its package.
LEMMA SubscribeCommitKeeps ==
    ASSUME SubscriptionsInv, NEW q \in DeskRequests, SubscribeCommit(q)
    PROVE  SubscriptionsInv'
<1>1. PICK i \in Subscriptions :
          /\ subscription[i] = NoSubscription
          /\ subscription' = [subscription EXCEPT ![i] = [package |-> request[q].package,
                                                          status |-> "ACTIVE"]]
  BY DEF SubscribeCommit
<1>2. PICK T : request \in [DeskRequests -> RequestRows(T)]
  BY DEF SubscriptionsInv
<1>3. /\ request[q].pc = "subscribing" /\ request[q].package \in Packages \cup {NoPackage}
      /\ request[q].read \subseteq Subscriptions /\ request[q].made = MadeOnes
  BY <1>2 DEF SubscribeCommit, Serializable, RequestAt, RequestRows
<1>c. ActiveOnes \subseteq request[q].read
  BY <1>3 DEF SubscriptionsInv, ReadOthers, ActiveOnes, Active, MadeOnes, NoSubscription
<1>4. \A j \in ActiveOnes : subscription[j].package # request[q].package
  BY <1>3, <1>c DEF SubscriptionsInv, ReadOthers, ActiveOnes
<1>5. /\ subscription' \in [Subscriptions -> SubscriptionRows]
      /\ subscription'[i] = [package |-> request[q].package, status |-> "ACTIVE"]
      /\ \A j \in Subscriptions : j # i => subscription'[j] = subscription[j]
  BY <1>1, <1>3 DEF SubscriptionsInv, SubscriptionRows
<1>6. OneActivePerPackage'
  BY <1>4, <1>5 DEF SubscriptionsInv, OneActivePerPackage, ActiveOnes, Active
<1>7. /\ request' = [request EXCEPT ![q] = NoDeskRequest]
      /\ NoDeskRequest \in RequestRows({NoProfile}) /\ NoDeskRequest.pc = "idle"
  BY DEF SubscribeCommit, Answer, NoDeskRequest, RequestRows, RequestPcs
<1>8. request' \in [DeskRequests -> RequestRows(T \cup {NoProfile})]
  <2>1. /\ RequestRows(T) \subseteq RequestRows(T \cup {NoProfile})
        /\ RequestRows({NoProfile}) \subseteq RequestRows(T \cup {NoProfile})
    BY DEF RequestRows
  <2> QED BY <1>2, <1>7, <2>1
<1>9. \A p \in DeskRequests : ReadOthers(request[p])'
  <2> SUFFICES ASSUME NEW p \in DeskRequests, request'[p].pc = "subscribing"
               PROVE  /\ \A j \in request'[p].read :
                             /\ subscription'[j].status # "none"
                             /\ Active(j)' => subscription'[j].package # request'[p].package
                      /\ \A j \in request'[p].made \ request'[p].read : subscription'[j].status = "CANCELLED"
    BY DEF ReadOthers
  <2>1. p # q /\ request'[p] = request[p]
    BY <1>2, <1>7
  <2>2. /\ request[p].read \subseteq Subscriptions /\ request[p].made \subseteq Subscriptions
        /\ ReadOthers(request[p]) /\ request[p].pc = "subscribing"
    BY <1>2, <2>1 DEF SubscriptionsInv, RequestRows
  <2>3. i \notin request[p].read /\ i \notin request[p].made \ request[p].read
    BY <1>1, <2>2 DEF NoSubscription, ReadOthers
  <2> QED BY <1>5, <2>1, <2>2, <2>3 DEF ReadOthers, Active
<1>10. PackageNamed'
  BY <1>5 DEF SubscriptionsInv, PackageNamed
<1> QED BY <1>5, <1>6, <1>8, <1>9, <1>10 DEF SubscriptionsInv

LEMMA CancelCommitKeeps ==
    ASSUME SubscriptionsInv, NEW q \in DeskRequests, CancelCommit(q)
    PROVE  SubscriptionsInv'
<1> DEFINE i == request[q].of
<1>1. subscription' = [subscription EXCEPT ![i].status = "CANCELLED"]
  BY DEF CancelCommit
<1>2. PICK T : request \in [DeskRequests -> RequestRows(T)]
  BY DEF SubscriptionsInv
<1>3. /\ subscription' \in [Subscriptions -> SubscriptionRows]
      /\ \A j \in Subscriptions :
             /\ subscription'[j].package = subscription[j].package
             /\ subscription'[j].status \in {subscription[j].status, "CANCELLED"}
  BY <1>1 DEF SubscriptionsInv, SubscriptionRows
<1>4. /\ request' = [request EXCEPT ![q] = NoDeskRequest]
      /\ NoDeskRequest \in RequestRows({NoProfile}) /\ NoDeskRequest.pc = "idle"
  BY DEF CancelCommit, Answer, NoDeskRequest, RequestRows, RequestPcs
<1>5. request' \in [DeskRequests -> RequestRows(T \cup {NoProfile})]
  <2>1. /\ RequestRows(T) \subseteq RequestRows(T \cup {NoProfile})
        /\ RequestRows({NoProfile}) \subseteq RequestRows(T \cup {NoProfile})
    BY DEF RequestRows
  <2> QED BY <1>2, <1>4, <2>1
<1>6. \A p \in DeskRequests : ReadOthers(request[p])'
  <2> SUFFICES ASSUME NEW p \in DeskRequests, request'[p].pc = "subscribing"
               PROVE  /\ \A j \in request'[p].read :
                             /\ subscription'[j].status # "none"
                             /\ Active(j)' => subscription'[j].package # request'[p].package
                      /\ \A j \in request'[p].made \ request'[p].read : subscription'[j].status = "CANCELLED"
    BY DEF ReadOthers
  <2>1. p # q /\ request'[p] = request[p]
    BY <1>2, <1>4
  <2>2. /\ request[p].read \subseteq Subscriptions /\ request[p].made \subseteq Subscriptions
        /\ ReadOthers(request[p]) /\ request[p].pc = "subscribing"
    BY <1>2, <2>1 DEF SubscriptionsInv, RequestRows
  <2> QED BY <1>3, <2>1, <2>2 DEF ReadOthers, Active
<1>8. PackageNamed'
  <2>1. \A j \in Subscriptions : subscription'[j] # subscription[j] => subscription'[j].status = "CANCELLED"
    BY <1>1 DEF SubscriptionsInv, SubscriptionRows
  <2> QED BY <2>1 DEF SubscriptionsInv, PackageNamed
<1>7. OneActivePerPackage'
  BY <1>3 DEF SubscriptionsInv, OneActivePerPackage, ActiveOnes, Active
<1> QED BY <1>3, <1>5, <1>6, <1>7, <1>8 DEF SubscriptionsInv

\* The other steps of a request.
LEMMA RequestStepKeeps ==
    ASSUME SubscriptionsInv, NEW q \in DeskRequests, RequestStep(q)
    PROVE  SubscriptionsInv'
<1>0. PICK T : request \in [DeskRequests -> RequestRows(T)]
  BY DEF SubscriptionsInv
<1> DEFINE r == request[q]
<1>1. /\ r \in RequestRows(T) /\ r.of \in Bots \cup {NoBot} /\ r.wanted \in {"none", "RUNNING", "STOPPED"}
      /\ r = [r EXCEPT !.of = r.of, !.wanted = r.wanted]
  BY <1>0 DEF RequestRows
<1>2. CASE ConfirmRead(q)
  <2>0. [r EXCEPT !.pc = "confirming"] = [r EXCEPT !.pc = "confirming", !.of = r.of, !.wanted = r.wanted]
    BY <1>1 DEF RequestRows
  <2>1. request' = [request EXCEPT ![q] = [r EXCEPT !.pc = "confirming", !.of = r.of, !.wanted = r.wanted]]
    BY <1>0, <1>2, <2>0 DEF ConfirmRead
  <2>2. UNCHANGED subscription /\ "confirming" \in RequestPcs \ {"subscribing"}
    BY <1>2 DEF ConfirmRead, RequestPcs
  <2> QED BY <1>1, <2>1, <2>2, RequestSteps
<1>3. ASSUME NEW i \in Subscriptions, SetBotStatusRead(q, i)
      PROVE  SubscriptionsInv'
  <2>1. PICK s \in {"RUNNING", "STOPPED"} :
            request' = [request EXCEPT ![q].pc = "setting", ![q].of = i, ![q].wanted = s]
    BY <1>3 DEF SetBotStatusRead
  <2>2. request' = [request EXCEPT ![q] = [r EXCEPT !.pc = "setting", !.of = i, !.wanted = s]]
    BY <1>0, <2>1
  <2>3. /\ UNCHANGED subscription /\ "setting" \in RequestPcs \ {"subscribing"}
        /\ i \in Bots /\ s \in {"none", "RUNNING", "STOPPED"}
    BY <1>3 DEF SetBotStatusRead, RequestPcs, Bots
  <2> QED BY <2>2, <2>3, RequestSteps
<1>4. ASSUME NEW i \in Subscriptions, CancelRead(q, i)
      PROVE  SubscriptionsInv'
  <2>1. request' = [request EXCEPT ![q] = [r EXCEPT !.pc = "counting", !.of = i, !.wanted = r.wanted]]
    <3>1. request' = [request EXCEPT ![q] = [r EXCEPT !.pc = "counting", !.of = i]]
      BY <1>0, <1>4 DEF CancelRead
    <3>2. [r EXCEPT !.pc = "counting", !.of = i] = [r EXCEPT !.pc = "counting", !.of = i, !.wanted = r.wanted]
      BY <1>1 DEF RequestRows
    <3> QED BY <3>1, <3>2
  <2>2. UNCHANGED subscription /\ "counting" \in RequestPcs \ {"subscribing"} /\ i \in Bots
    BY <1>4 DEF CancelRead, RequestPcs, Bots
  <2> QED BY <1>1, <2>1, <2>2, RequestSteps
<1>5. CASE CancelCount(q)
  <2>1. UNCHANGED subscription /\ "cancelling" \in RequestPcs \ {"subscribing"}
    BY <1>5 DEF CancelCount, RequestPcs
  <2>2. CASE Answer(q)
    BY <2>1, <2>2, AnswerGoes
  <2>3. CASE request' = [request EXCEPT ![q].pc = "cancelling"]
    <3>0. [r EXCEPT !.pc = "cancelling"] = [r EXCEPT !.pc = "cancelling", !.of = r.of, !.wanted = r.wanted]
      BY <1>1 DEF RequestRows
    <3>1. request' = [request EXCEPT ![q] = [r EXCEPT !.pc = "cancelling", !.of = r.of, !.wanted = r.wanted]]
      BY <1>0, <2>3, <3>0
    <3> QED BY <1>1, <2>1, <3>1, RequestSteps
  <2> QED BY <1>5, <2>2, <2>3 DEF CancelCount
<1>6. CASE ConfirmWrite(q) \/ SetBotStatusWrite(q) \/ RequestFails(q)
  BY <1>6, AnswerGoes DEF ConfirmWrite, SetBotStatusWrite, RequestFails
<1> QED BY <1>2, <1>3, <1>4, <1>5, <1>6, SubscribeReadKeeps, SubscribeCommitKeeps, CancelCommitKeeps
     DEF RequestStep

LEMMA SubscriptionsInvNext == SubscriptionsInv /\ [DeskNext]_deskVars => SubscriptionsInv'
<1> SUFFICES ASSUME SubscriptionsInv, [DeskNext]_deskVars PROVE SubscriptionsInv'
  OBVIOUS
<1>1. CASE UNCHANGED <<subscription, request>>
  BY <1>1 DEF SubscriptionsInv, PackageNamed, ReadOthers, OneActivePerPackage, ActiveOnes, Active
<1>2. ASSUME NEW q \in DeskRequests, ExitPause(q)
      PROVE  SubscriptionsInv'
  <2>0. PICK T : request \in [DeskRequests -> RequestRows(T)]
    BY DEF SubscriptionsInv
  <2> DEFINE r == request[q]
  <2>1. /\ r \in RequestRows(T) /\ r.of \in Bots \cup {NoBot} /\ r.wanted \in {"none", "RUNNING", "STOPPED"}
    BY <2>0 DEF RequestRows
  <2>2. request' = [request EXCEPT ![q] = [r EXCEPT !.pc = "exiting", !.of = r.of, !.wanted = r.wanted]]
    BY <1>2, <2>0, <2>1 DEF ExitPause, RequestRows
  <2>3. UNCHANGED subscription /\ "exiting" \in RequestPcs \ {"subscribing"}
    BY <1>2 DEF ExitPause, RequestPcs
  <2> QED BY <2>1, <2>2, <2>3, RequestSteps
<1>3. ASSUME NEW q \in DeskRequests, ExitStop(q) \/ ExitAborts(q)
      PROVE  SubscriptionsInv'
  BY <1>3, AnswerGoes DEF ExitStop, ExitAborts, service
<1>4. CASE ExitStep
  BY <1>1, <1>2, <1>3, <1>4 DEF ExitStep, ExitListOrders, ExitListPositions, ExitCancel, ExitClose, service
<1>5. ASSUME NEW e \in Passes, PassStep(e)
      PROVE  UNCHANGED <<subscription, request>>
  BY <1>5 DEF PassStep, StartPass, WantEntry, PassBy, TakeProfit, ReadProfile, ReadPositions, ReadPending,
              Admit, RefuseEntry, Begin, PlaceEntry, EntryFails, service
<1>6. CASE SetCapitalCeiling
  BY <1>1, <1>6 DEF SetCapitalCeiling
<1>7. CASE \/ \E b \in OwnBots : SetOwnStatus(b)
           \/ \E b \in Bots : SyncResting(b)
           \/ UNCHANGED deskVars
  BY <1>1, <1>7 DEF SetOwnStatus, SyncResting, deskVars
<1> QED BY <1>1, <1>4, <1>5, <1>6, <1>7, RequestStepKeeps DEF DeskNext

\* For any packages and any number of overlapping requests that subscribe and cancel:
\* a user has one active subscription to a package at most (PackagesService.subscribe,
\* a serializable transaction).
THEOREM OneActive == DeskSpec => []OneActivePerPackage
<1>1. SubscriptionsInv => OneActivePerPackage
  BY DEF SubscriptionsInv
<1> QED BY <1>1, SubscriptionsInvInit, SubscriptionsInvNext, PTL DEF DeskSpec

-----------------------------------------------------------------------------
(* Ceilings.  How large they and the exposures are plays no part.            *)

ProfileRows(S) == [ceiling : S, confirmed : BOOLEAN, own : BOOLEAN, agreed : SUBSET S]
PassRows(S) ==
    [pc : PassPcs, todo : SUBSET Bots, bot : Bots \cup {NoBot}, ceiling : S, open : S, pending : S]
EntryGoesOn(r) == r.pc \in {"exposure", "begin", "placing"}

CeilingInv ==
    /\ \E S : profile \in ProfileRows(S)
    /\ \E S : desk \in [Passes -> PassRows(S)]
    /\ profile.confirmed => profile.ceiling \in profile.agreed
    /\ \A e \in Passes : EntryGoesOn(desk[e]) => desk[e].ceiling \in profile.agreed

LEMMA AtRestRow == AtRest \in PassRows({0, -1}) /\ ~EntryGoesOn(AtRest)
BY DEF AtRest, PassRows, PassPcs, EntryGoesOn

LEMMA CeilingInvInit == DeskInit => CeilingInv
<1> SUFFICES ASSUME DeskInit PROVE CeilingInv
  OBVIOUS
<1>1. profile \in ProfileRows({0}) /\ ~profile.confirmed
  BY DEF DeskInit, NoProfile, ProfileRows
<1>2. desk \in [Passes -> PassRows({0, -1})] /\ \A e \in Passes : ~EntryGoesOn(desk[e])
  BY AtRestRow DEF DeskInit
<1> QED BY <1>1, <1>2 DEF CeilingInv

\* The profile changes: what was agreed stays agreed, and a ceiling that counts as
\* confirmed is one of them.
LEMMA ProfileChanges ==
    ASSUME CeilingInv, NEW S, UNCHANGED desk, profile' \in ProfileRows(S),
           profile.agreed \subseteq profile'.agreed,
           profile'.confirmed => profile'.ceiling \in profile'.agreed
    PROVE  CeilingInv'
BY DEF CeilingInv

LEMMA NewCeilingKeeps ==
    ASSUME CeilingInv, NEW c, NEW mine \in BOOLEAN, UNCHANGED desk, NewCeiling(c, mine)
    PROVE  CeilingInv'
<1>1. PICK S : profile \in ProfileRows(S)
  BY DEF CeilingInv
<1>2. profile' = [profile EXCEPT !.ceiling = c, !.own = mine, !.confirmed = FALSE]
  BY DEF NewCeiling
<1>3. profile' \in ProfileRows(S \cup {c}) /\ profile'.agreed = profile.agreed /\ ~profile'.confirmed
  BY <1>1, <1>2 DEF ProfileRows
<1> QED BY <1>3, ProfileChanges

LEMMA ConfirmWriteKeeps ==
    ASSUME CeilingInv, NEW q \in DeskRequests, ConfirmWrite(q)
    PROVE  CeilingInv'
<1>1. PICK S : profile \in ProfileRows(S)
  BY DEF CeilingInv
<1>2. /\ profile' = [profile EXCEPT !.confirmed = TRUE, !.agreed = profile.agreed \cup {profile.ceiling}]
      /\ UNCHANGED desk
  BY DEF ConfirmWrite
<1>3. /\ profile' \in ProfileRows(S) /\ profile'.ceiling = profile.ceiling
      /\ profile'.agreed = profile.agreed \cup {profile.ceiling}
  BY <1>1, <1>2 DEF ProfileRows
<1> QED BY <1>2, <1>3, ProfileChanges

\* A pass goes on: what it holds of the ceiling is what it held or what it reads now.
LEMMA PassChanges ==
    ASSUME CeilingInv, NEW e \in Passes, NEW S, UNCHANGED profile,
           desk' = [desk EXCEPT ![e] = desk'[e]], desk'[e] \in PassRows(S),
           EntryGoesOn(desk'[e]) => desk'[e].ceiling \in profile.agreed
    PROVE  CeilingInv'
<1>1. PICK T : desk \in [Passes -> PassRows(T)]
  BY DEF CeilingInv
<1>2. PassRows(S) \subseteq PassRows(S \cup T) /\ PassRows(T) \subseteq PassRows(S \cup T)
  BY DEF PassRows
<1>3. desk' \in [Passes -> PassRows(S \cup T)]
  BY <1>1, <1>2
<1>4. \A d \in Passes : EntryGoesOn(desk'[d]) => desk'[d].ceiling \in profile.agreed
  <2> SUFFICES ASSUME NEW d \in Passes, d # e
               PROVE  EntryGoesOn(desk'[d]) => desk'[d].ceiling \in profile.agreed
    OBVIOUS
  <2>1. desk'[d] = desk[d]
    BY <1>1
  <2> QED BY <2>1 DEF CeilingInv
<1> QED BY <1>3, <1>4 DEF CeilingInv, EntryGoesOn

\* A pass looks for its next bot, with nothing read.
LEMMA PassWalks ==
    ASSUME CeilingInv, NEW e \in Passes, NEW pc \in {"idle", "walking"}, NEW todo \in SUBSET Bots,
           UNCHANGED profile, desk' = [desk EXCEPT ![e] = [AtRest EXCEPT !.pc = pc, !.todo = todo]]
    PROVE  CeilingInv'
<1>1. desk'[e] = [AtRest EXCEPT !.pc = pc, !.todo = todo]
  BY DEF CeilingInv
<1>2. PICK S : AtRest \in PassRows(S)
  BY AtRestRow
<1>3. desk'[e] \in PassRows(S) /\ desk'[e].pc = pc
  <2> DEFINE moved == [AtRest EXCEPT !.pc = pc]
  <2>1. moved \in PassRows(S) /\ moved.pc = pc
    BY <1>2 DEF PassRows, PassPcs
  <2>2. desk'[e] = [moved EXCEPT !.todo = todo]
    BY <1>1
  <2> HIDE DEF moved
  <2>3. [moved EXCEPT !.todo = todo] \in PassRows(S) /\ [moved EXCEPT !.todo = todo].pc = pc
    BY <2>1 DEF PassRows
  <2> QED BY <2>2, <2>3
<1>4. ~EntryGoesOn(desk'[e])
  BY <1>3 DEF EntryGoesOn
<1>5. desk' = [desk EXCEPT ![e] = desk'[e]]
  BY <1>1
<1> QED BY <1>3, <1>4, <1>5, PassChanges

LEMMA NextBotKeeps ==
    ASSUME CeilingInv, NEW e \in Passes, UNCHANGED profile, NextBot(e)
    PROVE  CeilingInv'
<1>1. desk[e].todo \in SUBSET Bots
  BY DEF CeilingInv, PassRows
<1> DEFINE pc == IF desk[e].todo = {} THEN "idle" ELSE "walking"
<1>2. pc \in {"idle", "walking"}
  OBVIOUS
<1>3. desk' = [desk EXCEPT ![e] = [AtRest EXCEPT !.pc = pc, !.todo = desk[e].todo]]
  BY DEF NextBot
<1> HIDE DEF pc
<1> QED BY <1>1, <1>2, <1>3, PassWalks

\* A pass moves on with what it holds.
LEMMA PassMoves ==
    ASSUME CeilingInv, NEW e \in Passes, NEW pc \in PassPcs, NEW todo \in SUBSET Bots,
           NEW b \in Bots \cup {NoBot}, UNCHANGED profile,
           desk' = [desk EXCEPT ![e] = [desk[e] EXCEPT !.pc = pc, !.bot = b, !.todo = todo]],
           pc \in {"exposure", "begin", "placing"} => EntryGoesOn(desk[e])
    PROVE  CeilingInv'
<1>1. PICK T : desk \in [Passes -> PassRows(T)]
  BY DEF CeilingInv
<1>2. desk'[e] = [desk[e] EXCEPT !.pc = pc, !.bot = b, !.todo = todo]
  BY <1>1
<1>3. desk[e] \in PassRows(T)
  BY <1>1
<1>4. desk'[e] \in PassRows(T) /\ desk'[e].pc = pc /\ desk'[e].ceiling = desk[e].ceiling
  <2> DEFINE moved == [desk[e] EXCEPT !.pc = pc]
             turned == [moved EXCEPT !.bot = b]
             walked == [turned EXCEPT !.todo = todo]
  <2>1. moved \in PassRows(T) /\ moved.pc = pc /\ moved.ceiling = desk[e].ceiling
    BY <1>3 DEF PassRows
  <2>2. turned \in PassRows(T) /\ turned.pc = pc /\ turned.ceiling = desk[e].ceiling
    <3> HIDE DEF moved
    <3> QED BY <2>1 DEF PassRows
  <2>3. walked \in PassRows(T) /\ walked.pc = pc /\ walked.ceiling = desk[e].ceiling
    <3> HIDE DEF turned
    <3> QED BY <2>2 DEF PassRows
  <2>4. desk'[e] = walked
    BY <1>2
  <2> HIDE DEF walked
  <2> QED BY <2>3, <2>4
<1>5. desk' = [desk EXCEPT ![e] = desk'[e]]
  BY <1>2
<1>6. EntryGoesOn(desk'[e]) => desk'[e].ceiling \in profile.agreed
  BY <1>4 DEF EntryGoesOn, CeilingInv
<1> QED BY <1>4, <1>5, <1>6, PassChanges

LEMMA PassStepKeeps ==
    ASSUME CeilingInv, NEW e \in Passes, PassStep(e)
    PROVE  CeilingInv'
<1>0. PICK T : desk \in [Passes -> PassRows(T)]
  BY DEF CeilingInv
<1> DEFINE r == desk[e]
<1>1. /\ r \in PassRows(T) /\ r.todo \in SUBSET Bots /\ r.bot \in Bots \cup {NoBot} /\ r.pc \in PassPcs
      /\ r = [r EXCEPT !.bot = r.bot] /\ r = [r EXCEPT !.todo = r.todo]
  BY <1>0 DEF PassRows
<1>2. CASE StartPass(e)
  <2> DEFINE running == {b \in Bots : bot[b] = "RUNNING"}
  <2>1. running \in SUBSET Bots /\ UNCHANGED profile
    BY <1>2 DEF StartPass, service
  <2>2. desk' = [desk EXCEPT ![e] = [AtRest EXCEPT !.pc = "walking", !.todo = running]]
    BY <1>2 DEF StartPass
  <2> HIDE DEF running
  <2> QED BY <2>1, <2>2, PassWalks
<1>3. ASSUME NEW b \in Bots, WantEntry(e, b)
      PROVE  CeilingInv'
  <2>1. desk' = [desk EXCEPT ![e] = [r EXCEPT !.pc = "profile", !.bot = b, !.todo = r.todo \ {b}]]
    BY <1>0, <1>3 DEF WantEntry
  <2>2. UNCHANGED profile /\ "profile" \in PassPcs /\ r.todo \ {b} \in SUBSET Bots
    BY <1>1, <1>3 DEF WantEntry, service, PassPcs
  <2> QED BY <2>1, <2>2, PassMoves
<1>4. ASSUME NEW b \in Bots, PassBy(e, b) \/ TakeProfit(e, b)
      PROVE  CeilingInv'
  <2> DEFINE pc == IF r.todo = {b} THEN "idle" ELSE "walking"
  <2>1. desk' = [desk EXCEPT ![e] = [r EXCEPT !.todo = r.todo \ {b}, !.pc = pc]]
    BY <1>0, <1>4 DEF PassBy, TakeProfit
  <2>2. UNCHANGED profile /\ pc \in PassPcs /\ pc \in {"idle", "walking"} /\ r.todo \ {b} \in SUBSET Bots
    BY <1>1, <1>4 DEF PassBy, TakeProfit, service, PassPcs
  <2> HIDE DEF pc
  <2>3. [r EXCEPT !.todo = r.todo \ {b}, !.pc = pc] = [r EXCEPT !.pc = pc, !.bot = r.bot, !.todo = r.todo \ {b}]
    BY <1>1 DEF PassRows
  <2>4. desk' = [desk EXCEPT ![e] = [r EXCEPT !.pc = pc, !.bot = r.bot, !.todo = r.todo \ {b}]]
    BY <2>1, <2>3
  <2>5. pc \notin {"exposure", "begin", "placing"}
    BY <2>2
  <2> QED BY <1>1, <2>2, <2>4, <2>5, PassMoves
<1>5. CASE ReadProfile(e)
  <2>1. UNCHANGED profile
    BY <1>5 DEF ReadProfile, service
  <2>2. CASE ~(profile.ceiling > 0 /\ profile.confirmed)
    BY <1>5, <2>1, <2>2, NextBotKeeps DEF ReadProfile
  <2>3. CASE profile.ceiling > 0 /\ profile.confirmed
    <3>1. desk'[e] = [r EXCEPT !.pc = "exposure", !.ceiling = profile.ceiling]
      BY <1>0, <1>5, <2>3 DEF ReadProfile
    <3>2. desk'[e] \in PassRows(T \cup {profile.ceiling}) /\ desk'[e].ceiling = profile.ceiling
      BY <1>1, <3>1 DEF PassRows, PassPcs
    <3>3. desk' = [desk EXCEPT ![e] = desk'[e]]
      BY <1>0, <1>5, <2>3, <3>1 DEF ReadProfile
    <3>4. profile.ceiling \in profile.agreed
      BY <2>3 DEF CeilingInv
    <3> QED BY <2>1, <3>2, <3>3, <3>4, PassChanges
  <2> QED BY <2>2, <2>3
<1>6. CASE ReadPositions(e)
  <2>1. desk'[e] = [r EXCEPT !.open = CostOf(Bots)] /\ UNCHANGED profile
    BY <1>0, <1>6 DEF ReadPositions, service
  <2>2. desk'[e] \in PassRows(T \cup {CostOf(Bots)}) /\ desk'[e].ceiling = r.ceiling /\ desk'[e].pc = r.pc
    BY <1>1, <2>1 DEF PassRows
  <2>3. desk' = [desk EXCEPT ![e] = desk'[e]]
    BY <1>0, <1>6, <2>1 DEF ReadPositions
  <2> QED BY <2>1, <2>2, <2>3, PassChanges DEF CeilingInv, EntryGoesOn
<1>7. CASE ReadPending(e)
  <2>1. desk'[e] = [r EXCEPT !.pending = RestingOf(Bots)] /\ UNCHANGED profile
    BY <1>0, <1>7 DEF ReadPending, service
  <2>2. desk'[e] \in PassRows(T \cup {RestingOf(Bots)}) /\ desk'[e].ceiling = r.ceiling /\ desk'[e].pc = r.pc
    BY <1>1, <2>1 DEF PassRows
  <2>3. desk' = [desk EXCEPT ![e] = desk'[e]]
    BY <1>0, <1>7, <2>1 DEF ReadPending
  <2> QED BY <2>1, <2>2, <2>3, PassChanges DEF CeilingInv, EntryGoesOn
<1>8. ASSUME NEW pc \in {"begin", "placing"}, PassGoes(e, pc), UNCHANGED profile, EntryGoesOn(r)
      PROVE  CeilingInv'
  <2>1. desk'[e] = [r EXCEPT !.pc = pc]
    BY <1>0, <1>8 DEF PassGoes
  <2>2. desk'[e] \in PassRows(T) /\ desk'[e].ceiling = r.ceiling
    BY <1>1, <2>1 DEF PassRows, PassPcs
  <2>3. desk' = [desk EXCEPT ![e] = desk'[e]]
    BY <1>0, <1>8, <2>1 DEF PassGoes
  <2> QED BY <1>8, <2>2, <2>3, PassChanges DEF CeilingInv
<1>9. CASE Admit(e)
  BY <1>8, <1>9 DEF Admit, PassAt, EntryGoesOn, service
<1>10. CASE Begin(e)
  BY <1>8, <1>10, NextBotKeeps DEF Begin, PassAt, EntryGoesOn, service
<1>11. CASE RefuseEntry(e) \/ PlaceEntry(e) \/ EntryFails(e)
  BY <1>11, NextBotKeeps DEF RefuseEntry, PlaceEntry, EntryFails, service
<1> QED BY <1>2, <1>3, <1>4, <1>5, <1>6, <1>7, <1>9, <1>10, <1>11 DEF PassStep

LEMMA CeilingInvNext == CeilingInv /\ [DeskNext]_deskVars => CeilingInv'
<1> SUFFICES ASSUME CeilingInv, [DeskNext]_deskVars PROVE CeilingInv'
  OBVIOUS
<1>1. CASE UNCHANGED <<profile, desk>>
  BY <1>1 DEF CeilingInv, EntryGoesOn
<1>2. CASE SetCapitalCeiling
  BY <1>2, NewCeilingKeeps DEF SetCapitalCeiling
<1>3. ASSUME NEW q \in DeskRequests, SubscribeCommit(q)
      PROVE  CeilingInv'
  BY <1>1, <1>3, NewCeilingKeeps DEF SubscribeCommit
<1>4. ASSUME NEW q \in DeskRequests, RequestStep(q)
      PROVE  CeilingInv'
  BY <1>1, <1>3, <1>4, ConfirmWriteKeeps
     DEF RequestStep, ConfirmRead, SubscribeRead, SetBotStatusRead, CancelRead, SetBotStatusWrite,
         CancelCount, CancelCommit, RequestFails
<1>5. CASE ExitStep
  BY <1>1, <1>5 DEF ExitStep, ExitPause, ExitStop, ExitAborts, ExitListOrders, ExitListPositions,
                    ExitCancel, ExitClose, service
<1>6. CASE \/ \E b \in OwnBots : SetOwnStatus(b)
           \/ \E b \in Bots : SyncResting(b)
           \/ UNCHANGED deskVars
  BY <1>1, <1>6 DEF SetOwnStatus, SyncResting, deskVars
<1> QED BY <1>2, <1>4, <1>5, <1>6, PassStepKeeps DEF DeskNext

\* For any ceilings, packages and passes: an entry only goes on under a ceiling the user
\* has confirmed, although packages raise it while entries are checked
\* (LiveTradingSafetyService, LiveStrategyRiskService.assertCanExecute).
THEOREM EntriesConfirmed == DeskSpec => []EntriesUnderConfirmedCeiling
<1>1. CeilingInv => EntriesUnderConfirmedCeiling
  BY DEF CeilingInv, EntryGoesOn, EntriesUnderConfirmedCeiling
<1> QED BY <1>1, CeilingInvInit, CeilingInvNext, PTL DEF DeskSpec

-----------------------------------------------------------------------------
(* The ceiling covers the active packages.                                   *)

AmountsOf(s, S) == [i \in S |-> PackageAmount[s[i].package]]

AmountFor(s, S) == MapThenSumSet(LAMBDA i : PackageAmount[s[i].package], S)

\* What packages need together is a sum of FiniteSums.
LEMMA AmountIsSum ==
    ASSUME NEW s, NEW S, IsFiniteSet(S)
    PROVE  AmountFor(s, S) = SumOf(AmountsOf(s, S), S)
<1> DEFINE Eq(g) == g = [t \in SUBSET S |-> IF t = {} THEN 0
                                            ELSE PackageAmount[s[First(t)].package] + g[t \ {First(t)}]]
           total == AmountFor(s, S)
<1>1. total = (CHOOSE g : Eq(g))[S]
  BY DEF AmountFor, MapThenSumSet, MapThenFoldSet, First
<1>2. ASSUME NEW g PROVE Eq(g) <=> IsSum(g, AmountsOf(s, S), S)
  <2>1. \A t \in SUBSET S : t # {} => AmountsOf(s, S)[First(t)] = PackageAmount[s[First(t)].package]
    BY FirstIsTaken DEF AmountsOf
  <2>2. [t \in SUBSET S |-> IF t = {} THEN 0 ELSE PackageAmount[s[First(t)].package] + g[t \ {First(t)}]]
       = [t \in SUBSET S |-> IF t = {} THEN 0 ELSE AmountsOf(s, S)[First(t)] + g[t \ {First(t)}]]
    BY <2>1
  <2> QED BY <2>2 DEF IsSum
<1>3. PICK g : Eq(g) /\ total = g[S]
  <2>1. \E g : Eq(g)
    BY <1>2, SumExists
  <2> HIDE DEF Eq, total
  <2> QED BY <1>1, <2>1
<1>4. PICK h : IsSum(h, AmountsOf(s, S), S) /\ SumOf(AmountsOf(s, S), S) = h[S]
  BY SumOfIsSum
<1>5. IsSum(g, AmountsOf(s, S), S)
  BY <1>2, <1>3
<1> QED BY <1>3, <1>4, <1>5, SumsAgree

\* The same before and after a step.
LEMMA AmountNow ==
    /\ \A S : AmountOf(S) = AmountFor(subscription, S)
    /\ AmountOf(ActiveOnes)' = AmountFor(subscription', ActiveOnes')
<1>1. \A S : AmountOf(S) = AmountFor(subscription, S)
  BY DEF AmountOf, AmountFor
<1>2. AmountOf(ActiveOnes)' = AmountFor(subscription', ActiveOnes')
  BY DEF AmountOf, AmountFor, MapThenSumSet, MapThenFoldSet
<1> QED BY <1>1, <1>2

Named(s, S) == \A i \in S : s[i].package \in Packages

\* Packages that are cancelled need nothing; the others need what they needed.
LEMMA FewerNeedLess ==
    ASSUME NEW s, NEW t, NEW T, IsFiniteSet(T), NEW S \in SUBSET T, Named(s, T),
           \A i \in S : t[i].package = s[i].package
    PROVE  SumOf(AmountsOf(t, S), S) <= SumOf(AmountsOf(s, T), T)
           /\ SumOf(AmountsOf(t, S), S) \in Int /\ SumOf(AmountsOf(s, T), T) \in Int
<1>1. \A i \in T : AmountsOf(s, T)[i] \in Nat
  BY LiveDeskAssumption DEF Named, AmountsOf
<1>2. IsFiniteSet(S) /\ \A i \in S : AmountsOf(t, S)[i] = AmountsOf(s, T)[i]
  BY FS_Subset DEF AmountsOf
<1>3. SumOf(AmountsOf(t, S), S) = SumOf(AmountsOf(s, T), S)
  BY <1>2, SumEqual
<1>4. SumOf(AmountsOf(s, T), S) <= SumOf(AmountsOf(s, T), T)
  BY <1>1, SumOfPart
<1>5. SumOf(AmountsOf(s, T), S) \in Int /\ SumOf(AmountsOf(s, T), T) \in Int
  BY <1>1, <1>2, SumInteger
<1> QED BY <1>3, <1>4, <1>5

\* A package more needs its amount more.
LEMMA OneMoreNeeds ==
    ASSUME NEW s, NEW S, IsFiniteSet(S), NEW i, i \notin S, NEW U, U = S \cup {i}, NEW t, Named(t, U),
           \A j \in S : t[j].package = s[j].package
    PROVE  SumOf(AmountsOf(t, U), U) = SumOf(AmountsOf(s, S), S) + PackageAmount[t[i].package]
<1> DEFINE f == AmountsOf(t, U)
<1>1. (\A j \in U : f[j] \in Int) /\ f[i] = PackageAmount[t[i].package]
  BY LiveDeskAssumption DEF Named, AmountsOf
<1>2. \A j \in S : f[j] = AmountsOf(s, S)[j]
  BY DEF AmountsOf
<1> HIDE DEF f
<1>3. SumOf(f, S \cup {i}) = SumOf(f, S) + f[i]
  BY <1>1, SumAdd
<1>4. SumOf(f, S) = SumOf(AmountsOf(s, S), S)
  BY <1>2, SumEqual
<1> QED BY <1>1, <1>3, <1>4 DEF f

\* What a subscription under way rests on: it knows the packages of what was made, and
\* while nothing else is made the ceiling does not fall below the one it has read,
\* unless the user lowers it himself.
Covers(r) ==
    r.pc = "subscribing" =>
        /\ r.package \in Packages
        /\ r.read \subseteq r.made /\ r.made \subseteq MadeOnes
        /\ r.seen \in ProfileRows(Int)
        /\ MadeOnes = r.made => profile.own \/ r.seen.ceiling <= profile.ceiling

CoverInv ==
    /\ SubscriptionsInv
    /\ IsFiniteSet(MadeOnes) /\ Named(subscription, MadeOnes)
    /\ profile \in ProfileRows(Int)
    /\ \A q \in DeskRequests : /\ Covers(request[q])
                               /\ request[q].pc \in {"counting", "cancelling"} => request[q].of \in MadeOnes
    /\ CeilingCoversActive

\* A request that has just read, and one that is over.
JustRead(r) == r.pc = "subscribing" => /\ r.package \in Packages /\ r.read = ActiveOnes /\ r.made = MadeOnes
                                    /\ r.seen = profile
LEMMA ActiveAreMade == ActiveOnes \subseteq MadeOnes
BY DEF ActiveOnes, MadeOnes, Active, NoSubscription

\* Steps that make and end no subscription, and lower the ceiling only as the user's own.
LEMMA ServiceStays ==
    ASSUME CoverInv, SubscriptionsInv', UNCHANGED subscription, profile' \in ProfileRows(Int),
           profile'.own \/ (profile'.own = profile.own /\ profile'.ceiling >= profile.ceiling),
           \A q \in DeskRequests :
               /\ \/ request'[q].pc = request[q].pc /\ request'[q].package = request[q].package
                     /\ request'[q].read = request[q].read /\ request'[q].made = request[q].made
                     /\ request'[q].seen = request[q].seen /\ request'[q].of = request[q].of
                  \/ JustRead(request'[q]) /\ UNCHANGED profile
                  \/ request'[q].pc # "subscribing"
               /\ request'[q].pc \in {"counting", "cancelling"} => request'[q].of \in MadeOnes
    PROVE  CoverInv'
<1>1. MadeOnes' = MadeOnes /\ ActiveOnes' = ActiveOnes /\ Named(subscription, MadeOnes)'
  BY DEF MadeOnes, ActiveOnes, Active, Named, CoverInv
<1>2. profile'.ceiling \in Int /\ profile.ceiling \in Int
  BY DEF CoverInv, ProfileRows
<1>3. AmountOf(ActiveOnes)' = AmountOf(ActiveOnes) /\ AmountOf(ActiveOnes) \in Int
  <2>1. IsFiniteSet(ActiveOnes) =>
            AmountOf(ActiveOnes)' = SumOf(AmountsOf(subscription', ActiveOnes'), ActiveOnes')
    BY <1>1, AmountIsSum, AmountNow
  <2>2. IsFiniteSet(ActiveOnes)
    BY ActiveAreMade, FS_Subset DEF CoverInv
  <2>3. AmountOf(ActiveOnes) = SumOf(AmountsOf(subscription, ActiveOnes), ActiveOnes)
    BY <2>2, AmountIsSum, AmountNow
  <2>4. Named(subscription, ActiveOnes)
    BY ActiveAreMade DEF CoverInv, Named
  <2>5. SumOf(AmountsOf(subscription, ActiveOnes), ActiveOnes) \in Int
    BY <2>2, <2>4, FewerNeedLess
  <2> QED BY <1>1, <2>1, <2>2, <2>3, <2>5
<1>4. CeilingCoversActive'
  BY <1>2, <1>3 DEF CoverInv, CeilingCoversActive
<1>5. ASSUME NEW q \in DeskRequests PROVE Covers(request[q])'
  <2>1. CASE request'[q].pc # "subscribing"
    BY <2>1 DEF Covers
  <2>2. CASE JustRead(request'[q]) /\ UNCHANGED profile
    BY <1>1, <1>2, <2>2, ActiveAreMade DEF Covers, JustRead, CoverInv
  <2>3. CASE /\ request'[q].pc = request[q].pc /\ request'[q].package = request[q].package
             /\ request'[q].read = request[q].read /\ request'[q].made = request[q].made
             /\ request'[q].seen = request[q].seen
    <3>1. Covers(request[q])
      BY DEF CoverInv
    <3>2. request[q].pc = "subscribing" => request[q].seen.ceiling \in Int
      BY <3>1 DEF Covers, ProfileRows
    <3> QED BY <1>1, <1>2, <2>3, <3>1, <3>2 DEF Covers
  <2> QED BY <2>1, <2>2, <2>3
<1> QED BY <1>1, <1>4, <1>5 DEF CoverInv

LEMMA CoverInvInit == DeskInit => CoverInv
<1> SUFFICES ASSUME DeskInit PROVE CoverInv
  OBVIOUS
<1>1. MadeOnes = {} /\ ActiveOnes = {}
  BY DEF DeskInit, MadeOnes, ActiveOnes, Active, NoSubscription
<1>2. IsFiniteSet({})
  BY FS_EmptySet
<1>3. profile \in ProfileRows(Int) /\ profile.ceiling = 0
  BY DEF DeskInit, NoProfile, ProfileRows
<1>4. \A q \in DeskRequests : request[q].pc = "idle"
  BY DEF DeskInit, NoDeskRequest
<1>5. AmountOf(ActiveOnes) = 0
  <2>1. SumOf(AmountsOf(subscription, {}), {}) = 0
    BY SumEmpty
  <2>2. AmountOf({}) = SumOf(AmountsOf(subscription, {}), {})
    BY <1>2, AmountIsSum, AmountNow
  <2> QED BY <1>1, <2>1, <2>2
<1>6. CeilingCoversActive
  BY <1>3, <1>5 DEF CeilingCoversActive
<1> QED BY <1>1, <1>2, <1>3, <1>4, <1>6, SubscriptionsInvInit DEF CoverInv, Covers, Named

\* The commit: the new package, and a ceiling that covers it and those that are active.
LEMMA SubscribeCommitCovers ==
    ASSUME CoverInv, SubscriptionsInv', NEW q \in DeskRequests, SubscribeCommit(q)
    PROVE  CoverInv'
<1> DEFINE r == request[q]
<1>1. PICK i \in Subscriptions :
          /\ subscription[i] = NoSubscription
          /\ subscription' = [subscription EXCEPT ![i] = [package |-> r.package, status |-> "ACTIVE"]]
  BY DEF SubscribeCommit
<1>2. PICK T : request \in [DeskRequests -> RequestRows(T)]
  BY DEF CoverInv, SubscriptionsInv
<1>3. /\ r.pc = "subscribing" /\ MadeOnes = r.made /\ r.package \in Packages /\ r.read \subseteq MadeOnes
      /\ r.seen \in ProfileRows(Int) /\ r.seen.ceiling \in Int /\ profile.ceiling \in Int
      /\ profile.own \/ r.seen.ceiling <= profile.ceiling
  BY DEF SubscribeCommit, Serializable, RequestAt, CoverInv, Covers, ProfileRows
<1>4. ActiveOnes \subseteq r.read
  BY <1>3 DEF CoverInv, SubscriptionsInv, ReadOthers, ActiveOnes, Active, MadeOnes, NoSubscription
<1>5. i \notin MadeOnes /\ i \notin r.read /\ i \notin ActiveOnes
  BY <1>1, <1>3, <1>4 DEF MadeOnes
<1>6. /\ subscription'[i] = [package |-> r.package, status |-> "ACTIVE"]
      /\ \A j \in Subscriptions : j # i => subscription'[j] = subscription[j]
  BY <1>1 DEF CoverInv, SubscriptionsInv
<1>7. MadeOnes' = MadeOnes \cup {i} /\ ActiveOnes' = ActiveOnes \cup {i}
  BY <1>5, <1>6 DEF MadeOnes, ActiveOnes, Active, NoSubscription
<1>8. /\ IsFiniteSet(MadeOnes') /\ Named(subscription', MadeOnes')
      /\ IsFiniteSet(r.read) /\ Named(subscription, r.read) /\ IsFiniteSet(ActiveOnes)
      /\ MadeOnes \subseteq Subscriptions
  <2>1. IsFiniteSet(MadeOnes) /\ Named(subscription, MadeOnes) /\ MadeOnes \subseteq Subscriptions
    BY DEF CoverInv, MadeOnes
  <2>2. IsFiniteSet(MadeOnes')
    BY <1>7, <2>1, FS_AddElement
  <2>3. IsFiniteSet(r.read) /\ IsFiniteSet(ActiveOnes)
    BY <1>3, <1>4, <2>1, FS_Subset
  <2>4. Named(subscription', MadeOnes')
    BY <1>3, <1>6, <1>7, <2>1 DEF Named
  <2> QED BY <1>3, <2>1, <2>2, <2>3, <2>4 DEF Named
<1> DEFINE read == SumOf(AmountsOf(subscription, r.read), r.read)
           now == SumOf(AmountsOf(subscription', ActiveOnes'), ActiveOnes')
           one == PackageAmount[r.package]
<1>9. Required(q) = read + one /\ read \in Int /\ one \in Int
  <2>1. AmountOf(r.read) = read
    BY <1>8, AmountIsSum, AmountNow
  <2>2. read \in Int
    BY <1>8, FewerNeedLess
  <2> HIDE DEF read
  <2> QED BY <1>3, <2>1, <2>2, LiveDeskAssumption DEF Required
<1>10. AmountOf(ActiveOnes)' = now /\ now \in Int /\ now <= read + one
  <2> DEFINE U == r.read \cup {i}
             all == SumOf(AmountsOf(subscription', r.read \cup {i}), r.read \cup {i})
  <2>1. IsFiniteSet(U) /\ Named(subscription', U) /\ ActiveOnes' \in SUBSET U
        /\ \A j \in r.read : subscription'[j].package = subscription[j].package
    <3>1. IsFiniteSet(U)
      BY <1>8, FS_AddElement
    <3>2. U \subseteq MadeOnes'
      BY <1>3, <1>7
    <3> QED BY <1>3, <1>4, <1>5, <1>6, <1>7, <1>8, <3>1, <3>2 DEF Named
  <2>2. all = read + PackageAmount[subscription'[i].package]
    <3>1. \A j \in r.read : subscription'[j].package = subscription[j].package
      BY <2>1
    <3>2. Named(subscription', r.read \cup {i})
      BY <2>1
    <3>3. i \notin r.read /\ IsFiniteSet(r.read)
      BY <1>5, <1>8
    <3>4. PICK W : W = r.read \cup {i}
      OBVIOUS
    <3>5. SumOf(AmountsOf(subscription', W), W) = read + PackageAmount[subscription'[i].package]
      <4> HIDE DEF r
      <4> QED BY <3>1, <3>2, <3>3, <3>4, OneMoreNeeds
    <3> QED BY <3>4, <3>5
  <2>3. now <= all /\ now \in Int /\ all \in Int
    <3>1. Named(subscription', r.read \cup {i}) /\ ActiveOnes' \in SUBSET (r.read \cup {i})
      BY <2>1
    <3> QED BY <2>1, <3>1, FewerNeedLess
  <2>4. IsFiniteSet(ActiveOnes')
    BY <2>1, FS_Subset
  <2>5. AmountOf(ActiveOnes)' = now
    BY <2>4, AmountIsSum, AmountNow
  <2> HIDE DEF all, now, read
  <2> QED BY <1>6, <2>2, <2>3, <2>5
<1> HIDE DEF read, now, one
<1>11. profile' \in ProfileRows(Int) /\ CeilingCoversActive'
  <2>1. CASE RaisesCeiling(q)
    <3>1. profile' = [profile EXCEPT !.ceiling = Required(q), !.own = FALSE, !.confirmed = FALSE]
      BY <2>1 DEF SubscribeCommit, NewCeiling
    <3>2. profile' \in ProfileRows(Int) /\ profile'.ceiling = Required(q)
      <4>1. profile \in ProfileRows(Int) /\ Required(q) \in Int
        BY <1>9 DEF CoverInv
      <4>2. PICK w : w = [profile EXCEPT !.ceiling = Required(q), !.own = FALSE]
        OBVIOUS
      <4>3. w \in ProfileRows(Int) /\ w.ceiling = Required(q)
        BY <4>1, <4>2 DEF ProfileRows
      <4>4. profile' = [w EXCEPT !.confirmed = FALSE]
        BY <3>1, <4>2
      <4> QED BY <4>3, <4>4 DEF ProfileRows
    <3> QED BY <1>9, <1>10, <3>2 DEF CeilingCoversActive
  <2>2. CASE ~RaisesCeiling(q)
    <3>1. UNCHANGED profile /\ ~(r.seen.ceiling < Required(q))
      BY <2>2 DEF SubscribeCommit, RaisesCeiling
    <3> QED BY <1>3, <1>9, <1>10, <3>1 DEF CeilingCoversActive, CoverInv
  <2> QED BY <2>1, <2>2
<1>12. request' = [request EXCEPT ![q] = NoDeskRequest] /\ NoDeskRequest.pc = "idle"
  BY DEF SubscribeCommit, Answer, NoDeskRequest
<1>13. ASSUME NEW p \in DeskRequests
       PROVE  /\ Covers(request[p])'
              /\ request'[p].pc \in {"counting", "cancelling"} => request'[p].of \in MadeOnes'
  <2>1. CASE p = q
    BY <1>2, <1>12, <2>1 DEF Covers
  <2>2. CASE p # q
    <3>1. request'[p] = request[p]
      BY <1>2, <1>12, <2>2
    <3>2. request[p].pc = "subscribing" => request[p].made # MadeOnes'
      BY <1>5, <1>7 DEF CoverInv, Covers
    <3> QED BY <1>7, <3>1, <3>2 DEF Covers, CoverInv
  <2> QED BY <2>1, <2>2
<1> QED BY <1>8, <1>11, <1>13 DEF CoverInv

\* A cancelled package needs nothing any more; the ceiling is left as it is.
LEMMA CancelCommitCovers ==
    ASSUME CoverInv, SubscriptionsInv', NEW q \in DeskRequests, CancelCommit(q)
    PROVE  CoverInv'
<1> DEFINE i == request[q].of
<1>1. /\ subscription' = [subscription EXCEPT ![i].status = "CANCELLED"] /\ UNCHANGED profile
      /\ i \in MadeOnes /\ request' = [request EXCEPT ![q] = NoDeskRequest] /\ NoDeskRequest.pc = "idle"
  BY DEF CancelCommit, CoverInv, RequestAt, Answer, NoDeskRequest
<1>2. PICK T : request \in [DeskRequests -> RequestRows(T)]
  BY DEF CoverInv, SubscriptionsInv
<1>3. \A j \in Subscriptions : /\ subscription'[j].package = subscription[j].package
                               /\ j # i => subscription'[j] = subscription[j]
                               /\ j = i => subscription'[j].status = "CANCELLED"
  BY <1>1 DEF CoverInv, SubscriptionsInv, SubscriptionRows
<1>4. MadeOnes' = MadeOnes /\ ActiveOnes' \subseteq ActiveOnes /\ MadeOnes \subseteq Subscriptions
  BY <1>1, <1>3 DEF MadeOnes, ActiveOnes, Active, NoSubscription
<1>5. Named(subscription', MadeOnes') /\ Named(subscription, ActiveOnes) /\ IsFiniteSet(ActiveOnes)
  BY <1>3, <1>4, ActiveAreMade, FS_Subset DEF CoverInv, Named
<1> DEFINE before == SumOf(AmountsOf(subscription, ActiveOnes), ActiveOnes)
           now == SumOf(AmountsOf(subscription', ActiveOnes'), ActiveOnes')
<1>6. AmountOf(ActiveOnes) = before /\ AmountOf(ActiveOnes)' = now
  <2>1. IsFiniteSet(ActiveOnes')
    BY <1>4, <1>5, FS_Subset
  <2> QED BY <1>5, <2>1, AmountIsSum, AmountNow
<1>7. now <= before /\ now \in Int /\ before \in Int
  <2>1. \A j \in ActiveOnes' : subscription'[j].package = subscription[j].package
    BY <1>3 DEF ActiveOnes
  <2> QED BY <1>4, <1>5, <2>1, FewerNeedLess
<1> HIDE DEF before, now
<1>8. CeilingCoversActive' /\ profile' \in ProfileRows(Int)
  <2>1. profile.ceiling \in Int
    BY DEF CoverInv, ProfileRows
  <2> QED BY <1>1, <1>6, <1>7, <2>1 DEF CoverInv, CeilingCoversActive
<1>9. ASSUME NEW p \in DeskRequests
      PROVE  /\ Covers(request[p])'
             /\ request'[p].pc \in {"counting", "cancelling"} => request'[p].of \in MadeOnes'
  <2>1. CASE p = q
    BY <1>1, <1>2, <2>1 DEF Covers
  <2>2. CASE p # q
    <3>1. request'[p] = request[p]
      BY <1>1, <1>2, <2>2
    <3> QED BY <1>1, <1>4, <3>1 DEF Covers, CoverInv
  <2> QED BY <2>1, <2>2
<1> QED BY <1>4, <1>5, <1>8, <1>9 DEF CoverInv

LEMMA RequestStepCovers ==
    ASSUME CoverInv, SubscriptionsInv', NEW q \in DeskRequests, RequestStep(q)
    PROVE  CoverInv'
<1>0. PICK T : request \in [DeskRequests -> RequestRows(T)]
  BY DEF CoverInv, SubscriptionsInv
<1>1. ASSUME UNCHANGED <<subscription, profile>>, NEW r, request' = [request EXCEPT ![q] = r],
             JustRead(r), r.pc \in {"counting", "cancelling"} => r.of \in MadeOnes
      PROVE  CoverInv'
  <2>1. request'[q] = r /\ \A p \in DeskRequests : p # q => request'[p] = request[p]
    BY <1>0, <1>1
  <2> QED BY <1>1, <2>1, ServiceStays DEF CoverInv, ProfileRows
<1>2. NoDeskRequest.pc = "idle" /\ JustRead(NoDeskRequest)
  BY DEF NoDeskRequest, JustRead
<1>3. ASSUME NEW r, r.pc # "subscribing", UNCHANGED subscription, UNCHANGED profile,
             request' = [request EXCEPT ![q] = r], r.pc \in {"counting", "cancelling"} => r.of \in MadeOnes
      PROVE  CoverInv'
  BY <1>1, <1>3 DEF JustRead
<1>8. CASE ConfirmRead(q)
  <2>1. /\ UNCHANGED <<subscription, profile>>
        /\ request' = [request EXCEPT ![q] = [request[q] EXCEPT !.pc = "confirming"]]
    BY <1>0, <1>8 DEF ConfirmRead
  <2>2. [request[q] EXCEPT !.pc = "confirming"].pc = "confirming"
    BY <1>0 DEF RequestRows
  <2> QED BY <1>3, <2>1, <2>2
<1>9. ASSUME NEW i \in Subscriptions, SetBotStatusRead(q, i)
      PROVE  CoverInv'
  <2>1. PICK s \in {"RUNNING", "STOPPED"} :
            request' = [request EXCEPT ![q].pc = "setting", ![q].of = i, ![q].wanted = s]
    BY <1>9 DEF SetBotStatusRead
  <2>2. PICK r : r = [request[q] EXCEPT !.pc = "setting", !.of = i, !.wanted = s]
    OBVIOUS
  <2>3. request' = [request EXCEPT ![q] = r] /\ UNCHANGED <<subscription, profile>>
    BY <1>0, <1>9, <2>1, <2>2 DEF SetBotStatusRead
  <2>4. r.pc = "setting"
    BY <1>0, <2>2 DEF RequestRows
  <2> QED BY <1>3, <2>3, <2>4
<1>10. ASSUME NEW i \in Subscriptions, CancelRead(q, i)
       PROVE  CoverInv'
  <2>1. PICK r : r = [request[q] EXCEPT !.pc = "counting", !.of = i]
    OBVIOUS
  <2>2. request' = [request EXCEPT ![q] = r] /\ UNCHANGED <<subscription, profile>>
    BY <1>0, <1>10, <2>1 DEF CancelRead
  <2>3. r.pc = "counting" /\ r.of = i
    BY <1>0, <2>1 DEF RequestRows
  <2>4. i \in MadeOnes
    BY <1>10 DEF CancelRead, Active, MadeOnes, NoSubscription
  <2> QED BY <1>3, <2>2, <2>3, <2>4
<1>4. ASSUME Answer(q), UNCHANGED <<subscription, profile>>
      PROVE  CoverInv'
  BY <1>1, <1>2, <1>4 DEF Answer
<1>5. CASE ConfirmWrite(q)
  <2>1. /\ UNCHANGED subscription /\ request' = [request EXCEPT ![q] = NoDeskRequest]
        /\ profile' = [profile EXCEPT !.confirmed = TRUE, !.agreed = @ \cup {profile.ceiling}]
    BY <1>5 DEF ConfirmWrite, Answer
  <2>2. profile' \in ProfileRows(Int) /\ profile'.own = profile.own /\ profile'.ceiling = profile.ceiling
    BY <2>1 DEF CoverInv, ProfileRows
  <2>3. profile'.ceiling >= profile.ceiling
    BY <2>2 DEF CoverInv, ProfileRows
  <2>4. request'[q].pc = "idle" /\ \A p \in DeskRequests : p # q => request'[p] = request[p]
    BY <1>0, <1>2, <2>1
  <2> QED BY <2>1, <2>2, <2>3, <2>4, ServiceStays DEF CoverInv
<1>6. ASSUME NEW p \in Packages, SubscribeRead(q, p)
      PROVE  CoverInv'
  <2> DEFINE r == [NoDeskRequest EXCEPT !.pc = "subscribing", !.package = p,
                                        !.read = ActiveOnes, !.made = MadeOnes, !.seen = profile]
  <2>1. JustRead(r) /\ r.pc = "subscribing"
    BY DEF JustRead, NoDeskRequest
  <2>2. UNCHANGED <<subscription, profile>> /\ request' = [request EXCEPT ![q] = r]
    BY <1>6 DEF SubscribeRead
  <2> HIDE DEF r
  <2> QED BY <1>1, <2>1, <2>2
<1>7. CASE CancelCount(q)
  <2>1. CASE books[request[q].of].cost # 0
    BY <1>4, <1>7, <2>1 DEF CancelCount
  <2>2. CASE books[request[q].of].cost = 0
    <3>1. /\ UNCHANGED <<subscription, profile>> /\ request[q].of \in MadeOnes
          /\ request' = [request EXCEPT ![q] = [request[q] EXCEPT !.pc = "cancelling"]]
      BY <1>0, <1>7, <2>2 DEF CancelCount, CoverInv, RequestAt
    <3>2. /\ [request[q] EXCEPT !.pc = "cancelling"].pc = "cancelling"
          /\ [request[q] EXCEPT !.pc = "cancelling"].of = request[q].of
      BY <1>0 DEF RequestRows
    <3> QED BY <1>3, <3>1, <3>2
  <2> QED BY <2>1, <2>2
<1>11. CASE SetBotStatusWrite(q) \/ RequestFails(q)
  BY <1>4, <1>11 DEF SetBotStatusWrite, RequestFails
<1> QED BY <1>5, <1>6, <1>7, <1>8, <1>9, <1>10, <1>11, SubscribeCommitCovers, CancelCommitCovers DEF RequestStep

LEMMA CoverInvNext == CoverInv /\ [DeskNext]_deskVars => CoverInv'
<1> SUFFICES ASSUME CoverInv, [DeskNext]_deskVars PROVE CoverInv'
  OBVIOUS
<1>0. SubscriptionsInv'
  BY SubscriptionsInvNext DEF CoverInv
<1>r. PICK T : request \in [DeskRequests -> RequestRows(T)]
  BY DEF CoverInv, SubscriptionsInv
<1>p. profile \in ProfileRows(Int) /\ profile.ceiling \in Int
  BY DEF CoverInv, ProfileRows
<1>1. CASE UNCHANGED <<subscription, request, profile>>
  BY <1>0, <1>1, <1>p, ServiceStays DEF CoverInv
<1>2. CASE SetCapitalCeiling
  <2>1. PICK c \in Ceilings : profile' = [profile EXCEPT !.ceiling = c, !.own = TRUE, !.confirmed = FALSE]
    BY <1>2 DEF SetCapitalCeiling, NewCeiling
  <2>2. profile' \in ProfileRows(Int) /\ profile'.own
    <3>1. PICK w : w = [profile EXCEPT !.ceiling = c, !.own = TRUE]
      OBVIOUS
    <3>c. c \in Int
      BY LiveDeskAssumption
    <3>2. w \in ProfileRows(Int) /\ w.own
      BY <1>p, <3>1, <3>c DEF ProfileRows
    <3>3. profile' = [w EXCEPT !.confirmed = FALSE]
      BY <2>1, <3>1
    <3> QED BY <3>2, <3>3 DEF ProfileRows
  <2>3. UNCHANGED <<subscription, request>>
    BY <1>2 DEF SetCapitalCeiling
  <2> QED BY <1>0, <2>2, <2>3, ServiceStays DEF CoverInv
<1>3. ASSUME NEW q \in DeskRequests, ExitPause(q) \/ ExitStop(q) \/ ExitAborts(q)
      PROVE  CoverInv'
  <2>0. CASE ExitPause(q)
    <3>1. UNCHANGED <<subscription, profile>> /\ request' = [request EXCEPT ![q].pc = "exiting"]
      BY <2>0 DEF ExitPause
    <3>2. request'[q].pc = "exiting" /\ \A p \in DeskRequests : p # q => request'[p] = request[p]
      BY <1>r, <3>1 DEF RequestRows
    <3> QED BY <1>0, <1>p, <3>1, <3>2, ServiceStays DEF CoverInv
  <2>e. SUFFICES ASSUME ExitStop(q) \/ ExitAborts(q) PROVE CoverInv'
    BY <1>3, <2>0
  <2>1. /\ UNCHANGED <<subscription, profile>> /\ \A p \in DeskRequests : p # q => request'[p] = request[p]
        /\ request'[q].pc = "idle"
    BY <1>r, <2>e DEF ExitStop, ExitAborts, Answer, service, NoDeskRequest
  <2> QED BY <1>0, <1>p, <2>1, ServiceStays DEF CoverInv
<1>4. CASE ExitStep
  BY <1>1, <1>3, <1>4 DEF ExitStep, ExitListOrders, ExitListPositions, ExitCancel, ExitClose, service
<1>5. ASSUME NEW e \in Passes, PassStep(e)
      PROVE  UNCHANGED <<subscription, request, profile>>
  BY <1>5 DEF PassStep, StartPass, WantEntry, PassBy, TakeProfit, ReadProfile, ReadPositions, ReadPending,
              Admit, RefuseEntry, Begin, PlaceEntry, EntryFails, service
<1>6. CASE \/ \E b \in OwnBots : SetOwnStatus(b)
           \/ \E b \in Bots : SyncResting(b)
           \/ UNCHANGED deskVars
  BY <1>1, <1>6 DEF SetOwnStatus, SyncResting, deskVars
<1> QED BY <1>0, <1>1, <1>2, <1>4, <1>5, <1>6, RequestStepCovers DEF DeskNext

\* For any packages, amounts and requests that subscribe, cancel and set the ceiling at
\* once: the ceiling covers every active package, unless the user has set it himself
\* since (PackagesService.subscribe).
THEOREM CeilingCovers == DeskSpec => []CeilingCoversActive
<1>1. CoverInv => CeilingCoversActive
  BY DEF CoverInv
<1> QED BY <1>1, CoverInvInit, CoverInvNext, PTL DEF DeskSpec

-----------------------------------------------------------------------------
(* The rows of the desk.  Their types need a reason in three places: a bot    *)
(* gets the status its request was made with, a ceiling that is confirmed was *)
(* set before, and what the packages of a subscription need together is a     *)
(* positive number of the packages it has read.                               *)

ExitRows == [pc : {"idle", "listing", "cancelling", "closing"}, todo : SUBSET Bots,
             refused : SUBSET Bots]
BotTyped == bot \in [Bots -> BotStatuses]
BooksTyped == books \in [Bots -> [cost : Nat, resting : 0..1]]
ExitTyped == exit \in ExitRows
CeilingTyped == profile.ceiling \in Nat /\ profile.agreed \subseteq Nat \ {0}

\* What a request is about to write.
WritesTyped ==
    \A q \in DeskRequests :
        /\ request[q].pc = "setting" => request[q].wanted \in {"RUNNING", "STOPPED"}
        /\ request[q].pc = "confirming" => profile.ceiling > 0

DeskInv == /\ CoverInv /\ CeilingInv
           /\ BotTyped /\ BooksTyped /\ ExitTyped /\ CeilingTyped /\ WritesTyped

LEMMA DeskInvInit == DeskInit => DeskInv
<1> SUFFICES ASSUME DeskInit PROVE DeskInv
  OBVIOUS
<1>1. BotTyped
  BY DEF DeskInit, BotTyped, BotStatuses
<1>2. BooksTyped
  BY DEF DeskInit, BooksTyped, NoBooks
<1>3. ExitTyped
  BY DEF DeskInit, ExitTyped, NoExit, ExitRows
<1>4. CeilingTyped
  BY DEF DeskInit, CeilingTyped, NoProfile
<1>5. WritesTyped
  BY DEF DeskInit, WritesTyped, NoDeskRequest
<1> QED BY <1>1, <1>2, <1>3, <1>4, <1>5, CoverInvInit, CeilingInvInit DEF DeskInv

\* What the packages of a subscription need together.
LEMMA RequiredIsPositive ==
    ASSUME CoverInv, NEW q \in DeskRequests, RequestAt(q, "subscribing")
    PROVE  Required(q) \in Nat \ {0}
<1> DEFINE r == request[q]
           read == SumOf(AmountsOf(subscription, r.read), r.read)
           one == PackageAmount[r.package]
<1>1. r.read \subseteq MadeOnes /\ r.package \in Packages
  BY DEF CoverInv, Covers, RequestAt
<1>2. IsFiniteSet(r.read) /\ Named(subscription, r.read)
  BY <1>1, FS_Subset DEF CoverInv, Named
<1>3. AmountOf(r.read) = read
  BY <1>2, AmountIsSum, AmountNow
<1>4. \A i \in r.read : AmountsOf(subscription, r.read)[i] \in Nat
  BY <1>2, LiveDeskAssumption DEF Named, AmountsOf
<1>5. read \in Int /\ read >= 0
  BY <1>2, <1>4, SumInteger, SumNonNegative
<1>6. one \in Nat \ {0}
  BY <1>1, LiveDeskAssumption
<1> HIDE DEF read, one
<1>7. Required(q) = read + one
  BY <1>3 DEF Required, one
<1> QED BY <1>5, <1>6, <1>7

\* The bots.
LEMMA BotTypeKeeps ==
    ASSUME DeskInv, [DeskNext]_deskVars
    PROVE  BotTyped'
<1> USE DEF DeskInv, BotTyped, BotStatuses
<1>1. CASE UNCHANGED bot
  BY <1>1
<1>2. ASSUME NEW b \in Bots, NEW s \in BotStatuses, bot' = [bot EXCEPT ![b] = s]
      PROVE  BotTyped'
  BY <1>2
<1>3. ASSUME NEW b \in OwnBots, SetOwnStatus(b) PROVE BotTyped'
  BY <1>2, <1>3 DEF SetOwnStatus, Bots
<1>4. ASSUME NEW q \in DeskRequests, RequestStep(q) PROVE BotTyped'
  <2>1. CASE SetBotStatusWrite(q)
    <3>1. request[q].wanted \in {"RUNNING", "STOPPED"} /\ bot' = [bot EXCEPT ![request[q].of] = request[q].wanted]
      BY <2>1 DEF SetBotStatusWrite, RequestAt, WritesTyped
    <3> QED BY <3>1
  <2>2. CASE CancelCommit(q)
    BY <2>2 DEF CancelCommit
  <2> QED BY <1>1, <1>4, <2>1, <2>2
          DEF RequestStep, ConfirmRead, ConfirmWrite, SubscribeRead, SubscribeCommit, SetBotStatusRead,
              CancelRead, CancelCount, RequestFails
<1>5. ASSUME NEW e \in Passes, PassStep(e) PROVE BotTyped'
  BY <1>1, <1>5 DEF PassStep, StartPass, WantEntry, PassBy, TakeProfit, ReadProfile, ReadPositions,
                    ReadPending, Admit, RefuseEntry, Begin, PlaceEntry, EntryFails, service
<1>6. CASE ExitStep
  <2>1. ASSUME NEW q \in DeskRequests, ExitPause(q) PROVE BotTyped'
    BY <2>1 DEF ExitPause
  <2>2. ASSUME NEW q \in DeskRequests, ExitStop(q) PROVE BotTyped'
    BY <2>2 DEF ExitStop
  <2> QED BY <1>1, <1>6, <2>1, <2>2
          DEF ExitStep, ExitAborts, ExitListOrders, ExitListPositions, ExitCancel, ExitClose, service
<1>7. CASE SetCapitalCeiling \/ (\E b \in Bots : SyncResting(b)) \/ UNCHANGED deskVars
  BY <1>1, <1>7 DEF SetCapitalCeiling, SyncResting, deskVars
<1> QED BY <1>3, <1>4, <1>5, <1>6, <1>7 DEF DeskNext

\* The positions and the resting buys.
LEMMA BooksTypeKeeps ==
    ASSUME DeskInv, [DeskNext]_deskVars
    PROVE  BooksTyped'
<1>1. CASE UNCHANGED books
  BY <1>1 DEF DeskInv, BooksTyped
<1>2. ASSUME NEW b \in Bots, NEW c \in Nat, NEW r \in 0..1,
             books' = [books EXCEPT ![b] = [cost |-> c, resting |-> r]]
      PROVE  BooksTyped'
  BY <1>2 DEF DeskInv, BooksTyped
<1>3. ASSUME NEW b \in Bots
      PROVE  /\ \A c : [books[b] EXCEPT !.cost = c] = [cost |-> c, resting |-> books[b].resting]
             /\ \A r : [books[b] EXCEPT !.resting = r] = [cost |-> books[b].cost, resting |-> r]
             /\ books[b].cost \in Nat /\ books[b].resting \in 0..1
  <2>1. books[b] \in [cost : Nat, resting : 0..1]
    BY DEF DeskInv, BooksTyped
  <2>2. PICK row \in [cost : Nat, resting : 0..1] : row = books[b]
    BY <2>1
  <2> QED BY <2>2
<1>4. ASSUME NEW b, NEW c \in Nat, books' = [books EXCEPT ![b].cost = c] PROVE BooksTyped'
  <2>1. CASE b \in Bots
    <3>1. [books[b] EXCEPT !.cost = c] = [cost |-> c, resting |-> books[b].resting]
      BY <1>3, <2>1
    <3>2. books[b].resting \in 0..1
      BY <1>3, <2>1
    <3>3. books' = [books EXCEPT ![b] = [cost |-> c, resting |-> books[b].resting]]
      BY <1>4, <3>1
    <3> QED BY <1>2, <2>1, <3>2, <3>3
  <2>2. CASE b \notin Bots
    BY <1>4, <2>2 DEF DeskInv, BooksTyped
  <2> QED BY <2>1, <2>2
<1>5. ASSUME NEW b, NEW r \in 0..1, books' = [books EXCEPT ![b].resting = r] PROVE BooksTyped'
  <2>1. CASE b \in Bots
    <3>1. [books[b] EXCEPT !.resting = r] = [cost |-> books[b].cost, resting |-> r]
      BY <1>3, <2>1
    <3>2. books[b].cost \in Nat
      BY <1>3, <2>1
    <3>3. books' = [books EXCEPT ![b] = [cost |-> books[b].cost, resting |-> r]]
      BY <1>5, <3>1
    <3> QED BY <1>2, <2>1, <3>2, <3>3
  <2>2. CASE b \notin Bots
    BY <1>5, <2>2 DEF DeskInv, BooksTyped
  <2> QED BY <2>1, <2>2
<1>6. ASSUME NEW b \in Bots, NEW n \in 0..books[b].resting,
             books' = [books EXCEPT ![b] = [cost |-> books[b].cost + n, resting |-> 0]]
      PROVE  BooksTyped'
  <2>1. books[b].cost \in Nat /\ books[b].resting \in 0..1
    BY <1>3
  <2>2. PICK c : c = books[b].cost + n
    OBVIOUS
  <2>3. c \in Nat
    BY <2>1, <2>2
  <2>4. books' = [books EXCEPT ![b] = [cost |-> c, resting |-> 0]] /\ 0 \in 0..1
    BY <1>6, <2>2
  <2> QED BY <1>2, <2>3, <2>4
<1>7. ASSUME NEW b \in Bots, SyncResting(b) PROVE BooksTyped'
  <2>1. PICK n \in {0, books[b].resting} : books' = [books EXCEPT ![b] = [cost |-> books[b].cost + n, resting |-> 0]]
    BY <1>7 DEF SyncResting
  <2>2. n \in 0..books[b].resting
    <3>1. books[b].resting \in 0..1
      BY <1>3
    <3> QED BY <2>1, <3>1
  <2> QED BY <1>6, <2>1, <2>2
<1>8. ASSUME NEW e \in Passes, PassStep(e) PROVE BooksTyped'
  <2>1. CASE PlaceEntry(e)
    <3> DEFINE b == desk[e].bot
    <3>1. CASE books' = [books EXCEPT ![b].resting = 1]
      <4> HIDE DEF b
      <4>1. 1 \in 0..1
        OBVIOUS
      <4> QED BY <1>5, <3>1, <4>1
    <3>2. CASE books' = [books EXCEPT ![b].cost = @ + 1]
      <4>1. CASE b \in Bots
        <5> HIDE DEF b
        <5>1. books[b].cost \in Nat
          BY <1>3, <4>1
        <5>2. PICK c : c = books[b].cost + 1
          OBVIOUS
        <5>3. c \in Nat
          BY <5>1, <5>2
        <5>4. books' = [books EXCEPT ![b].cost = c]
          BY <3>2, <5>2
        <5> QED BY <1>4, <5>3, <5>4
      <4>2. CASE b \notin Bots
        BY <1>1, <3>2, <4>2 DEF DeskInv, BooksTyped
      <4> QED BY <4>1, <4>2
    <3> QED BY <2>1, <3>1, <3>2 DEF PlaceEntry
  <2>2. ASSUME NEW b \in Bots, TakeProfit(e, b) PROVE BooksTyped'
    <3>1. books' = [books EXCEPT ![b].cost = 0] /\ 0 \in Nat
      BY <2>2 DEF TakeProfit
    <3> QED BY <1>4, <3>1
  <2> QED BY <1>1, <1>8, <2>1, <2>2
          DEF PassStep, StartPass, WantEntry, PassBy, ReadProfile, ReadPositions, ReadPending, Admit,
              RefuseEntry, Begin, EntryFails, service
<1>9. CASE ExitStep
  <2>1. ASSUME NEW b \in Bots, ExitCancel(b) PROVE BooksTyped'
    BY <1>1, <1>6, <2>1 DEF ExitCancel
  <2>2. ASSUME NEW b \in Bots, ExitClose(b) PROVE BooksTyped'
    BY <1>1, <1>4, <2>2 DEF ExitClose
  <2> QED BY <1>1, <1>9, <2>1, <2>2
          DEF ExitStep, ExitPause, ExitStop, ExitAborts, ExitListOrders, ExitListPositions, service
<1>10. ASSUME NEW q \in DeskRequests, RequestStep(q) PROVE BooksTyped'
  BY <1>1, <1>10 DEF RequestStep, ConfirmRead, ConfirmWrite, SubscribeRead, SubscribeCommit,
                     SetBotStatusRead, SetBotStatusWrite, CancelRead, CancelCount, CancelCommit, RequestFails
<1>11. CASE SetCapitalCeiling \/ (\E b \in OwnBots : SetOwnStatus(b)) \/ UNCHANGED deskVars
  BY <1>1, <1>11 DEF SetCapitalCeiling, SetOwnStatus, deskVars
<1> QED BY <1>7, <1>8, <1>9, <1>10, <1>11 DEF DeskNext

\* The emergency exit.
LEMMA ExitTypeKeeps ==
    ASSUME DeskInv, [DeskNext]_deskVars
    PROVE  ExitTyped'
<1>1. CASE UNCHANGED exit
  BY <1>1 DEF DeskInv, ExitTyped
<1>2. exit = [pc |-> exit.pc, todo |-> exit.todo, refused |-> exit.refused] /\ exit \in ExitRows
  BY DEF DeskInv, ExitTyped, ExitRows
<1>3. NoExit \in ExitRows
  BY DEF NoExit, ExitRows
<1>4. CASE ExitStep
  <2> USE DEF ExitTyped, ExitRows
  <2>1. ASSUME NEW q \in DeskRequests, ExitPause(q) PROVE ExitTyped'
    BY <2>1 DEF ExitPause, NoExit
  <2>2. ASSUME NEW q \in DeskRequests, ExitStop(q) \/ ExitAborts(q) PROVE ExitTyped'
    BY <1>3, <2>2 DEF ExitStop, ExitAborts
  <2>3. CASE ExitListOrders
    <3>1. exit' = [exit EXCEPT !.pc = "cancelling", !.todo = {b \in Bots : books[b].resting > 0}]
      BY <2>3 DEF ExitListOrders
    <3> QED BY <1>2, <3>1
  <2>4. CASE ExitListPositions
    <3>1. exit' = [exit EXCEPT !.pc = "closing", !.todo = {b \in Bots : books[b].cost > 0}]
      BY <2>4 DEF ExitListPositions
    <3> QED BY <1>2, <3>1
  <2>5. ASSUME NEW b \in Bots, ExitCancel(b) PROVE ExitTyped'
    <3>1. exit' = [exit EXCEPT !.todo = exit.todo \ {b}]
      BY <2>5 DEF ExitCancel
    <3> QED BY <1>2, <3>1
  <2>6. ASSUME NEW b \in Bots, ExitClose(b) PROVE ExitTyped'
    <3>1. PICK refused \in SUBSET Bots : exit' = [exit EXCEPT !.todo = exit.todo \ {b}, !.refused = refused]
      BY <1>2, <2>6 DEF ExitClose
    <3> QED BY <1>2, <3>1
  <2> QED BY <1>4, <2>1, <2>2, <2>3, <2>4, <2>5, <2>6 DEF ExitStep
<1>5. ASSUME NEW q \in DeskRequests, RequestStep(q) PROVE ExitTyped'
  BY <1>1, <1>5 DEF RequestStep, ConfirmRead, ConfirmWrite, SubscribeRead, SubscribeCommit,
                    SetBotStatusRead, SetBotStatusWrite, CancelRead, CancelCount, CancelCommit, RequestFails
<1>6. ASSUME NEW e \in Passes, PassStep(e) PROVE ExitTyped'
  BY <1>1, <1>6 DEF PassStep, StartPass, WantEntry, PassBy, TakeProfit, ReadProfile, ReadPositions,
                    ReadPending, Admit, RefuseEntry, Begin, PlaceEntry, EntryFails, service
<1>7. CASE \/ SetCapitalCeiling \/ \E b \in OwnBots : SetOwnStatus(b)
           \/ \E b \in Bots : SyncResting(b)
           \/ UNCHANGED deskVars
  BY <1>1, <1>7 DEF SetCapitalCeiling, SetOwnStatus, SyncResting, deskVars
<1> QED BY <1>4, <1>5, <1>6, <1>7 DEF DeskNext

\* The ceiling, and what requests are about to write.
LEMMA CeilingTypeKeeps ==
    ASSUME DeskInv, [DeskNext]_deskVars
    PROVE  CeilingTyped' /\ WritesTyped'
<1>1. /\ profile = [ceiling |-> profile.ceiling, confirmed |-> profile.confirmed,
                    own |-> profile.own, agreed |-> profile.agreed]
      /\ \E S : request \in [DeskRequests -> RequestRows(S)]
  BY DEF DeskInv, CoverInv, SubscriptionsInv, ProfileRows
<1> USE DEF DeskInv, CeilingTyped
\* A request gets a new row, and the ceiling stays.
<1>2. ASSUME NEW q \in DeskRequests, UNCHANGED profile, NEW r, request' = [request EXCEPT ![q] = r],
             r.pc = "setting" => r.wanted \in {"RUNNING", "STOPPED"},
             r.pc = "confirming" => profile.ceiling > 0
      PROVE  CeilingTyped' /\ WritesTyped'
  BY <1>1, <1>2 DEF WritesTyped
<1>3. NoDeskRequest.pc = "idle"
  BY DEF NoDeskRequest
<1>4. ASSUME NEW q \in DeskRequests, Answer(q), UNCHANGED profile PROVE CeilingTyped' /\ WritesTyped'
  BY <1>2, <1>3, <1>4 DEF Answer
<1>5. CASE UNCHANGED <<profile, request>>
  BY <1>5 DEF WritesTyped
<1>6. ASSUME NEW c \in Nat \ {0}, NEW mine, NewCeiling(c, mine)
      PROVE  CeilingTyped' /\ profile'.ceiling > 0
  BY <1>1, <1>6 DEF NewCeiling
<1>7. CASE SetCapitalCeiling
  <2>1. CeilingTyped' /\ profile'.ceiling > 0 /\ UNCHANGED request
    BY <1>6, <1>7, LiveDeskAssumption DEF SetCapitalCeiling
  <2> QED BY <2>1 DEF WritesTyped
<1>8. ASSUME NEW q \in DeskRequests, RequestStep(q) PROVE CeilingTyped' /\ WritesTyped'
  <2>1. CASE ConfirmRead(q)
    <3>1. PICK r : r = [request[q] EXCEPT !.pc = "confirming"]
      OBVIOUS
    <3>2. request' = [request EXCEPT ![q] = r] /\ UNCHANGED profile /\ profile.ceiling > 0
      BY <2>1, <3>1 DEF ConfirmRead
    <3>3. r.pc = "confirming"
      BY <1>1, <3>1 DEF RequestRows
    <3> QED BY <1>2, <3>2, <3>3
  <2>2. CASE ConfirmWrite(q)
    <3>1. /\ request[q].pc = "confirming" /\ request' = [request EXCEPT ![q] = NoDeskRequest]
          /\ profile' = [profile EXCEPT !.confirmed = TRUE, !.agreed = profile.agreed \cup {profile.ceiling}]
      BY <2>2 DEF ConfirmWrite, RequestAt, Answer
    <3>2. profile.ceiling > 0
      BY <3>1 DEF WritesTyped
    <3>3. profile'.ceiling = profile.ceiling /\ profile'.agreed = profile.agreed \cup {profile.ceiling}
      BY <1>1, <3>1
    <3> QED BY <1>1, <1>3, <3>1, <3>2, <3>3 DEF WritesTyped
  <2>3. ASSUME NEW p \in Packages, SubscribeRead(q, p) PROVE CeilingTyped' /\ WritesTyped'
    <3>1. PICK r : r = [NoDeskRequest EXCEPT !.pc = "subscribing", !.package = p, !.read = ActiveOnes,
                                             !.made = MadeOnes, !.seen = profile]
      OBVIOUS
    <3>2. r.pc = "subscribing"
      BY <3>1 DEF NoDeskRequest
    <3>3. request' = [request EXCEPT ![q] = r] /\ UNCHANGED profile
      BY <2>3, <3>1 DEF SubscribeRead
    <3> QED BY <1>2, <3>2, <3>3
  <2>4. CASE SubscribeCommit(q)
    <3>1. CASE RaisesCeiling(q)
      <4>1. Required(q) \in Nat \ {0} /\ NewCeiling(Required(q), FALSE)
            /\ request' = [request EXCEPT ![q] = NoDeskRequest]
        BY <2>4, <3>1, RequiredIsPositive DEF SubscribeCommit, Answer
      <4>2. CeilingTyped' /\ profile'.ceiling > 0
        BY <1>6, <4>1
      <4> QED BY <1>1, <1>3, <4>1, <4>2 DEF WritesTyped
    <3>2. CASE ~RaisesCeiling(q)
      BY <1>4, <2>4, <3>2 DEF SubscribeCommit
    <3> QED BY <3>1, <3>2
  <2>5. ASSUME NEW i \in Subscriptions, SetBotStatusRead(q, i) PROVE CeilingTyped' /\ WritesTyped'
    <3>1. PICK s \in {"RUNNING", "STOPPED"} :
              request' = [request EXCEPT ![q].pc = "setting", ![q].of = i, ![q].wanted = s]
      BY <2>5 DEF SetBotStatusRead
    <3>2. PICK r : r = [request[q] EXCEPT !.pc = "setting", !.of = i, !.wanted = s]
      OBVIOUS
    <3>3. r.pc = "setting" /\ r.wanted = s
      BY <1>1, <3>2 DEF RequestRows
    <3>4. request' = [request EXCEPT ![q] = r] /\ UNCHANGED profile
      BY <1>1, <2>5, <3>1, <3>2 DEF SetBotStatusRead
    <3> QED BY <1>2, <3>3, <3>4
  <2>6. ASSUME NEW i \in Subscriptions, CancelRead(q, i) PROVE CeilingTyped' /\ WritesTyped'
    <3>1. PICK r : r = [request[q] EXCEPT !.pc = "counting", !.of = i]
      OBVIOUS
    <3>2. r.pc = "counting"
      BY <1>1, <3>1 DEF RequestRows
    <3>3. request' = [request EXCEPT ![q] = r] /\ UNCHANGED profile
      BY <1>1, <2>6, <3>1 DEF CancelRead
    <3> QED BY <1>2, <3>2, <3>3
  <2>7. CASE CancelCount(q)
    <3>1. CASE books[request[q].of].cost = 0
      <4>1. PICK r : r = [request[q] EXCEPT !.pc = "cancelling"]
        OBVIOUS
      <4>2. r.pc = "cancelling"
        BY <1>1, <4>1 DEF RequestRows
      <4>3. request' = [request EXCEPT ![q] = r] /\ UNCHANGED profile
        BY <2>7, <3>1, <4>1 DEF CancelCount
      <4> QED BY <1>2, <4>2, <4>3
    <3>2. CASE books[request[q].of].cost # 0
      BY <1>4, <2>7, <3>2 DEF CancelCount
    <3> QED BY <3>1, <3>2
  <2>8. CASE SetBotStatusWrite(q) \/ CancelCommit(q) \/ RequestFails(q)
    BY <1>4, <2>8 DEF SetBotStatusWrite, CancelCommit, RequestFails
  <2> QED BY <1>8, <2>1, <2>2, <2>3, <2>4, <2>5, <2>6, <2>7, <2>8 DEF RequestStep
<1>9. ASSUME NEW e \in Passes, PassStep(e) PROVE CeilingTyped' /\ WritesTyped'
  BY <1>5, <1>9 DEF PassStep, StartPass, WantEntry, PassBy, TakeProfit, ReadProfile, ReadPositions,
                    ReadPending, Admit, RefuseEntry, Begin, PlaceEntry, EntryFails, service
<1>10. CASE ExitStep
  <2>1. ASSUME NEW q \in DeskRequests, ExitPause(q) PROVE CeilingTyped' /\ WritesTyped'
    <3>1. PICK r : r = [request[q] EXCEPT !.pc = "exiting"]
      OBVIOUS
    <3>2. r.pc = "exiting"
      BY <1>1, <3>1 DEF RequestRows
    <3>3. request' = [request EXCEPT ![q] = r] /\ UNCHANGED profile
      BY <2>1, <3>1 DEF ExitPause
    <3> QED BY <1>2, <3>2, <3>3
  <2>2. ASSUME NEW q \in DeskRequests, ExitStop(q) \/ ExitAborts(q) PROVE CeilingTyped' /\ WritesTyped'
    BY <1>4, <2>2 DEF ExitStop, ExitAborts, service
  <2> QED BY <1>5, <1>10, <2>1, <2>2
          DEF ExitStep, ExitListOrders, ExitListPositions, ExitCancel, ExitClose, service
<1>11. CASE \/ \E b \in OwnBots : SetOwnStatus(b)
            \/ \E b \in Bots : SyncResting(b)
            \/ UNCHANGED deskVars
  BY <1>5, <1>11 DEF SetOwnStatus, SyncResting, deskVars
<1> QED BY <1>7, <1>8, <1>9, <1>10, <1>11 DEF DeskNext

LEMMA DeskInvNext == DeskInv /\ [DeskNext]_deskVars => DeskInv'
BY CoverInvNext, CeilingInvNext, BotTypeKeeps, BooksTypeKeeps, ExitTypeKeeps, CeilingTypeKeeps DEF DeskInv

\* Whatever requests, passes and the emergency exit do to each other's rows, every row
\* behind the LIVE desk is well typed; a ceiling the user has agreed to is positive.
THEOREM DeskTyped == DeskSpec => []DeskTypeOK
<1>1. DeskInv => DeskTypeOK
  <2> SUFFICES ASSUME DeskInv PROVE DeskTypeOK
    OBVIOUS
  <2>1. subscription \in [Subscriptions -> SubscriptionRows]
        /\ \A q \in DeskRequests : request[q].pc \in RequestPcs /\ request[q].of \in Bots \cup {NoBot}
    BY DEF DeskInv, CoverInv, SubscriptionsInv, RequestRows
  <2>2. \A e \in Passes : desk[e].pc \in PassPcs /\ desk[e].todo \subseteq Bots
    BY DEF DeskInv, CeilingInv, PassRows
  <2>3. \A b \in Bots : books[b].cost \in Nat /\ books[b].resting \in 0..1
    BY DEF DeskInv, BooksTyped
  <2>4. exit.todo \subseteq Bots /\ exit.refused \subseteq Bots
    BY DEF DeskInv, ExitTyped, ExitRows
  <2> QED BY <2>1, <2>2, <2>3, <2>4 DEF DeskInv, DeskTypeOK, SubscriptionRows, BotTyped, CeilingTyped
<1>2. DeskInit => DeskInv
  BY DeskInvInit
<1>3. DeskInv /\ [DeskNext]_deskVars => DeskInv'
  BY DeskInvNext
<1> QED BY <1>1, <1>2, <1>3, PTL DEF DeskSpec

-----------------------------------------------------------------------------
(* The catalogue.  Shares, splits, base orders and what a request has         *)
(* validated are stated of any library L, offers O and shares S.             *)

SharesIn(S, o) == {s \in S : s.offer = o}
SplitIn(S) == [t \in {s.template : s \in S} |-> (CHOOSE s \in S : s.template = t).percent]
BaseIn(L) == [t \in Library |-> L[t].base]
ActiveIn(L, split) == \A t \in DOMAIN split : L[t].active

\* A package that was made can be paid for, and one on sale has its templates.
SaleableIn(L, O, S) ==
    \A o \in Offers :
        /\ O[o] # NoOffer => Fundable(O[o].amount, SplitIn(SharesIn(S, o)), BaseIn(L))
        /\ O[o].active => ActiveIn(L, SplitIn(SharesIn(S, o)))

\* What a request has validated, and would find again.
ReadHolds(r, L, O, S) ==
    /\ r.pc = "template" =>
           /\ L[r.template] # NoTemplate
           /\ ~r.row.active => \A s \in S : s.template = r.template => ~O[s.offer].active
           /\ \A s \in S : s.template = r.template =>
                  Fundable(O[s.offer].amount, SplitIn(SharesIn(S, s.offer)),
                           [BaseIn(L) EXCEPT ![r.template] = r.row.base])
    /\ r.pc \in {"create", "offer", "delete", "insert"} => Fundable(r.row.amount, r.split, BaseIn(L))
    /\ r.pc \in {"create", "offer", "delete", "insert"} /\ r.row.active => ActiveIn(L, r.split)
    /\ r.pc = "offer" => r.split = SplitIn(SharesIn(S, r.offer))
    /\ r.pc = "insert" => r.gone = SharesIn(S, r.offer)

\* An offer that a request changes was made once, and it deletes shares of that only.
OfferMade(r, O) == /\ r.pc \in {"offer", "delete", "insert"} => O[r.offer] # NoOffer
                   /\ r.pc = "insert" => \A s \in r.gone : s.offer = r.offer

\* A template has one share of a package, and a package that was never made has none.
SharesApart(S) == \A s, u \in S : s.offer = u.offer /\ s.template = u.template => s = u
SharesBelong(S, O) == \A s \in S : O[s.offer] # NoOffer

\* What a user pays is enough for his bots.
PaidFor(b) ==
    b.whole => /\ MapThenSumSet(LAMBDA r : r.budget, b.bots) <= b.amount
               /\ ~b.torn => \A r \in b.bots : r.base <= r.budget

\* Shares that make up the whole of one package.
WholeSplit(split) == MapThenSumSet(LAMBDA t : split[t], DOMAIN split) = 100
WholeRows(X, o) == X \subseteq ShareRows /\ SharesApart(X) /\ SharesIn(X, o) = X /\ WholeSplit(SplitIn(X))

\* What a subscription has read; as long as nothing was written since, it is still so.
BuyerHolds(b, O, S, c) ==
    /\ b.pc = "package" => O[b.offer] # NoOffer /\ (~b.torn => b.amount = O[b.offer].amount)
    /\ b.pc = "shares" /\ b.whole =>
           /\ WholeRows(b.rows, b.offer)
           /\ ~b.torn => /\ ~c /\ b.rows = SharesIn(S, b.offer)
                         /\ O[b.offer] # NoOffer /\ b.amount = O[b.offer].amount
    /\ b.pc = "subscribed" => PaidFor(b)

RowsOK(L, O, S) ==
    /\ L \in [Library -> TemplateRows] /\ O \in [Offers -> OfferRows \cup {NoOffer}]
    /\ S \subseteq ShareRows /\ SharesApart(S) /\ SharesBelong(S, O)

CatalogueInv ==
    /\ RowsOK(library, offer, shares)
    /\ admin \in [Admins -> AdminRows]
    /\ \A a \in Admins : OfferMade(admin[a], offer)
    /\ \A a \in Admins : ~admin[a].stale => ReadHolds(admin[a], library, offer, shares)
    /\ clash \in BOOLEAN /\ (~clash => SaleableIn(library, offer, shares))
    /\ buyer \in [Buyers -> BuyerRows]
    /\ \A b \in Buyers : BuyerHolds(buyer[b], offer, shares, clash)

LEMMA SplitsAre ==
    ASSUME NEW split
    PROVE  split \in AnySplit <=> DOMAIN split \subseteq Library /\ split \in [DOMAIN split -> 1..100]
BY DEF AnySplit

LEMMA SplitOfShares ==
    ASSUME NEW S, S \subseteq ShareRows, SharesApart(S), NEW o
    PROVE  /\ SplitIn(SharesIn(S, o)) \in AnySplit
           /\ SharesIn(S, o) = Rows(o, SplitIn(SharesIn(S, o)))
<1> DEFINE X == SharesIn(S, o)
           split == SplitIn(X)
<1>1. \A s \in X : s \in ShareRows /\ s.offer = o /\ s = [offer |-> o, template |-> s.template, percent |-> s.percent]
  BY DEF SharesIn, ShareRows
<1>2. ASSUME NEW s \in X
      PROVE  s.template \in DOMAIN split /\ split[s.template] = s.percent
  <2>1. \A u \in X : u.template = s.template => u = s
    BY <1>1 DEF SharesIn, SharesApart
  <2>2. s.template \in {u.template : u \in X}
    OBVIOUS
  <2> HIDE DEF X
  <2> QED BY <2>1, <2>2 DEF SplitIn
<1>3. DOMAIN split = {s.template : s \in X}
  BY DEF SplitIn
<1>4. \A t \in DOMAIN split : \E s \in X : s.template = t /\ split[t] = s.percent
  BY <1>2, <1>3
<1>5. split = [t \in DOMAIN split |-> split[t]]
  BY DEF SplitIn
<1>6. split \in AnySplit
  <2>1. DOMAIN split \subseteq Library /\ \A t \in DOMAIN split : split[t] \in 1..100
    BY <1>1, <1>4 DEF ShareRows
  <2>2. split \in [DOMAIN split -> 1..100]
    BY <1>5, <2>1
  <2> HIDE DEF split
  <2> QED BY <2>1, <2>2, SplitsAre
<1> HIDE DEF X, split
<1>7. X = Rows(o, split)
  <2>1. \A s \in X : s \in Rows(o, split)
    BY <1>1, <1>2 DEF Rows
  <2>2. ASSUME NEW s \in Rows(o, split) PROVE s \in X
    <3>1. PICK t \in DOMAIN split : s = [offer |-> o, template |-> t, percent |-> split[t]]
      BY DEF Rows
    <3>2. PICK u \in X : u.template = t /\ split[t] = u.percent
      BY <1>4
    <3> QED BY <1>1, <3>1, <3>2
  <2> QED BY <2>1, <2>2
<1> QED BY <1>6, <1>7 DEF X, split

LEMMA RowsOfSplit ==
    ASSUME NEW split \in AnySplit, NEW o \in Offers
    PROVE  /\ Rows(o, split) \subseteq ShareRows /\ SharesApart(Rows(o, split))
           /\ SharesIn(Rows(o, split), o) = Rows(o, split)
           /\ SplitIn(Rows(o, split)) = split
<1>1. DOMAIN split \subseteq Library /\ split \in [DOMAIN split -> 1..100]
  BY SplitsAre
<1> DEFINE X == Rows(o, split)
<1>2. X \subseteq ShareRows /\ SharesApart(X) /\ SharesIn(X, o) = X
  BY <1>1 DEF Rows, ShareRows, SharesApart, SharesIn
<1>3. {s.template : s \in X} = DOMAIN split
  <2>1. \A t \in DOMAIN split : [offer |-> o, template |-> t, percent |-> split[t]] \in X
    BY DEF Rows
  <2>2. \A s \in X : s.template \in DOMAIN split
    BY DEF Rows
  <2>3. \A t \in DOMAIN split : \E s \in X : s.template = t
    BY <2>1
  <2> HIDE DEF X
  <2> QED BY <2>2, <2>3
<1>4. ASSUME NEW t \in DOMAIN split PROVE (CHOOSE s \in X : s.template = t).percent = split[t]
  <2>1. [offer |-> o, template |-> t, percent |-> split[t]] \in X
    BY DEF Rows
  <2>2. \A s \in X : s.template = t => s.percent = split[t]
    BY DEF Rows
  <2>3. \E s \in X : s.template = t
    BY <2>1
  <2> HIDE DEF X
  <2> QED BY <2>2, <2>3
<1> HIDE DEF X
<1>5. SplitIn(X) = [t \in DOMAIN split |-> split[t]]
  BY <1>3, <1>4 DEF SplitIn
<1>6. split = [t \in DOMAIN split |-> split[t]]
  BY <1>1
<1> QED BY <1>2, <1>5, <1>6 DEF X

\* Only the base orders of its templates matter to an allocation.
LEMMA FundableOf ==
    ASSUME NEW amount, NEW split, NEW base, NEW other, Fundable(amount, split, base),
           \A t \in DOMAIN split : other[t] = base[t]
    PROVE  Fundable(amount, split, other)
BY DEF Fundable

-----------------------------------------------------------------------------
\* What the bots of a subscription get.
Budgets(bots) == [r \in bots |-> r.budget]
LEMMA BudgetsAreSum ==
    ASSUME NEW S, IsFiniteSet(S)
    PROVE  MapThenSumSet(LAMBDA r : r.budget, S) = SumOf(Budgets(S), S)
<1> DEFINE Eq(g) == g = [s \in SUBSET S |-> IF s = {} THEN 0 ELSE (First(s)).budget + g[s \ {First(s)}]]
           total == MapThenSumSet(LAMBDA r : r.budget, S)
<1>1. total = (CHOOSE g : Eq(g))[S]
  BY DEF MapThenSumSet, MapThenFoldSet, First
<1>2. ASSUME NEW g PROVE Eq(g) <=> IsSum(g, Budgets(S), S)
  <2>1. \A s \in SUBSET S : s # {} => Budgets(S)[First(s)] = First(s).budget
    BY FirstIsTaken DEF Budgets
  <2>2. [s \in SUBSET S |-> IF s = {} THEN 0 ELSE (First(s)).budget + g[s \ {First(s)}]]
       = [s \in SUBSET S |-> IF s = {} THEN 0 ELSE Budgets(S)[First(s)] + g[s \ {First(s)}]]
    BY <2>1
  <2> QED BY <2>2 DEF IsSum
<1>3. PICK g : Eq(g) /\ total = g[S]
  <2>1. \E g : Eq(g)
    BY <1>2, SumExists
  <2> HIDE DEF Eq, total
  <2> QED BY <1>1, <2>1
<1>4. PICK h : IsSum(h, Budgets(S), S) /\ SumOf(Budgets(S), S) = h[S]
  BY SumOfIsSum
<1>5. IsSum(g, Budgets(S), S)
  BY <1>2, <1>3
<1> QED BY <1>3, <1>4, <1>5, SumsAgree

LEMMA PercentsAreSum ==
    ASSUME NEW split, IsFiniteSet(DOMAIN split)
    PROVE  MapThenSumSet(LAMBDA t : split[t], DOMAIN split) = SumOf(split, DOMAIN split)
BY DEF SumOf, IsSum, MapThenSumSet, MapThenFoldSet, First

\* Rounded down, shares of 100 percent are never more than the amount.
LEMMA AllocationsFit ==
    ASSUME NEW split \in AnySplit, NEW amount \in Nat, WholeSplit(split)
    PROVE  SumOf([t \in DOMAIN split |-> AllocatedBudget(amount, split[t])], DOMAIN split) <= amount
<1> DEFINE T == DOMAIN split
           budget == [t \in T |-> AllocatedBudget(amount, split[t])]
           scaled == [t \in T |-> 100 * budget[t]]
           part == [t \in T |-> amount * split[t]]
<1>1. IsFiniteSet(T) /\ \A t \in T : split[t] \in 1..100
  BY SplitsAre, CatalogueAssumption, FS_Subset
<1>2. SumOf(split, T) = 100
  BY <1>1, PercentsAreSum DEF WholeSplit
<1>3. ASSUME NEW t \in T
      PROVE  /\ budget[t] \in Int /\ part[t] \in Int /\ scaled[t] = 100 * budget[t]
             /\ scaled[t] <= part[t] /\ part[t] = amount * split[t]
  <2>1. PICK p : p = amount * split[t] /\ p \in Nat
    BY <1>1
  <2>2. budget[t] = p \div 100
    BY <2>1 DEF AllocatedBudget
  <2>3. p \div 100 \in Nat /\ 100 * (p \div 100) <= p
    BY <2>1
  <2> QED BY <2>1, <2>2, <2>3
<1>4. T = DOMAIN split /\ \A t \in T : split[t] \in Int /\ budget[t] \in Int /\ scaled[t] \in Int
  BY <1>1, <1>3
<1> HIDE DEF T, budget, scaled, part
<1>5. SumOf(scaled, T) <= SumOf(part, T)
  BY <1>1, <1>3, <1>4, SumAtMost
<1>6. SumOf(scaled, T) = 100 * SumOf(budget, T)
  BY <1>1, <1>3, <1>4, SumScaled
<1>7. SumOf(part, T) = amount * SumOf(split, T)
  BY <1>1, <1>3, <1>4, SumScaled
<1>8. SumOf(budget, T) \in Int
  BY <1>1, <1>4, SumInteger
<1>9. SumOf(budget, T) <= amount
  BY <1>2, <1>5, <1>6, <1>7, <1>8
<1> QED BY <1>9 DEF T, budget

\* A package pays for its bots, and each for its base order if that was looked at.
LEMMA BotsArePaid ==
    ASSUME NEW L \in [Library -> TemplateRows], NEW X, NEW o \in Offers, WholeRows(X, o),
           NEW amount \in Nat, NEW bots,
           bots = {[template |-> s.template, base |-> L[s.template].base,
                    budget |-> AllocatedBudget(amount, s.percent)] : s \in X}
    PROVE  /\ MapThenSumSet(LAMBDA r : r.budget, bots) <= amount
           /\ Fundable(amount, SplitIn(X), BaseIn(L)) => \A r \in bots : r.base <= r.budget
<1> DEFINE split == SplitIn(X)
           T == DOMAIN split
           g == [t \in T |-> [template |-> t, base |-> L[t].base, budget |-> AllocatedBudget(amount, split[t])]]
           f == Budgets(bots)
<1>1. split \in AnySplit /\ X = Rows(o, split)
  BY SplitOfShares DEF WholeRows
<1>2. IsFiniteSet(T) /\ T \subseteq Library /\ \A t \in T : split[t] \in 1..100
  BY <1>1, SplitsAre, CatalogueAssumption, FS_Subset
<1>3. WholeSplit(split)
  BY DEF WholeRows
<1> HIDE DEF split
<1>4. bots = {g[t] : t \in T}
  <2>1. \A s \in X : s.template \in T /\ s.percent = split[s.template]
    BY <1>1 DEF Rows
  <2>2. \A t \in T : \E s \in X : s.template = t
    <3>1. \A t \in T : [offer |-> o, template |-> t, percent |-> split[t]] \in X
      BY <1>1 DEF Rows
    <3> HIDE DEF T
    <3> QED BY <3>1
  <2> HIDE DEF T
  <2>3. bots = {[template |-> s.template, base |-> L[s.template].base,
                 budget |-> AllocatedBudget(amount, s.percent)] : s \in X}
    OBVIOUS
  <2>4. \A s \in X : g[s.template] = [template |-> s.template, base |-> L[s.template].base,
                                      budget |-> AllocatedBudget(amount, s.percent)]
    BY <2>1
  <2> HIDE DEF g
  <2>5. \A r \in bots : \E t \in T : r = g[t]
    BY <2>1, <2>3, <2>4
  <2>6. ASSUME NEW t \in T PROVE g[t] \in bots
    <3>1. PICK s \in X : s.template = t
      BY <2>2
    <3> QED BY <2>3, <2>4, <3>1
  <2> QED BY <2>5, <2>6
<1>5. ASSUME NEW t \in T PROVE AllocatedBudget(amount, split[t]) \in Nat
  <2>1. PICK p : p = amount * split[t] /\ p \in Nat
    BY <1>2
  <2>2. p \div 100 \in Nat
    BY <2>1
  <2> QED BY <2>1, <2>2 DEF AllocatedBudget
<1>6. Fundable(amount, split, BaseIn(L)) => \A r \in bots : r.base <= r.budget
  <2> SUFFICES ASSUME Fundable(amount, split, BaseIn(L)) PROVE \A r \in bots : r.base <= r.budget
    OBVIOUS
  <2>1. \A t \in T : BaseIn(L)[t] \in MinBaseOrder..AllocatedBudget(amount, split[t])
    BY DEF Fundable
  <2>2. \A t \in T : BaseIn(L)[t] = L[t].base /\ L[t].base \in Nat
    BY <1>2 DEF BaseIn, TemplateRows
  <2>3. \A t \in T : BaseIn(L)[t] <= AllocatedBudget(amount, split[t]) /\ BaseIn(L)[t] = L[t].base
    BY <1>5, <2>1, <2>2 DEF MinBaseOrder
  <2> QED BY <1>4, <2>3
<1>7. \A t \in T : g[t] \in bots /\ f[g[t]] = AllocatedBudget(amount, split[t]) /\ g[t].template = t
  BY <1>4 DEF Budgets
<1>8. IsFiniteSet(bots)
  <2>1. g \in Surjection(T, bots)
    <3>1. g = [t \in T |-> g[t]]
      OBVIOUS
    <3> HIDE DEF g, T
    <3> QED BY <1>4, <3>1 DEF Surjection
  <2> HIDE DEF g, T
  <2> QED BY <1>2, <2>1, FS_Surjection
<1>9. MapThenSumSet(LAMBDA r : r.budget, bots) = SumOf(f, bots)
  BY <1>8, BudgetsAreSum
<1>10. [t \in T |-> f[g[t]]] = [t \in T |-> AllocatedBudget(amount, split[t])]
  BY <1>7
<1> HIDE DEF T, g, f
<1>11. (\A t, u \in T : g[t] = g[u] => t = u) /\ \A t \in T : f[g[t]] \in Int
  BY <1>5, <1>7
<1>12. SumOf(f, bots) = SumOf([t \in T |-> f[g[t]]], T)
  BY <1>2, <1>4, <1>11, SumReindexed
<1>13. SumOf([t \in T |-> AllocatedBudget(amount, split[t])], T) <= amount
  BY <1>1, <1>3, AllocationsFit DEF T
<1>14. MapThenSumSet(LAMBDA r : r.budget, bots) <= amount
  BY <1>9, <1>10, <1>12, <1>13
<1> QED BY <1>6, <1>14 DEF split

-----------------------------------------------------------------------------
(* The operators of the specification, of the state. *)
LEMMA OfTheState ==
    /\ \A o : SharesOf(o) = SharesIn(shares, o) /\ SplitOf(o) = SplitIn(SharesIn(shares, o))
    /\ BaseOf = BaseIn(library)
    /\ \A split : AllActive(split) <=> ActiveIn(library, split)
BY DEF SharesOf, SharesIn, SplitOf, SplitIn, BaseOf, BaseIn, AllActive, ActiveIn

LEMMA OffersAreMade == \A r \in OfferRows : r # NoOffer /\ r.amount \in Nat
BY CatalogueAssumption DEF OfferRows, NoOffer

LEMMA CatalogueInvInit == CatalogueInit => CatalogueInv
<1> SUFFICES ASSUME CatalogueInit PROVE CatalogueInv
  OBVIOUS
<1>1. /\ NoTemplate \in TemplateRows /\ [base |-> MinBaseOrder, active |-> TRUE] \in TemplateRows
      /\ IdleAdmin \in AdminRows /\ IdleAdmin.pc = "idle" /\ ~NoOffer.active
  BY DEF NoTemplate, MinBaseOrder, TemplateRows, IdleAdmin, AdminRows, NoOffer
<1>2. RowsOK(library, offer, shares)
  BY <1>1 DEF CatalogueInit, RowsOK, SharesApart, SharesBelong
<1>3. admin \in [Admins -> AdminRows] /\ \A a \in Admins : admin[a] = IdleAdmin
  BY <1>1 DEF CatalogueInit
<1>4. \A a \in Admins : OfferMade(admin[a], offer) /\ ReadHolds(admin[a], library, offer, shares)
  BY <1>1, <1>3 DEF OfferMade, ReadHolds
<1>5. clash = FALSE /\ SaleableIn(library, offer, shares)
  BY <1>1 DEF CatalogueInit, SaleableIn
<1>6. buyer \in [Buyers -> BuyerRows] /\ \A b \in Buyers : BuyerHolds(buyer[b], offer, shares, clash)
  <2>1. IdleBuyer \in BuyerRows /\ IdleBuyer.pc = "idle"
    BY DEF IdleBuyer, BuyerRows
  <2> QED BY <2>1 DEF CatalogueInit, BuyerHolds
<1> QED BY <1>2, <1>3, <1>4, <1>5, <1>6 DEF CatalogueInv

\* A request begins, goes on or is refused; nothing is written.
LEMMA AdminGoes ==
    ASSUME CatalogueInv, NEW a \in Admins, NEW r \in AdminRows, admin' = [admin EXCEPT ![a] = r],
           OfferMade(r, offer), ~r.stale => ReadHolds(r, library, offer, shares),
           UNCHANGED <<library, offer, shares, buyer, clash>>
    PROVE  CatalogueInv'
<1>1. admin' \in [Admins -> AdminRows] /\ admin'[a] = r /\ \A b \in Admins : b # a => admin'[b] = admin[b]
  BY DEF CatalogueInv
<1>2. \A b \in Admins : OfferMade(admin'[b], offer)
  BY <1>1 DEF CatalogueInv
<1>3. \A b \in Admins : ~admin'[b].stale => ReadHolds(admin'[b], library, offer, shares)
  BY <1>1 DEF CatalogueInv
<1> QED BY <1>1, <1>2, <1>3 DEF CatalogueInv

\* Something is written: whoever has read is told by nobody, and goes on.
LEMMA AdminWrites ==
    ASSUME CatalogueInv, NEW a \in Admins, Written(a), RowsOK(library, offer, shares)',
           \A o \in Offers : offer[o] # NoOffer => offer'[o] # NoOffer,
           ~clash /\ ~admin[a].stale => SaleableIn(library', offer', shares')
    PROVE  CatalogueInv'
<1>1. /\ admin' = [b \in Admins |-> IF b = a THEN IdleAdmin ELSE [admin[b] EXCEPT !.stale = TRUE]]
      /\ clash' = (clash \/ admin[a].stale)
  BY DEF Written
<1>2. admin[a].stale \in BOOLEAN
  BY DEF CatalogueInv, AdminRows
<1>3. ASSUME NEW b \in Admins
      PROVE  /\ admin'[b] \in AdminRows /\ OfferMade(admin'[b], offer')
             /\ ~admin'[b].stale => ReadHolds(admin'[b], library', offer', shares')
  <2>1. CASE b = a
    <3>1. admin'[b] = IdleAdmin
      BY <1>1, <2>1
    <3> QED BY <3>1 DEF IdleAdmin, AdminRows, OfferMade, ReadHolds
  <2>2. CASE b # a
    <3>1. PICK r : r = admin[b] /\ r \in AdminRows /\ OfferMade(r, offer)
      BY DEF CatalogueInv
    <3>2. PICK s : s = [r EXCEPT !.stale = TRUE]
      OBVIOUS
    <3>3. admin'[b] = s
      BY <1>1, <2>2, <3>1, <3>2
    <3>4. s \in AdminRows /\ s.stale /\ s.pc = r.pc
          /\ (r.pc \in {"offer", "delete", "insert"} => s.offer = r.offer /\ r.offer \in Offers /\ s.gone = r.gone)
      BY <3>1, <3>2 DEF AdminRows
    <3> QED BY <3>1, <3>3, <3>4 DEF OfferMade
  <2> QED BY <2>1, <2>2
<1>4. admin' \in [Admins -> AdminRows]
  BY <1>1, <1>3
<1>5. clash' \in BOOLEAN /\ (~clash' => SaleableIn(library', offer', shares'))
  BY <1>1, <1>2 DEF CatalogueInv
<1>6. ASSUME NEW b \in Buyers
      PROVE  buyer'[b] \in BuyerRows /\ BuyerHolds(buyer'[b], offer', shares', clash')
  <2>1. PICK r : r = buyer[b] /\ r \in BuyerRows /\ BuyerHolds(r, offer, shares, clash)
    BY DEF CatalogueInv
  <2>2. PICK s : s = [r EXCEPT !.torn = TRUE]
    OBVIOUS
  <2>3. buyer'[b] = IF HalfRead(r) THEN s ELSE r
    BY <2>1, <2>2 DEF Written
  <2>4. CASE r.pc = "package"
    <3>1. /\ s \in BuyerRows /\ s.pc = "package" /\ s.offer = r.offer /\ r.offer \in Offers
          /\ s.amount = r.amount /\ s.torn
      BY <2>1, <2>2, <2>4 DEF BuyerRows
    <3>2. buyer'[b] = s /\ offer[r.offer] # NoOffer
      BY <2>1, <2>3, <2>4 DEF HalfRead, BuyerHolds
    <3> QED BY <3>1, <3>2 DEF BuyerHolds
  <2>5. CASE r.pc = "shares"
    <3>1. /\ s \in BuyerRows /\ s.pc = "shares" /\ s.offer = r.offer /\ s.rows = r.rows
          /\ s.whole = r.whole /\ s.torn
      BY <2>1, <2>2, <2>5 DEF BuyerRows
    <3>2. buyer'[b] = s
      BY <2>3, <2>5 DEF HalfRead
    <3> QED BY <2>1, <2>5, <3>1, <3>2 DEF BuyerHolds
  <2>6. CASE r.pc \notin {"package", "shares"}
    BY <2>1, <2>3, <2>6 DEF HalfRead, BuyerHolds
  <2> QED BY <2>4, <2>5, <2>6
<1>7. buyer' \in [Buyers -> BuyerRows] /\ \A b \in Buyers : BuyerHolds(buyer'[b], offer', shares', clash')
  BY <1>6 DEF Written
<1> QED BY <1>3, <1>4, <1>5, <1>7 DEF CatalogueInv

LEMMA StartMoves ==
    ASSUME CatalogueInv, NEW a \in Admins, NEW r \in AdminRows, StartAdmin(a, r),
           OfferMade(r, offer), ReadHolds(r, library, offer, shares),
           UNCHANGED <<library, offer, shares, buyer, clash>>
    PROVE  CatalogueInv'
BY AdminGoes DEF StartAdmin

LEMMA ReadTemplateKeeps ==
    ASSUME CatalogueInv, NEW a \in Admins, NEW t \in Library, NEW base \in BaseOrders, NEW active \in BOOLEAN,
           ReadTemplate(a, t, base, active)
    PROVE  CatalogueInv'
<1> DEFINE r == [pc |-> "template", template |-> t, row |-> [base |-> base, active |-> active], stale |-> FALSE]
<1>1. r \in AdminRows /\ r.pc = "template" /\ r.template = t /\ r.row.base = base /\ r.row.active = active
  BY CatalogueAssumption DEF AdminRows, TemplateRows
<1>2. /\ library[t] # NoTemplate
      /\ (~active => \A s \in shares : s.template = t => ~offer[s.offer].active)
      /\ \A s \in shares : s.template = t =>
             Fundable(offer[s.offer].amount, SplitIn(SharesIn(shares, s.offer)), [BaseIn(library) EXCEPT ![t] = base])
  BY OfTheState DEF ReadTemplate
<1>3. StartAdmin(a, r) /\ UNCHANGED <<library, offer, shares, buyer, clash>>
  BY DEF ReadTemplate
<1> HIDE DEF r
<1>4. ReadHolds(r, library, offer, shares) /\ OfferMade(r, offer)
  BY <1>1, <1>2 DEF ReadHolds, OfferMade
<1> QED BY <1>1, <1>3, <1>4, StartMoves

LEMMA ReadForOfferKeeps ==
    ASSUME CatalogueInv, NEW a \in Admins, NEW o \in Offers, NEW row \in OfferRows, NEW split \in Splits,
           ReadForOffer(a, o, row, split)
    PROVE  CatalogueInv'
<1> DEFINE r == [pc |-> "create", offer |-> o, row |-> row, split |-> split, stale |-> FALSE]
<1>1. split \in AnySplit
  BY CatalogueAssumption, SplitsAre
<1>2. r \in AdminRows /\ r.pc = "create" /\ r.row = row /\ r.split = split
  BY <1>1 DEF AdminRows
<1>3. ActiveIn(library, split) /\ Fundable(row.amount, split, BaseIn(library))
  BY OfTheState DEF ReadForOffer
<1>4. StartAdmin(a, r) /\ UNCHANGED <<library, offer, shares, buyer, clash>>
  BY DEF ReadForOffer
<1> HIDE DEF r
<1>5. ReadHolds(r, library, offer, shares) /\ OfferMade(r, offer)
  BY <1>2, <1>3 DEF ReadHolds, OfferMade
<1> QED BY <1>2, <1>4, <1>5, StartMoves

LEMMA ReadOfferKeeps ==
    ASSUME CatalogueInv, NEW a \in Admins, NEW o \in Offers, NEW row \in OfferRows,
           NEW replace \in BOOLEAN, NEW split, replace => split \in Splits,
           ReadOffer(a, o, row, replace, split)
    PROVE  CatalogueInv'
<1> DEFINE kept == IF replace THEN split ELSE SplitOf(o)
           r == [pc |-> IF replace THEN "delete" ELSE "offer", offer |-> o, row |-> row,
                 split |-> kept, gone |-> {}, stale |-> FALSE]
<1>1. kept \in AnySplit /\ (~replace => kept = SplitIn(SharesIn(shares, o)))
  <2>1. CASE replace
    BY <2>1, CatalogueAssumption, SplitsAre
  <2>2. CASE ~replace
    BY <2>2, OfTheState, SplitOfShares DEF CatalogueInv, RowsOK
  <2> QED BY <2>1, <2>2
<1>2. Fundable(row.amount, kept, BaseIn(library)) /\ (row.active => ActiveIn(library, kept)) /\ offer[o] # NoOffer
  BY OfTheState DEF ReadOffer, MayActivate
<1>3. StartAdmin(a, r) /\ UNCHANGED <<library, offer, shares, buyer, clash>>
  BY DEF ReadOffer
<1> HIDE DEF kept
<1>4. /\ r \in AdminRows /\ r.row = row /\ r.split = kept /\ r.offer = o
      /\ r.pc = IF replace THEN "delete" ELSE "offer"
  BY <1>1 DEF AdminRows
<1> HIDE DEF r
<1>5. ReadHolds(r, library, offer, shares) /\ OfferMade(r, offer)
  BY <1>1, <1>2, <1>4 DEF ReadHolds, OfferMade
<1> QED BY <1>3, <1>4, <1>5, StartMoves

\* A template that nothing uses becomes one that may be used.
LEMMA CreateTemplateKeeps ==
    ASSUME CatalogueInv, NEW a \in Admins, NEW t \in Library, NEW base \in BaseOrders, NEW active \in BOOLEAN,
           CreateTemplate(a, t, base, active)
    PROVE  CatalogueInv'
<1>1. /\ library[t] = NoTemplate /\ library' = [library EXCEPT ![t] = [base |-> base, active |-> active]]
      /\ UNCHANGED <<offer, shares, buyer, clash>> /\ admin' = [admin EXCEPT ![a] = IdleAdmin]
  BY DEF CreateTemplate, StartAdmin
<1>2. [base |-> base, active |-> active] \in TemplateRows /\ library \in [Library -> TemplateRows]
  BY CatalogueAssumption DEF TemplateRows, CatalogueInv, RowsOK
<1>3. library' \in [Library -> TemplateRows] /\ \A u \in Library : u # t => library'[u] = library[u]
  BY <1>1, <1>2
<1>4. RowsOK(library', offer', shares')
  BY <1>1, <1>3 DEF CatalogueInv, RowsOK
<1>5. ASSUME NEW amount, NEW split \in AnySplit, Fundable(amount, split, BaseIn(library))
      PROVE  /\ t \notin DOMAIN split /\ Fundable(amount, split, BaseIn(library'))
             /\ ActiveIn(library, split) => ActiveIn(library', split)
  <2>1. t \notin DOMAIN split
    <3> SUFFICES ASSUME t \in DOMAIN split PROVE FALSE
      OBVIOUS
    <3>1. BaseIn(library)[t] \in MinBaseOrder..AllocatedBudget(amount, split[t])
      BY <1>5 DEF Fundable
    <3>2. BaseIn(library)[t] = 0
      BY <1>1 DEF BaseIn, NoTemplate
    <3> QED BY <3>1, <3>2 DEF MinBaseOrder
  <2>2. \A u \in DOMAIN split : BaseIn(library')[u] = BaseIn(library)[u] /\ library'[u] = library[u]
    BY <1>3, <2>1, SplitsAre DEF BaseIn
  <2>3. Fundable(amount, split, BaseIn(library'))
    BY <1>5, <2>2, FundableOf
  <2> QED BY <2>1, <2>2, <2>3 DEF ActiveIn
<1>6. ~clash' => SaleableIn(library', offer', shares')
  <2> SUFFICES ASSUME ~clash, NEW o \in Offers
               PROVE  /\ offer[o] # NoOffer =>
                             Fundable(offer[o].amount, SplitIn(SharesIn(shares, o)), BaseIn(library'))
                      /\ offer[o].active => ActiveIn(library', SplitIn(SharesIn(shares, o)))
    BY <1>1 DEF SaleableIn
  <2>1. PICK split : split = SplitIn(SharesIn(shares, o)) /\ split \in AnySplit
    BY SplitOfShares DEF CatalogueInv, RowsOK
  <2>2. /\ offer[o] # NoOffer => Fundable(offer[o].amount, split, BaseIn(library))
        /\ offer[o].active => ActiveIn(library, split)
    BY <2>1 DEF CatalogueInv, SaleableIn
  <2>3. offer[o].active => offer[o] # NoOffer
    BY DEF NoOffer
  <2> QED BY <1>5, <2>1, <2>2, <2>3
<1>7. ASSUME NEW b \in Admins, ReadHolds(admin[b], library, offer, shares)
      PROVE  ReadHolds(admin[b], library', offer', shares')
  <2>1. PICK r : r = admin[b] /\ r \in AdminRows /\ ReadHolds(r, library, offer, shares)
    BY <1>7 DEF CatalogueInv
  <2>2. CASE r.pc = "template"
    <3>1. library[r.template] # NoTemplate /\ r.template \in Library /\ r.template # t
      BY <1>1, <2>1, <2>2 DEF ReadHolds, AdminRows
    <3>2. library'[r.template] # NoTemplate
      BY <1>3, <3>1
    <3>3. ASSUME NEW s \in shares, s.template = r.template
          PROVE  Fundable(offer[s.offer].amount, SplitIn(SharesIn(shares, s.offer)),
                          [BaseIn(library') EXCEPT ![r.template] = r.row.base])
      <4> DEFINE amount == offer[s.offer].amount
                 split == SplitIn(SharesIn(shares, s.offer))
                 old == [BaseIn(library) EXCEPT ![r.template] = r.row.base]
                 new == [BaseIn(library') EXCEPT ![r.template] = r.row.base]
      <4>1. Fundable(amount, split, old)
        BY <2>1, <2>2, <3>3 DEF ReadHolds
      <4>2. split \in AnySplit
        BY SplitOfShares DEF CatalogueInv, RowsOK
      <4> HIDE DEF split, amount
      <4>3. DOMAIN split \subseteq Library
        BY <4>2, SplitsAre
      <4>4. t \notin DOMAIN split
        <5> SUFFICES ASSUME t \in DOMAIN split PROVE FALSE
          OBVIOUS
        <5>1. old[t] \in MinBaseOrder..AllocatedBudget(amount, split[t])
          BY <4>1 DEF Fundable
        <5>2. old[t] = 0
          BY <1>1, <3>1 DEF BaseIn, NoTemplate
        <5> QED BY <5>1, <5>2 DEF MinBaseOrder
      <4>5. \A u \in DOMAIN split : new[u] = old[u]
        BY <1>3, <4>3, <4>4 DEF BaseIn
      <4> HIDE DEF new, old
      <4>6. Fundable(amount, split, new)
        BY <4>1, <4>5, FundableOf
      <4> QED BY <4>6 DEF new, amount, split
    <3>4. ReadHolds(r, library', offer', shares')
      BY <1>1, <2>1, <2>2, <3>2, <3>3 DEF ReadHolds
    <3> QED BY <2>1, <3>4
  <2>3. CASE r.pc \in {"create", "offer", "delete", "insert"}
    <3>1. r.split \in AnySplit
      BY <2>1, <2>3 DEF AdminRows
    <3>2. Fundable(r.row.amount, r.split, BaseIn(library')) /\ (r.row.active => ActiveIn(library', r.split))
      BY <1>5, <2>1, <2>3, <3>1 DEF ReadHolds
    <3>3. ReadHolds(r, library', offer', shares')
      BY <1>1, <2>1, <2>3, <3>2 DEF ReadHolds
    <3> QED BY <2>1, <3>3
  <2>4. CASE r.pc = "idle"
    <3>1. ReadHolds(r, library', offer', shares')
      BY <2>4 DEF ReadHolds
    <3> QED BY <2>1, <3>1
  <2> QED BY <2>1, <2>2, <2>3, <2>4 DEF AdminRows
<1>8. IdleAdmin \in AdminRows /\ OfferMade(IdleAdmin, offer') /\ ReadHolds(IdleAdmin, library', offer', shares')
  BY DEF IdleAdmin, AdminRows, OfferMade, ReadHolds
<1>9. admin' \in [Admins -> AdminRows] /\ admin'[a] = IdleAdmin /\ \A b \in Admins : b # a => admin'[b] = admin[b]
  BY <1>1, <1>8 DEF CatalogueInv
<1>10. \A b \in Admins : /\ OfferMade(admin'[b], offer')
                         /\ ~admin'[b].stale => ReadHolds(admin'[b], library', offer', shares')
  BY <1>1, <1>7, <1>8, <1>9 DEF CatalogueInv
<1> QED BY <1>1, <1>4, <1>6, <1>9, <1>10 DEF CatalogueInv

LEMMA WriteTemplateKeeps ==
    ASSUME CatalogueInv, NEW a \in Admins, WriteTemplate(a)
    PROVE  CatalogueInv'
<1>1. PICK r : r = admin[a]
  OBVIOUS
<1>2. /\ r.pc = "template" /\ r.template \in Library /\ r.row \in TemplateRows
      /\ library' = [library EXCEPT ![r.template] = r.row] /\ Written(a)
      /\ UNCHANGED <<offer, shares>> /\ library \in [Library -> TemplateRows]
  BY <1>1 DEF CatalogueInv, AdminRows, WriteTemplate, RowsOK
<1>3. library' \in [Library -> TemplateRows] /\ library'[r.template] = r.row
      /\ \A u \in Library : u # r.template => library'[u] = library[u]
  BY <1>2
<1>4. RowsOK(library', offer', shares')
  BY <1>2, <1>3 DEF CatalogueInv, RowsOK
<1>5. ASSUME ~clash, ~r.stale, NEW o \in Offers, offer[o] # NoOffer
      PROVE  /\ Fundable(offer[o].amount, SplitIn(SharesIn(shares, o)), BaseIn(library'))
             /\ offer[o].active => ActiveIn(library', SplitIn(SharesIn(shares, o)))
  <2>1. PICK split : split = SplitIn(SharesIn(shares, o))
    OBVIOUS
  <2>2. split \in AnySplit /\ SharesIn(shares, o) = Rows(o, split)
    BY <2>1, SplitOfShares DEF CatalogueInv, RowsOK
  <2>3. DOMAIN split \subseteq Library
    BY <2>2, SplitsAre
  <2>4. /\ ReadHolds(r, library, offer, shares) /\ Fundable(offer[o].amount, split, BaseIn(library))
        /\ offer[o].active => ActiveIn(library, split)
    BY <1>1, <1>5, <2>1 DEF CatalogueInv, SaleableIn
  <2>5. CASE r.template \in DOMAIN split
    <3>1. PICK s \in shares : s.offer = o /\ s.template = r.template
      <4>1. [offer |-> o, template |-> r.template, percent |-> split[r.template]] \in SharesIn(shares, o)
        BY <2>2, <2>5 DEF Rows
      <4> QED BY <4>1 DEF SharesIn
    <3>2. /\ Fundable(offer[o].amount, split, [BaseIn(library) EXCEPT ![r.template] = r.row.base])
          /\ offer[o].active => r.row.active
      BY <1>2, <1>5, <2>1, <2>4, <3>1 DEF ReadHolds
    <3>3. \A u \in DOMAIN split : BaseIn(library')[u] = [BaseIn(library) EXCEPT ![r.template] = r.row.base][u]
      BY <1>3, <2>3 DEF BaseIn
    <3>4. offer[o].active => ActiveIn(library', split)
      BY <1>3, <2>3, <2>4, <3>2 DEF ActiveIn
    <3>5. PICK new : new = [BaseIn(library) EXCEPT ![r.template] = r.row.base]
      OBVIOUS
    <3> QED BY <2>1, <3>2, <3>3, <3>4, <3>5, FundableOf
  <2>6. CASE r.template \notin DOMAIN split
    <3>1. \A u \in DOMAIN split : BaseIn(library')[u] = BaseIn(library)[u] /\ library'[u] = library[u]
      BY <1>3, <2>3, <2>6 DEF BaseIn
    <3> QED BY <2>1, <2>4, <3>1, FundableOf DEF ActiveIn
  <2> QED BY <2>5, <2>6
<1>6. ~clash /\ ~admin[a].stale => SaleableIn(library', offer', shares')
  <2>1. ~NoOffer.active
    BY DEF NoOffer
  <2> QED BY <1>1, <1>2, <1>5, <2>1 DEF SaleableIn
<1> QED BY <1>2, <1>4, <1>6, AdminWrites

\* A package gets a row and, of its shares, those of one allocation.
LEMMA OfferWritten ==
    ASSUME CatalogueInv, NEW a \in Admins, NEW o \in Offers, NEW row \in OfferRows, Written(a),
           UNCHANGED library, offer' = [offer EXCEPT ![o] = row],
           shares' \subseteq ShareRows, SharesApart(shares'),
           \A p \in Offers : p # o => SharesIn(shares', p) = SharesIn(shares, p),
           ~clash /\ ~admin[a].stale =>
               /\ Fundable(row.amount, SplitIn(SharesIn(shares', o)), BaseIn(library))
               /\ row.active => ActiveIn(library, SplitIn(SharesIn(shares', o)))
    PROVE  CatalogueInv'
<1>1. /\ offer' \in [Offers -> OfferRows \cup {NoOffer}] /\ offer'[o] = row /\ row # NoOffer
      /\ \A p \in Offers : p # o => offer'[p] = offer[p]
  BY OffersAreMade DEF CatalogueInv, RowsOK
<1>2. SharesBelong(shares', offer')
  <2> SUFFICES ASSUME NEW s \in shares' PROVE offer'[s.offer] # NoOffer
    BY DEF SharesBelong
  <2>1. s.offer \in Offers /\ s \in SharesIn(shares', s.offer)
    BY DEF ShareRows, SharesIn
  <2>2. s.offer # o => s \in shares
    BY <2>1 DEF SharesIn
  <2> QED BY <1>1, <2>1, <2>2 DEF CatalogueInv, RowsOK, SharesBelong
<1>3. RowsOK(library', offer', shares')
  BY <1>1, <1>2 DEF CatalogueInv, RowsOK
<1>4. ~clash /\ ~admin[a].stale => SaleableIn(library', offer', shares')
  BY <1>1 DEF CatalogueInv, SaleableIn
<1>5. \A p \in Offers : offer[p] # NoOffer => offer'[p] # NoOffer
  BY <1>1
<1> QED BY <1>3, <1>4, <1>5, AdminWrites

LEMMA CreateOfferKeeps ==
    ASSUME CatalogueInv, NEW a \in Admins, CreateOffer(a)
    PROVE  CatalogueInv'
<1>1. PICK r : r = admin[a]
  OBVIOUS
<1>2. /\ r.pc = "create" /\ r.offer \in Offers /\ r.row \in OfferRows /\ r.split \in AnySplit
      /\ UNCHANGED library
  BY <1>1 DEF CatalogueInv, AdminRows, CreateOffer
<1>3. CASE offer[r.offer] = NoOffer
  <2>1. /\ offer' = [offer EXCEPT ![r.offer] = r.row] /\ shares' = shares \cup Rows(r.offer, r.split)
        /\ Written(a)
    BY <1>1, <1>3 DEF CreateOffer
  <2>2. /\ Rows(r.offer, r.split) \subseteq ShareRows /\ SharesApart(Rows(r.offer, r.split))
        /\ SharesIn(Rows(r.offer, r.split), r.offer) = Rows(r.offer, r.split)
        /\ SplitIn(Rows(r.offer, r.split)) = r.split
    BY <1>2, RowsOfSplit
  <2>3. SharesIn(shares, r.offer) = {}
    BY <1>3 DEF CatalogueInv, RowsOK, SharesBelong, SharesIn
  <2>4. /\ SharesIn(shares', r.offer) = Rows(r.offer, r.split)
        /\ \A p \in Offers : p # r.offer => SharesIn(shares', p) = SharesIn(shares, p)
    BY <2>1, <2>2, <2>3 DEF SharesIn
  <2>5. shares' \subseteq ShareRows /\ SharesApart(shares')
    BY <2>1, <2>2, <2>3 DEF CatalogueInv, RowsOK, SharesApart, SharesIn
  <2>6. ~r.stale => /\ Fundable(r.row.amount, r.split, BaseIn(library))
                    /\ r.row.active => ActiveIn(library, r.split)
    BY <1>1, <1>2 DEF CatalogueInv, ReadHolds
  <2> QED BY <1>1, <1>2, <2>1, <2>2, <2>4, <2>5, <2>6, OfferWritten
<1>4. CASE offer[r.offer] # NoOffer
  <2>1. admin' = [admin EXCEPT ![a] = IdleAdmin] /\ UNCHANGED <<library, offer, shares, buyer, clash>>
    BY <1>1, <1>4 DEF CreateOffer
  <2>2. IdleAdmin \in AdminRows /\ OfferMade(IdleAdmin, offer) /\ ReadHolds(IdleAdmin, library, offer, shares)
    BY DEF IdleAdmin, AdminRows, OfferMade, ReadHolds
  <2> QED BY <2>1, <2>2, AdminGoes
<1> QED BY <1>3, <1>4

LEMMA DeleteSharesKeeps ==
    ASSUME CatalogueInv, NEW a \in Admins, DeleteShares(a)
    PROVE  CatalogueInv'
<1>1. PICK r : r = admin[a] /\ r \in AdminRows /\ OfferMade(r, offer) /\ (~r.stale => ReadHolds(r, library, offer, shares))
  BY DEF CatalogueInv
<1>2. r.pc = "delete" /\ UNCHANGED <<library, offer, shares, buyer, clash>>
  BY <1>1 DEF DeleteShares
<1>3. PICK gone : gone = SharesIn(shares, r.offer)
  OBVIOUS
<1>4. PICK w : w = [r EXCEPT !.pc = "insert"]
  OBVIOUS
<1>5. PICK s : s = [w EXCEPT !.gone = gone]
  OBVIOUS
<1>6. admin' = [admin EXCEPT ![a] = s]
  BY <1>1, <1>3, <1>4, <1>5, OfTheState DEF DeleteShares
<1>7. gone \subseteq ShareRows
  BY <1>3 DEF CatalogueInv, RowsOK, SharesIn
<1>8. /\ r \in [pc : {"offer", "delete", "insert"}, offer : Offers, row : OfferRows, split : AnySplit,
                gone : SUBSET ShareRows, stale : BOOLEAN]
  BY <1>1, <1>2 DEF AdminRows
<1>9. /\ w \in [pc : {"offer", "delete", "insert"}, offer : Offers, row : OfferRows, split : AnySplit,
                gone : SUBSET ShareRows, stale : BOOLEAN]
      /\ w.pc = "insert" /\ w.offer = r.offer /\ w.row = r.row /\ w.split = r.split /\ w.stale = r.stale
  BY <1>4, <1>8
<1>10. /\ s \in [pc : {"offer", "delete", "insert"}, offer : Offers, row : OfferRows, split : AnySplit,
                 gone : SUBSET ShareRows, stale : BOOLEAN]
       /\ s.pc = "insert" /\ s.offer = r.offer /\ s.row = r.row /\ s.split = r.split /\ s.stale = r.stale
       /\ s.gone = gone
  BY <1>5, <1>7, <1>9
<1>11. \A u \in gone : u.offer = r.offer
  BY <1>3 DEF SharesIn
<1>12. s \in AdminRows
  BY <1>10 DEF AdminRows
<1>13. OfferMade(s, offer) /\ (~s.stale => ReadHolds(s, library, offer, shares))
  BY <1>1, <1>2, <1>3, <1>10, <1>11 DEF OfferMade, ReadHolds
<1> QED BY <1>2, <1>6, <1>12, <1>13, AdminGoes

LEMMA WriteOfferKeeps ==
    ASSUME CatalogueInv, NEW a \in Admins, WriteOffer(a)
    PROVE  CatalogueInv'
<1>1. PICK r : r = admin[a]
  OBVIOUS
<1> DEFINE left == {s \in SharesIn(shares, r.offer) : s \notin r.gone}
           taken == \E s \in left : s.template \in DOMAIN r.split
<1>2. /\ r.pc \in {"offer", "insert"} /\ r.offer \in Offers /\ r.row \in OfferRows /\ r.split \in AnySplit
      /\ (~r.stale => ReadHolds(r, library, offer, shares))
      /\ UNCHANGED library
  BY <1>1 DEF CatalogueInv, AdminRows, WriteOffer
<1>3. IF r.pc = "insert" /\ taken
      THEN admin' = [admin EXCEPT ![a] = IdleAdmin] /\ UNCHANGED <<offer, shares, buyer, clash>>
      ELSE /\ offer' = [offer EXCEPT ![r.offer] = r.row]
           /\ shares' = IF r.pc = "offer" THEN shares ELSE (shares \ r.gone) \cup Rows(r.offer, r.split)
           /\ Written(a)
  BY <1>1, OfTheState DEF WriteOffer
<1>4. shares \subseteq ShareRows /\ SharesApart(shares)
  BY DEF CatalogueInv, RowsOK
<1>5. CASE r.pc = "insert" /\ taken
  <2>1. IdleAdmin \in AdminRows /\ OfferMade(IdleAdmin, offer) /\ ReadHolds(IdleAdmin, library, offer, shares)
    BY DEF IdleAdmin, AdminRows, OfferMade, ReadHolds
  <2> QED BY <1>2, <1>3, <1>5, <2>1, AdminGoes
<1>6. CASE r.pc = "offer"
  <2>1. offer' = [offer EXCEPT ![r.offer] = r.row] /\ shares' = shares /\ Written(a)
    BY <1>3, <1>6
  <2>2. ~r.stale =>
            /\ Fundable(r.row.amount, SplitIn(SharesIn(shares, r.offer)), BaseIn(library))
            /\ r.row.active => ActiveIn(library, SplitIn(SharesIn(shares, r.offer)))
    BY <1>2, <1>6 DEF ReadHolds
  <2> QED BY <1>1, <1>2, <1>4, <2>1, <2>2, OfferWritten
<1>7. CASE r.pc = "insert" /\ ~taken
  <2> DEFINE X == Rows(r.offer, r.split)
  <2>1. offer' = [offer EXCEPT ![r.offer] = r.row] /\ shares' = (shares \ r.gone) \cup X /\ Written(a)
    BY <1>3, <1>7
  <2>2. X \subseteq ShareRows /\ SharesApart(X) /\ SharesIn(X, r.offer) = X /\ SplitIn(X) = r.split
    BY <1>2, RowsOfSplit
  <2>3. \A s \in X : s.template \in DOMAIN r.split /\ s.offer = r.offer
    BY DEF Rows
  <2> HIDE DEF X
  <2>4. shares' \subseteq ShareRows /\ SharesApart(shares')
    BY <1>4, <1>7, <2>1, <2>2, <2>3 DEF SharesApart, SharesIn
  <2>5. \A s \in r.gone : s.offer = r.offer
    BY <1>1, <1>7 DEF CatalogueInv, OfferMade
  <2>6. \A p \in Offers : p # r.offer => SharesIn(shares', p) = SharesIn(shares, p)
    BY <2>1, <2>3, <2>5 DEF SharesIn
  <2>7. ~r.stale =>
            /\ Fundable(r.row.amount, SplitIn(SharesIn(shares', r.offer)), BaseIn(library))
            /\ r.row.active => ActiveIn(library, SplitIn(SharesIn(shares', r.offer)))
    <3> SUFFICES ASSUME ~r.stale
                 PROVE  /\ Fundable(r.row.amount, SplitIn(SharesIn(shares', r.offer)), BaseIn(library))
                        /\ r.row.active => ActiveIn(library, SplitIn(SharesIn(shares', r.offer)))
      OBVIOUS
    <3>1. /\ r.gone = SharesIn(shares, r.offer)
          /\ Fundable(r.row.amount, r.split, BaseIn(library)) /\ (r.row.active => ActiveIn(library, r.split))
      BY <1>2, <1>7 DEF ReadHolds
    <3>2. SharesIn(shares', r.offer) = X
      BY <2>1, <2>2, <3>1 DEF SharesIn
    <3> QED BY <2>2, <3>1, <3>2
  <2> QED BY <1>1, <1>2, <2>1, <2>4, <2>6, <2>7, OfferWritten
<1> QED BY <1>2, <1>5, <1>6, <1>7

\* A subscription goes on; nothing is written.
LEMMA BuyerGoes ==
    ASSUME CatalogueInv, NEW b \in Buyers, NEW r \in BuyerRows, buyer' = [buyer EXCEPT ![b] = r],
           BuyerHolds(r, offer, shares, clash), UNCHANGED <<library, offer, shares, admin, clash>>
    PROVE  CatalogueInv'
<1>1. buyer' \in [Buyers -> BuyerRows] /\ buyer'[b] = r /\ \A c \in Buyers : c # b => buyer'[c] = buyer[c]
  BY DEF CatalogueInv
<1>2. \A c \in Buyers : BuyerHolds(buyer'[c], offer, shares, clash)
  BY <1>1 DEF CatalogueInv
<1> QED BY <1>1, <1>2 DEF CatalogueInv

LEMMA IdleBuyerHolds == IdleBuyer \in BuyerRows /\ BuyerHolds(IdleBuyer, offer, shares, clash)
BY DEF IdleBuyer, BuyerRows, BuyerHolds

LEMMA ReadPackageKeeps ==
    ASSUME CatalogueInv, NEW b \in Buyers, NEW o \in Offers, ReadPackage(b, o)
    PROVE  CatalogueInv'
<1>1. PICK r : r = [pc |-> "package", offer |-> o, amount |-> offer[o].amount, torn |-> FALSE]
  OBVIOUS
<1>2. /\ offer[o].active /\ buyer' = [buyer EXCEPT ![b] = r]
      /\ UNCHANGED <<library, offer, shares, admin, clash>>
  BY <1>1 DEF ReadPackage
<1>3. offer[o] # NoOffer /\ offer[o].amount \in Nat
  BY <1>2, OffersAreMade DEF CatalogueInv, RowsOK, NoOffer
<1>4. r \in BuyerRows
  BY <1>1, <1>3 DEF BuyerRows
<1>5. BuyerHolds(r, offer, shares, clash)
  BY <1>1, <1>3 DEF BuyerHolds
<1> QED BY <1>2, <1>4, <1>5, BuyerGoes

LEMMA ReadSharesKeeps ==
    ASSUME CatalogueInv, NEW b \in Buyers, ReadShares(b)
    PROVE  CatalogueInv'
<1>1. PICK r : r = buyer[b] /\ r \in BuyerRows /\ BuyerHolds(r, offer, shares, clash)
  BY DEF CatalogueInv
<1>2. PICK X : X = SharesIn(shares, r.offer)
  OBVIOUS
<1>3. PICK s : s = [pc |-> "shares", offer |-> r.offer, amount |-> r.amount, torn |-> r.torn,
                    rows |-> X, whole |-> ~clash]
  OBVIOUS
<1>4. /\ r.pc = "package" /\ buyer' = [buyer EXCEPT ![b] = IF X = {} THEN IdleBuyer ELSE s]
      /\ UNCHANGED <<library, offer, shares, admin, clash>>
  BY <1>1, <1>2, <1>3, OfTheState DEF ReadShares
<1>5. /\ r.offer \in Offers /\ r.amount \in Nat /\ r.torn \in BOOLEAN /\ offer[r.offer] # NoOffer
      /\ ~r.torn => r.amount = offer[r.offer].amount
  BY <1>1, <1>4 DEF BuyerRows, BuyerHolds
<1>6. shares \subseteq ShareRows /\ SharesApart(shares) /\ clash \in BOOLEAN
  BY DEF CatalogueInv, RowsOK
<1>7. X \subseteq ShareRows /\ SharesApart(X) /\ SharesIn(X, r.offer) = X
  BY <1>2, <1>6 DEF SharesIn, SharesApart
<1>8. ~clash => WholeRows(X, r.offer)
  <2>1. ~clash => Fundable(offer[r.offer].amount, SplitIn(X), BaseIn(library))
    BY <1>2, <1>5 DEF CatalogueInv, SaleableIn
  <2>2. ~clash => WholeSplit(SplitIn(X))
    BY <2>1 DEF Fundable, WholeSplit
  <2> QED BY <1>7, <2>2 DEF WholeRows
<1>9. s \in BuyerRows
  BY <1>3, <1>5, <1>6, <1>7 DEF BuyerRows
<1>10. BuyerHolds(s, offer, shares, clash)
  BY <1>2, <1>3, <1>5, <1>8 DEF BuyerHolds
<1> QED BY <1>4, <1>9, <1>10, IdleBuyerHolds, BuyerGoes

LEMMA SubscribeKeeps ==
    ASSUME CatalogueInv, NEW b \in Buyers, Subscribe(b)
    PROVE  CatalogueInv'
<1>1. PICK r : r = buyer[b] /\ r \in BuyerRows /\ BuyerHolds(r, offer, shares, clash)
  BY DEF CatalogueInv
<1>2. PICK bots : bots = {[template |-> s.template, base |-> library[s.template].base,
                           budget |-> AllocatedBudget(r.amount, s.percent)] : s \in r.rows}
  OBVIOUS
<1>3. PICK w : w = [pc |-> "subscribed", amount |-> r.amount, bots |-> bots, whole |-> r.whole, torn |-> r.torn]
  OBVIOUS
<1>4. /\ r.pc = "shares" /\ (buyer' = [buyer EXCEPT ![b] = IdleBuyer] \/ buyer' = [buyer EXCEPT ![b] = w])
      /\ UNCHANGED <<library, offer, shares, admin, clash>>
  BY <1>1, <1>2, <1>3 DEF Subscribe, BotOf
<1>5. /\ r.offer \in Offers /\ r.amount \in Nat /\ r.torn \in BOOLEAN /\ r.whole \in BOOLEAN
      /\ \A s \in r.rows : s \in ShareRows
  BY <1>1, <1>4 DEF BuyerRows
<1>6. library \in [Library -> TemplateRows]
  BY DEF CatalogueInv, RowsOK
<1>7. \A x \in bots : x \in BotRows
  <2> SUFFICES ASSUME NEW s \in r.rows
               PROVE  /\ s.template \in Library /\ library[s.template].base \in Nat
                      /\ AllocatedBudget(r.amount, s.percent) \in Nat
    BY <1>2 DEF BotRows
  <2>1. s.template \in Library /\ s.percent \in 1..100
    BY <1>5 DEF ShareRows
  <2>2. PICK p : p = r.amount * s.percent /\ p \in Nat
    BY <1>5, <2>1
  <2>3. p \div 100 \in Nat
    BY <2>2
  <2> QED BY <1>6, <2>1, <2>2, <2>3 DEF AllocatedBudget, TemplateRows
<1>8. w \in BuyerRows
  BY <1>3, <1>5, <1>7 DEF BuyerRows
<1>9. PaidFor(w)
  <2> SUFFICES ASSUME r.whole
               PROVE  /\ MapThenSumSet(LAMBDA x : x.budget, bots) <= r.amount
                      /\ ~r.torn => \A x \in bots : x.base <= x.budget
    BY <1>3 DEF PaidFor
  <2>1. /\ WholeRows(r.rows, r.offer)
        /\ ~r.torn => ~clash /\ r.rows = SharesIn(shares, r.offer) /\ offer[r.offer] # NoOffer
                      /\ r.amount = offer[r.offer].amount
    BY <1>1, <1>4 DEF BuyerHolds
  <2>2. ~r.torn => Fundable(r.amount, SplitIn(r.rows), BaseIn(library))
    BY <1>5, <2>1 DEF CatalogueInv, SaleableIn
  <2> QED BY <1>2, <1>5, <1>6, <2>1, <2>2, BotsArePaid
<1>10. BuyerHolds(w, offer, shares, clash)
  BY <1>3, <1>9 DEF BuyerHolds
<1> QED BY <1>4, <1>8, <1>10, IdleBuyerHolds, BuyerGoes

LEMMA CatalogueInvNext == CatalogueInv /\ [CatalogueNext]_catalogueVars => CatalogueInv'
<1> SUFFICES ASSUME CatalogueInv, [CatalogueNext]_catalogueVars PROVE CatalogueInv'
  OBVIOUS
<1>1. CASE UNCHANGED catalogueVars
  BY <1>1 DEF CatalogueInv, catalogueVars
<1>2. ASSUME NEW a \in Admins, NEW o \in Offers, NEW row \in OfferRows, NEW split \in Splits,
             ReadOffer(a, o, row, TRUE, split)
      PROVE  CatalogueInv'
  BY <1>2, ReadOfferKeeps
<1>3. ASSUME NEW a \in Admins, NEW o \in Offers, NEW row \in OfferRows, ReadOffer(a, o, row, FALSE, <<>>)
      PROVE  CatalogueInv'
  BY <1>3, ReadOfferKeeps
<1> QED BY <1>1, <1>2, <1>3, CreateTemplateKeeps, ReadTemplateKeeps, ReadForOfferKeeps, WriteTemplateKeeps,
           CreateOfferKeeps, DeleteSharesKeeps, WriteOfferKeeps, ReadPackageKeeps, ReadSharesKeeps, SubscribeKeeps
        DEF CatalogueNext

\* For any templates, packages, allocations and overlapping requests: as long as no
\* administrator wrote over another's change, a package on sale can be bought and pays
\* for its bots, and so does every subscription made of it (packages.service.ts).
THEOREM PackagesSaleable == CatalogueSpec => []CatalogueSaleable
<1>1. CatalogueInv => CatalogueSaleable
  <2> SUFFICES ASSUME CatalogueInv PROVE CatalogueSaleable
    OBVIOUS
  <2>1. ~NoOffer.active
    BY DEF NoOffer
  <2>2. ~clash => \A o \in Offers : offer[o].active =>
            Fundable(offer[o].amount, SplitOf(o), BaseOf) /\ AllActive(SplitOf(o))
    BY <2>1, OfTheState DEF CatalogueInv, SaleableIn
  <2>3. ASSUME NEW b \in Buyers, buyer[b].pc = "subscribed" PROVE PaidFor(buyer[b])
    BY <2>3 DEF CatalogueInv, BuyerHolds
  <2> QED BY <2>2, <2>3 DEF CatalogueSaleable, PaidFor
<1> QED BY <1>1, CatalogueInvInit, CatalogueInvNext, PTL DEF CatalogueSpec
====
