-------------------------- MODULE PackageCatalogue --------------------------
(***************************************************************************)
(* The catalogue of trading packages: a library of strategy templates, the  *)
(* packages that divide an amount among templates, and the bots a           *)
(* subscription makes of them.  Administrators validate what they have read *)
(* and write it later; only the replacement of the shares of a package is a *)
(* transaction, and it reads what is committed.                             *)
(***************************************************************************)
EXTENDS Naturals, FiniteSets, FiniteSetsExt

CONSTANTS
    Library,           \* rows of PackageStrategyTemplate
    Offers,            \* rows of TradingPackage
    Admins, Buyers,    \* requests of administrators and of users
    BaseOrders,        \* bound: base orders a template may ask for
    OfferAmounts,      \* bound: amounts of a package
    Splits,            \* bound: allocations, functions from templates to percents
    MaxAdminRequests   \* bound: requests of the administrators

ASSUME CatalogueAssumption ==
    /\ IsFiniteSet(Library)
    /\ BaseOrders \subseteq Nat /\ OfferAmounts \subseteq Nat \ {0}
    /\ \A f \in Splits : DOMAIN f \subseteq Library /\ f \in [DOMAIN f -> 1..100]

VARIABLES
    library,        \* per template, the base order of its settings and active
    offer,          \* per package, its amount and active
    shares,         \* rows of TradingPackageStrategy
    admin,          \* what each administrator's request has read
    buyer,          \* what each subscription has read so far, and the bots it made
    adminRequests,  \* requests started so far
    clash           \* some request wrote what another one had changed meanwhile

catalogueVars == <<library, offer, shares, admin, buyer, adminRequests, clash>>

NoTemplate == [base |-> 0, active |-> FALSE]
NoOffer == [amount |-> 0, active |-> FALSE]
IdleAdmin == [pc |-> "idle", stale |-> FALSE]
IdleBuyer == [pc |-> "idle"]

HalfRead(r) == r.pc \in {"package", "shares"}

MinBaseOrder == 5   \* MIN_PACKAGE_BASE_ORDER_QUOTE

SharesOf(o) == {s \in shares : s.offer = o}
SplitOf(o) == [t \in {s.template : s \in SharesOf(o)} |->
                  (CHOOSE s \in SharesOf(o) : s.template = t).percent]
Rows(o, split) == {[offer |-> o, template |-> t, percent |-> split[t]] : t \in DOMAIN split}

\* Rounded down, so that the shares of a package never exceed its amount.
AllocatedBudget(amount, percent) == (amount * percent) \div 100

\* validateAllocations: base gives the base order of each template.
Fundable(amount, split, base) ==
    /\ DOMAIN split # {}
    /\ MapThenSumSet(LAMBDA t : split[t], DOMAIN split) = 100
    /\ \A t \in DOMAIN split : base[t] \in MinBaseOrder..AllocatedBudget(amount, split[t])

BaseOf == [t \in Library |-> library[t].base]
AllActive(split) == \A t \in DOMAIN split : library[t].active

-----------------------------------------------------------------------------
(* Administrators *)

StartAdmin(a, r) ==
    /\ admin[a].pc = "idle"
    /\ adminRequests < MaxAdminRequests
    /\ adminRequests' = adminRequests + 1
    /\ admin' = [admin EXCEPT ![a] = r]

\* A write: the requests under way have read what is no longer true, and the reads of
\* a subscription do not belong together.
Written(a) ==
    /\ admin' = [b \in Admins |-> IF b = a THEN IdleAdmin ELSE [admin[b] EXCEPT !.stale = TRUE]]
    /\ buyer' = [b \in Buyers |-> IF HalfRead(buyer[b]) THEN [buyer[b] EXCEPT !.torn = TRUE]
                                                     ELSE buyer[b]]
    /\ clash' = (clash \/ admin[a].stale)

\* adminUpdateTemplate: every package that uses the template must stay fundable,
\* and an active one keeps its templates.
ReadTemplate(a, t, base, active) ==
    /\ StartAdmin(a, [pc |-> "template", template |-> t, row |-> [base |-> base, active |-> active],
                      stale |-> FALSE])
    /\ library[t] # NoTemplate /\ base >= MinBaseOrder
    /\ ~active => \A s \in shares : s.template = t => ~offer[s.offer].active
    /\ \A s \in shares : s.template = t =>
           Fundable(offer[s.offer].amount, SplitOf(s.offer), [BaseOf EXCEPT ![t] = base])
    /\ UNCHANGED <<library, offer, shares, buyer, clash>>

WriteTemplate(a) ==
    /\ admin[a].pc = "template"
    /\ library' = [library EXCEPT ![admin[a].template] = admin[a].row]
    /\ Written(a)
    /\ UNCHANGED <<offer, shares, adminRequests>>

\* adminCreateTemplate
CreateTemplate(a, t, base, active) ==
    /\ StartAdmin(a, IdleAdmin)
    /\ library[t] = NoTemplate /\ base >= MinBaseOrder
    /\ library' = [library EXCEPT ![t] = [base |-> base, active |-> active]]
    /\ UNCHANGED <<offer, shares, buyer, clash>>

\* resolveAllocations and validateAllocations of a new package.
ReadForOffer(a, o, row, split) ==
    /\ StartAdmin(a, [pc |-> "create", offer |-> o, row |-> row, split |-> split, stale |-> FALSE])
    /\ AllActive(split) /\ Fundable(row.amount, split, BaseOf)
    /\ UNCHANGED <<library, offer, shares, buyer, clash>>

\* adminCreate: the name is unique.
CreateOffer(a) ==
    LET w == admin[a]
        free == offer[w.offer] = NoOffer
    IN /\ w.pc = "create"
       /\ offer' = IF free THEN [offer EXCEPT ![w.offer] = w.row] ELSE offer
       /\ shares' = IF free THEN shares \cup Rows(w.offer, w.split) ELSE shares
       /\ IF free THEN Written(a)
                  ELSE admin' = [admin EXCEPT ![a] = IdleAdmin] /\ UNCHANGED <<buyer, clash>>
       /\ UNCHANGED <<library, adminRequests>>

\* Mutant: a package is reactivated with a template that was taken out of use.
ReactivatesAnyway(row, split) == TRUE

MayActivate(row, split) == row.active => AllActive(split)

\* adminUpdate keeps the shares, or replaces them all.
ReadOffer(a, o, row, replace, split) ==
    LET kept == IF replace THEN split ELSE SplitOf(o) IN
    /\ StartAdmin(a, [pc |-> IF replace THEN "delete" ELSE "offer", offer |-> o, row |-> row,
                      split |-> kept, gone |-> {}, stale |-> FALSE])
    /\ offer[o] # NoOffer
    /\ replace => AllActive(split)
    /\ Fundable(row.amount, kept, BaseOf)
    /\ MayActivate(row, kept)
    /\ UNCHANGED <<library, offer, shares, buyer, clash>>

\* The transaction deletes the shares it can see; they end with its commit.
DeleteShares(a) ==
    /\ admin[a].pc = "delete"
    /\ admin' = [admin EXCEPT ![a].pc = "insert", ![a].gone = SharesOf(admin[a].offer)]
    /\ UNCHANGED <<library, offer, shares, buyer, adminRequests, clash>>

\* The commit; a share another request made meanwhile may violate the unique key.
WriteOffer(a) ==
    LET w == admin[a]
        left == {s \in SharesOf(w.offer) : s \notin w.gone}
        taken == \E s \in left : s.template \in DOMAIN w.split
    IN /\ w.pc \in {"offer", "insert"}
       /\ IF w.pc = "insert" /\ taken
          THEN /\ admin' = [admin EXCEPT ![a] = IdleAdmin]
               /\ UNCHANGED <<offer, shares, buyer, clash>>
          ELSE /\ offer' = [offer EXCEPT ![w.offer] = w.row]
               /\ shares' = IF w.pc = "offer" THEN shares
                            ELSE (shares \ w.gone) \cup Rows(w.offer, w.split)
               /\ Written(a)
       /\ UNCHANGED <<library, adminRequests>>

-----------------------------------------------------------------------------
(* subscribe: the package, its shares and their templates are read one after *)
(* the other, outside a transaction; then one bot of each is made.  The      *)
(* transaction that makes them reads none of this again, and the last check  *)
(* of their settings does not compare the base order with the budget.        *)

ReadPackage(b, o) ==
    /\ buyer[b].pc = "idle" /\ offer[o].active
    /\ buyer' = [buyer EXCEPT ![b] = [pc |-> "package", offer |-> o, amount |-> offer[o].amount,
                                      torn |-> FALSE]]
    /\ UNCHANGED <<library, offer, shares, admin, adminRequests, clash>>

ReadShares(b) ==
    LET r == buyer[b] IN
    /\ r.pc = "package"
    /\ buyer' = [buyer EXCEPT ![b] =
           IF SharesOf(r.offer) = {} THEN IdleBuyer
           ELSE [pc |-> "shares", offer |-> r.offer, amount |-> r.amount, torn |-> r.torn,
                 rows |-> SharesOf(r.offer), whole |-> ~clash]]
    /\ UNCHANGED <<library, offer, shares, admin, adminRequests, clash>>

BotOf(share, amount) ==
    [template |-> share.template, base |-> library[share.template].base,
     budget |-> AllocatedBudget(amount, share.percent)]

\* The templates are read, and what the bots get is settled.
Subscribe(b) ==
    LET r == buyer[b] IN
    /\ r.pc = "shares"
    /\ buyer' = [buyer EXCEPT ![b] =
           IF \E s \in r.rows : ~library[s.template].active THEN IdleBuyer
           ELSE [pc |-> "subscribed", amount |-> r.amount, bots |-> {BotOf(s, r.amount) : s \in r.rows},
                 whole |-> r.whole, torn |-> r.torn]]
    /\ UNCHANGED <<library, offer, shares, admin, adminRequests, clash>>

-----------------------------------------------------------------------------
CatalogueInit ==
    /\ \E first \in {NoTemplate, [base |-> MinBaseOrder, active |-> TRUE]} :
           library = [t \in Library |-> first]
    /\ offer = [o \in Offers |-> NoOffer] /\ shares = {}
    /\ admin = [a \in Admins |-> IdleAdmin]
    /\ buyer = [b \in Buyers |-> IdleBuyer]
    /\ adminRequests = 0 /\ clash = FALSE

OfferRows == [amount : OfferAmounts, active : BOOLEAN]

CatalogueNext ==
    \/ \E a \in Admins :
           \/ \E t \in Library, base \in BaseOrders, active \in BOOLEAN :
                  CreateTemplate(a, t, base, active) \/ ReadTemplate(a, t, base, active)
           \/ \E o \in Offers, row \in OfferRows :
                  \/ \E split \in Splits : \/ ReadForOffer(a, o, row, split)
                                           \/ ReadOffer(a, o, row, TRUE, split)
                  \/ ReadOffer(a, o, row, FALSE, <<>>)
           \/ WriteTemplate(a) \/ CreateOffer(a) \/ DeleteShares(a) \/ WriteOffer(a)
    \/ \E b \in Buyers : \/ \E o \in Offers : ReadPackage(b, o)
                         \/ ReadShares(b) \/ Subscribe(b)

CatalogueSpec == CatalogueInit /\ [][CatalogueNext]_catalogueVars

-----------------------------------------------------------------------------
\* As long as no administrator wrote over what another one had changed, every
\* package on sale can be bought: its shares make up the whole amount, each
\* template is in use and can pay its base order, after any sequence of changed
\* amounts, shares and settings and of templates taken out of use and packages
\* taken off sale.  The bots of a subscription never get more than was paid, even if
\* the package changes while it is read; if it does not, each can pay its base order.
CatalogueSaleable ==
    /\ ~clash => \A o \in Offers : offer[o].active =>
                     /\ Fundable(offer[o].amount, SplitOf(o), BaseOf)
                     /\ AllActive(SplitOf(o))
    /\ \A b \in Buyers : buyer[b].pc = "subscribed" /\ buyer[b].whole =>
           /\ MapThenSumSet(LAMBDA r : r.budget, buyer[b].bots) <= buyer[b].amount
           /\ ~buyer[b].torn => \A r \in buyer[b].bots : r.base <= r.budget
-----------------------------------------------------------------------------
(* Types *)

AnySplit == UNION {[T -> 1..100] : T \in SUBSET Library}
TemplateRows == [base : Nat, active : BOOLEAN]
ShareRows == [offer : Offers, template : Library, percent : 1..100]
AdminRows ==
    [pc : {"idle"}, stale : BOOLEAN] \cup
    [pc : {"template"}, template : Library, row : TemplateRows, stale : BOOLEAN] \cup
    [pc : {"create"}, offer : Offers, row : OfferRows, split : AnySplit, stale : BOOLEAN] \cup
    [pc : {"offer", "delete", "insert"}, offer : Offers, row : OfferRows, split : AnySplit,
     gone : SUBSET ShareRows, stale : BOOLEAN]
BotRows == [template : Library, base : Nat, budget : Nat]
BuyerRows ==
    [pc : {"idle"}] \cup
    [pc : {"package"}, offer : Offers, amount : Nat, torn : BOOLEAN] \cup
    [pc : {"shares"}, offer : Offers, amount : Nat, rows : SUBSET ShareRows,
     whole : BOOLEAN, torn : BOOLEAN] \cup
    [pc : {"subscribed"}, amount : Nat, bots : SUBSET BotRows,
     whole : BOOLEAN, torn : BOOLEAN]

CatalogueTypeOK ==
    /\ library \in [Library -> TemplateRows] /\ offer \in [Offers -> OfferRows \cup {NoOffer}]
    /\ shares \subseteq ShareRows
    /\ admin \in [Admins -> AdminRows]
    /\ buyer \in [Buyers -> BuyerRows]
    /\ clash \in BOOLEAN
=============================================================================
