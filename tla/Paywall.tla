------------------------------ MODULE Paywall --------------------------------
(***************************************************************************)
(* The training portal's paywall: Stripe tells a webhook of a user's       *)
(* subscriptions, at least once each; the webhook keeps entitlement rows;  *)
(* the page the user returns to from a checkout writes one as well; and a  *)
(* query over the rows, asked for the user a cookie names, opens the       *)
(* lessons.  D1 has no transaction here: each statement is a step, and a   *)
(* handler can die after any of them.  Users, customers and subscriptions  *)
(* have unique keys: the SELECT and the INSERT of their upserts are one    *)
(* step, and the INSERT that loses a race is a death.                      *)
(*                                                                         *)
(* The webhook takes whatever comes.  Stripe tells an event again that was *)
(* not answered, after later ones and beside them, unless ToldInOrder says *)
(* otherwise: an assumption about Stripe that nothing here enforces.       *)
(*                                                                         *)
(* One user, in one browser; each checkout makes a Stripe customer of its  *)
(* own.  Left out: prices no plan maps to, the end of a paid period, and   *)
(* a change of plan to another product.                                    *)
(***************************************************************************)
EXTENDS Naturals, Sequences, Functions

CONSTANTS
  Sub,           (* subscriptions                                           *)
  Product,
  ProductOf,     (* getProductKey() of a subscription's plan                *)
  Handler,       (* runs of the webhook                                     *)
  Visitor,       (* runs of verify                                          *)
  EventLimit,    (* bound: events of Stripe                                 *)
  ToldInOrder    (* TRUE: Stripe tells an event of a subscription only when *)
                 (*   each before it is answered, and one at a time         *)

ASSUME PaywallAssumption ==
  /\ ProductOf \in [Sub -> Product] /\ "academy" \in Product
  /\ Handler \cap Visitor = {} /\ EventLimit \in Nat /\ ToldInOrder \in BOOLEAN

Provisional == "stripe_checkout"
Paid        == "stripe_subscription"

VARIABLES
  stripe,      (* [Sub -> status] at Stripe, "none" before the checkout     *)
  events,      (* what Stripe has to tell: [kind, sub, status]              *)
  audited,     (* the events with an audit row                              *)
  user,        (* whether the user has a row                                *)
  cookie,      (* whether the browser holds gh_session, signed and in time  *)
  customers,   (* the subscriptions whose customer is the user's            *)
  subs,        (* [Sub -> status] of the subscriptions table                *)
  rows,        (* entitlements: [Product \X source -> sequence of active]   *)
  run          (* [Handler \cup Visitor -> what it does]                    *)

vars == <<stripe, events, audited, user, cookie, customers, subs, rows, run>>
tables == <<audited, user, customers, subs, rows>>

Source == {Provisional, Paid}
Resting == [pc |-> "rest"]

PaywallTypeOK ==
  /\ stripe \in [Sub -> {"none", "active", "past_due", "canceled"}]
  /\ subs \in [Sub -> {"none", "active", "past_due", "canceled"}]
  /\ user \in BOOLEAN /\ cookie \in BOOLEAN
  /\ audited \subseteq DOMAIN events /\ customers \subseteq Sub
  /\ DOMAIN rows = Product \X Source /\ \A k \in DOMAIN rows : rows[k] \in Seq(BOOLEAN)
  /\ DOMAIN run = Handler \cup Visitor

Init ==
  /\ stripe = [s \in Sub |-> "none"]
  /\ events = <<>>
  /\ audited = {} /\ customers = {} /\ user = FALSE /\ cookie = FALSE
  /\ subs = [s \in Sub |-> "none"]
  /\ rows = [k \in Product \X Source |-> <<>>]
  /\ run = [h \in Handler \cup Visitor |-> Resting]

-----------------------------------------------------------------------------
(* Stripe. *)
Told(kind, s, status) == [kind |-> kind, sub |-> s, status |-> status]

Tell(s, status, told) ==
  /\ Len(events) + Len(told) <= EventLimit
  /\ stripe' = [stripe EXCEPT ![s] = status]
  /\ events' = events \o told
  /\ UNCHANGED <<tables, cookie, run>>

(* POST /api/checkout, paid at Stripe *)
Buy(s) ==
  /\ stripe[s] = "none"
  /\ Tell(s, "active", <<Told("created", s, "active"), Told("checkout", s, "active")>>)

Change(s, status) ==
  /\ <<stripe[s], status>> \in {<<"active", "past_due">>, <<"past_due", "active">>}
  /\ Tell(s, status, <<Told("updated", s, status)>>)

(* An invoice of a subscription that stays as it is *)
Bill(s) ==
  /\ stripe[s] # "none"
  /\ Tell(s, stripe[s], <<Told("invoice", s, stripe[s])>>)

End(s) ==
  /\ stripe[s] \in {"active", "past_due"}
  /\ Tell(s, "canceled", <<Told("deleted", s, "canceled")>>)

-----------------------------------------------------------------------------
At(h, pc) == run[h].pc = pc
Go(h, r) == run' = [run EXCEPT ![h] = r]
To(h, pc) == Go(h, [run[h] EXCEPT !.pc = pc])
Same == UNCHANGED <<stripe, events, cookie>>

Start(h, pc, told, id) ==
  Go(h, [pc |-> pc, told |-> told, id |-> id, key |-> <<>>, found |-> 0, status |-> told.status])

FirstStep(kind) ==
  CASE kind = "checkout" -> "user" [] kind = "invoice" -> "invoice" [] OTHER -> "lookup"

(* No event of the subscription is before this one, or under way. *)
InTurn(i) ==
  /\ \A j \in 1 .. i - 1 : events[j].sub = events[i].sub => j \in audited
  /\ \A g \in Handler : ~At(g, "rest") => run[g].told.sub # events[i].sub

(* An event is told until its audit row is there: again while a run of it  *)
(* is under way, and after later ones, unless Stripe keeps the order.      *)
Due(i) == i \notin audited /\ (ToldInOrder => InTurn(i))

(* Mutant: the audit row is written first. *)
ReceiveMarked(h, i) ==
  /\ At(h, "rest") /\ Due(i)
  /\ Start(h, FirstStep(events[i].kind), events[i], i)
  /\ audited' = audited \cup {i}
  /\ Same /\ UNCHANGED <<user, customers, subs, rows>>

(* The delivery of an event: one with an audit row is answered at once. *)
Receive(h, i) ==
  /\ At(h, "rest") /\ Due(i)
  /\ Start(h, FirstStep(events[i].kind), events[i], i)
  /\ Same /\ UNCHANGED tables

(* GET /api/account/verify of a session that is complete *)
Verify(v, s) ==
  /\ At(v, "rest") /\ stripe[s] # "none"
  /\ Start(v, "user", Told("verify", s, stripe[s]), 0)
  /\ Same /\ UNCHANGED tables

Key(h, source) == <<ProductOf[run[h].told.sub], source>>

Seek(h, source) == Go(h, [run[h] EXCEPT !.pc = "seek", !.key = Key(h, source)])

UpsertUser(h) ==
  /\ At(h, "user")
  /\ user' = TRUE
  /\ To(h, "customer")
  /\ Same /\ UNCHANGED <<audited, customers, subs, rows>>

(* upsertStripeCustomer(), then the provisional entitlement *)
UpsertCustomer(h) ==
  /\ At(h, "customer")
  /\ customers' = customers \cup {run[h].told.sub}
  /\ Seek(h, Provisional)
  /\ Same /\ UNCHANGED <<audited, user, subs, rows>>

(* A subscription's event of a customer nobody has yet is done with.       *)
Lookup(h) ==
  /\ At(h, "lookup")
  /\ To(h, IF run[h].told.sub \in customers THEN "subscription" ELSE "audit")
  /\ Same /\ UNCHANGED tables

(* upsertEntitlement(): its SELECT *)
SelectEntitlement(h) ==
  /\ At(h, "seek")
  /\ Go(h, [run[h] EXCEPT !.pc = "entitle",
                          !.found = IF rows[run[h].key] = <<>> THEN 0 ELSE 1])
  /\ Same /\ UNCHANGED tables

AfterEntitlement(h) ==
  LET r == run[h] IN
    IF r.told.kind = "verify" THEN "login"
    ELSE IF r.key[2] = Provisional THEN "retrieve"
    ELSE IF r.told.kind = "checkout" THEN "retire"
    ELSE IF r.told.kind = "deleted" \/ (r.told.kind = "updated" /\ r.status # "active")
         THEN "revoke" ELSE "audit"

(* A subscription's entitlement is as active as the subscription. *)
Granted(h) == run[h].key[2] = Provisional \/ run[h].status = "active"

(* upsertEntitlement(): its UPDATE or INSERT; nothing makes the key unique *)
WriteEntitlement(h) ==
  LET r == run[h]
  IN /\ At(h, "entitle")
     /\ rows' = [rows EXCEPT ![r.key] =
                   IF r.found = 0 THEN Append(rows[r.key], Granted(h))
                   ELSE [rows[r.key] EXCEPT ![r.found] = Granted(h)]]
     /\ To(h, AfterEntitlement(h))
     /\ Same /\ UNCHANGED <<audited, user, customers, subs>>

(* verify answers with a session cookie, after its own audit row *)
LogIn(v) ==
  /\ At(v, "login")
  /\ cookie' = TRUE
  /\ Go(v, Resting)
  /\ UNCHANGED <<stripe, events, tables>>

(* SESSION_TTL_MS passes, or the browser drops the cookie. *)
CookieLapses ==
  /\ cookie /\ cookie' = FALSE
  /\ UNCHANGED <<stripe, events, tables, run>>

(* stripe.subscriptions.retrieve() *)
Retrieve(h) ==
  /\ At(h, "retrieve")
  /\ Go(h, [run[h] EXCEPT !.pc = "subscription", !.status = stripe[run[h].told.sub]])
  /\ Same /\ UNCHANGED tables

UpsertSubscription(h) ==
  /\ At(h, "subscription")
  /\ subs' = [subs EXCEPT ![run[h].told.sub] = run[h].status]
  /\ Seek(h, Paid)
  /\ Same /\ UNCHANGED <<audited, user, customers, rows>>

Off(row) == [i \in DOMAIN row |-> FALSE]

(* deactivateCheckoutEntitlements() and deactivateAllEntitlements() *)
Deactivate(h) ==
  /\ At(h, "retire") \/ At(h, "revoke")
  /\ rows' = [k \in DOMAIN rows |->
                IF k = Key(h, Provisional) \/ (At(h, "revoke") /\ k = Key(h, Paid))
                THEN Off(rows[k]) ELSE rows[k]]
  /\ To(h, "audit")
  /\ Same /\ UNCHANGED <<audited, user, customers, subs>>

(* The audit row that carries the event's id is the last statement.        *)
Audited(h) ==
  /\ audited' = audited \cup {run[h].id}
  /\ Go(h, Resting)
  /\ Same /\ UNCHANGED <<user, customers, subs, rows>>

Audit(h) == At(h, "audit") /\ Audited(h)

(* handleInvoiceEvent() *)
Invoice(h) == At(h, "invoice") /\ Audited(h)

(* From the retrieval on, what fails in a checkout is caught and logged,   *)
(* and the event is done with.                                             *)
SyncFails(h) ==
  /\ run[h].pc \notin {"rest", "audit"} /\ run[h].told.kind = "checkout"
  /\ At(h, "retrieve") \/ At(h, "subscription") \/ At(h, "retire") \/ run[h].key = Key(h, Paid)
  /\ To(h, "audit")
  /\ Same /\ UNCHANGED tables

(* A statement fails, or the worker dies: Stripe tells the event again.    *)
Die(h) ==
  /\ ~At(h, "rest")
  /\ Go(h, Resting)
  /\ Same /\ UNCHANGED tables

-----------------------------------------------------------------------------
(* Mutant: the provisional entitlement opens the lessons too. *)
AccessByAnyRow(p) == \E source \in Source : TRUE \in Range(rows[<<p, source>>])

(* hasActiveEntitlement() *)
Access(p) ==
  \E source \in Source :
    /\ TRUE \in Range(rows[<<p, source>>])
    /\ source = Paid \/ \E s \in Sub : subs[s] = "active"

(* getCurrentUser() *)
CurrentUser == cookie /\ user

(* GET /api/access: every page asks for this one product. *)
AccessInfo == [authenticated |-> CurrentUser,
               hasAccess     |-> CurrentUser /\ Access("academy")]

(* The page shows the lesson, or its gate. *)
LessonShown == AccessInfo.hasAccess

Next ==
  \/ \E s \in Sub : Buy(s) \/ End(s) \/ Bill(s) \/ \E status \in {"active", "past_due"} : Change(s, status)
  \/ \E h \in Handler, i \in DOMAIN events : Receive(h, i)
  \/ \E v \in Visitor, s \in Sub : Verify(v, s)
  \/ \E h \in Handler \cup Visitor :
       \/ UpsertUser(h) \/ UpsertCustomer(h) \/ Lookup(h) \/ SelectEntitlement(h) \/ WriteEntitlement(h)
       \/ Retrieve(h) \/ UpsertSubscription(h) \/ Deactivate(h) \/ Audit(h) \/ Invoice(h)
       \/ SyncFails(h) \/ LogIn(h) \/ Die(h)
  \/ CookieLapses

Spec == Init /\ [][Next]_vars

-----------------------------------------------------------------------------
Settled == audited = DOMAIN events /\ \A h \in Handler : At(h, "rest")

(* "Access is granted only when backed by a real subscription": once what  *)
(* Stripe told has been handled, whenever the return page is loaded, a     *)
(* lesson is shown only to a user who pays.  With ToldInOrder this holds   *)
(* whatever died on the way; without, a "created" that died and is told    *)
(* again after "deleted" opens the lessons of an ended subscription.       *)
AccessIsPaid == Settled /\ LessonShown => \E s \in Sub : stripe[s] = "active"

(* A signed-in user with one subscription of the academy, of which the     *)
(* webhook has a row, is shown the lessons while Stripe has it active.     *)
(* With ToldInOrder; without, an "updated" of a payment that was late, told *)
(* again after that of the payment, locks out a user who has paid.         *)
PayingIsLetIn ==
  Settled /\ cookie => \A s \in Sub :
    /\ stripe[s] = "active" /\ subs[s] # "none" /\ ProductOf[s] = "academy"
    /\ \A t \in Sub \ {s} : stripe[t] = "none"
    => LessonShown

(* Whatever Stripe told of it besides invoices is the purchase itself. *)
Steady(s) == \A i \in DOMAIN events : events[i].sub = s => events[i].kind \notin {"updated", "deleted"}

(* The race the checkout's own synchronization is there for: in whatever   *)
(* order, how often and how much at once the two events of a purchase are  *)
(* told, and whatever dies, a signed-in buyer of the academy of whose      *)
(* subscription the webhook has a row is shown the lessons.                *)
BuyingLetsIn ==
  Settled /\ cookie => \A s \in Sub :
    /\ Steady(s) /\ subs[s] # "none" /\ ProductOf[s] = "academy"
    /\ \A t \in Sub \ {s} : stripe[t] = "none"
    => LessonShown

=============================================================================
