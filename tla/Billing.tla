------------------------------- MODULE Billing -------------------------------
(***************************************************************************)
(* Subscriptions: the checkout that gives a user a Stripe customer, and the *)
(* webhook that copies the customer's subscription into the user's row.     *)
(* Stripe (external) delivers an event until it is acknowledged, in any     *)
(* order and possibly to two handlers at once; each await of a handler is a *)
(* step of its own.                                                         *)
(***************************************************************************)
EXTENDS Naturals, Sequences, FiniteSets

CONSTANTS BillingUsers, Checkouts, Handlers,  \* users; requests to /billing/checkout; webhook handlers
          MaxEvents                           \* bound: events of Stripe

VARIABLES customers,   \* Stripe: the user each customer was made for
          subs,        \* Stripe: the status of each customer's subscription
          events,      \* Stripe: events in order: customer, kind, status
          unacked,     \* Stripe: events to deliver (again)
          customerOf,  \* User.stripeCustomerId (0: null)
          subscription,\* User.subscriptionStatus
          eventRows,   \* rows of StripeEvent
          checkout,    \* per request: its user, where it waits, the customer
          hook,        \* per handler: its event and where it waits
          applied,     \* history: how often an event was written to the user row
          spoiled,     \* history: events whose row was not made, or whose processing failed or was cut off
          unordered    \* history: an event was written after a later one of its customer

billingVars == <<customers, subs, events, unacked, customerOf, subscription, eventRows, checkout,
                 hook, applied, spoiled, unordered>>

RawStatus == {"none", "active", "trialing", "past_due", "canceled"}
Free == [e |-> 0, at |-> "free"]
EventIds == DOMAIN events

(* mapStripeSubscriptionStatus *)
Mapped(raw) == IF raw \in {"active", "trialing"} THEN "active" ELSE "inactive"

(* Mutant: only a cancellation ends the plan. *)
SaysUntilCanceled(event) == IF event.status = "canceled" THEN "inactive" ELSE "active"

(* What an event says of the subscription: checkout.session.completed says  *)
(* "active" whatever has happened since.                                    *)
Says(event) == IF event.kind = "checkout" THEN "active" ELSE Mapped(event.status)

BillingInit ==
  /\ customers = <<>> /\ subs = <<>> /\ events = <<>> /\ unacked = {}
  /\ customerOf = [u \in BillingUsers |-> 0]
  /\ subscription = [u \in BillingUsers |-> "inactive"]
  /\ eventRows = {}
  /\ checkout = [c \in Checkouts |-> [user |-> "none", at |-> "free", customer |-> 0]]
  /\ hook = [h \in Handlers |-> Free]
  /\ applied = <<>> /\ spoiled = {} /\ unordered = FALSE

stripeVars == <<subs, events, unacked, applied>>
webhookVars == <<subscription, eventRows, hook, spoiled, unordered>>

(* usersRepo.getBilling: a user without a customer gets one. *)
CheckoutBegin(c, u) ==
  /\ checkout[c].at = "free"
  /\ checkout' = [checkout EXCEPT ![c] =
       [user |-> u, at |-> IF customerOf[u] = 0 THEN "create" ELSE "session", customer |-> customerOf[u]]]
  /\ UNCHANGED <<customers, customerOf, stripeVars, webhookVars>>

(* stripe.customers.create *)
CheckoutCreate(c) ==
  /\ checkout[c].at = "create"
  /\ customers' = Append(customers, checkout[c].user)
  /\ subs' = Append(subs, "none")
  /\ checkout' = [checkout EXCEPT ![c] = [user |-> @.user, at |-> "save", customer |-> Len(customers) + 1]]
  /\ UNCHANGED <<customerOf, events, unacked, applied, webhookVars>>

(* usersRepo.updateStripeCustomerId *)
CheckoutSave(c) ==
  /\ checkout[c].at = "save"
  /\ customerOf' = [customerOf EXCEPT ![checkout[c].user] = checkout[c].customer]
  /\ checkout' = [checkout EXCEPT ![c].at = "session"]
  /\ UNCHANGED <<customers, stripeVars, webhookVars>>

(* Stripe: the subscription changes and events about it are queued. *)
Emit(cust, raw, news) ==
  /\ Len(events) + Len(news) <= MaxEvents
  /\ subs' = [subs EXCEPT ![cust] = raw]
  /\ events' = events \o news
  /\ unacked' = unacked \cup (Len(events) + 1)..(Len(events) + Len(news))
  /\ applied' = applied \o [i \in 1..Len(news) |-> 0]

(* The user pays in the session of the checkout. *)
Pay(c, raw) ==
  LET cust == checkout[c].customer IN
  /\ checkout[c].at = "session" /\ subs[cust] = "none"
  /\ Emit(cust, raw, << [cust |-> cust, kind |-> "subscription", status |-> raw],
                        [cust |-> cust, kind |-> "checkout", status |-> raw] >>)
  /\ checkout' = [checkout EXCEPT ![c].at = "paid"]
  /\ UNCHANGED <<customers, customerOf, webhookVars>>

(* The subscription goes on: a payment fails or succeeds, it is canceled.   *)
Change(cust, raw) ==
  /\ subs[cust] \notin {"none", "canceled", raw}
  /\ Emit(cust, raw, << [cust |-> cust, kind |-> "subscription", status |-> raw] >>)
  /\ UNCHANGED <<customers, customerOf, checkout, webhookVars>>

(* A delivery: stripeEventsRepo.exists; a duplicate is acknowledged.        *)
HookBegin(h, e) ==
  /\ hook[h] = Free /\ e \in unacked
  /\ IF e \in eventRows THEN unacked' = unacked \ {e} /\ UNCHANGED hook
                        ELSE hook' = [hook EXCEPT ![h] = [e |-> e, at |-> "create"]] /\ UNCHANGED unacked
  /\ UNCHANGED <<customers, subs, events, customerOf, subscription, eventRows, checkout, applied, spoiled, unordered>>

(* Mutant: the id of an event need not be unique. *)
HookCreateTwice(h) ==
  /\ hook[h].at = "create"
  /\ eventRows' = eventRows \cup {hook[h].e}
  /\ hook' = [hook EXCEPT ![h].at = "process"]
  /\ UNCHANGED <<customers, subs, events, unacked, customerOf, subscription, checkout, applied, spoiled, unordered>>

(* stripeEventsRepo.create: the unique id lets one handler of an event on,  *)
(* another answers "duplicate".                                             *)
HookCreate(h) ==
  LET e == hook[h].e IN
  /\ hook[h].at = "create"
  /\ IF e \in eventRows
       THEN unacked' = unacked \ {e} /\ hook' = [hook EXCEPT ![h] = Free] /\ UNCHANGED eventRows
       ELSE hook' = [hook EXCEPT ![h].at = "process"] /\ eventRows' = eventRows \cup {e} /\ UNCHANGED unacked
  /\ UNCHANGED <<customers, subs, events, customerOf, subscription, checkout, applied, spoiled, unordered>>

(* It fails for another reason, with or without the row made: the catch takes it for a    *)
(* duplicate and the answer is 200.                                                       *)
HookCreateFails(h) ==
  LET e == hook[h].e IN
  /\ hook[h].at = "create" /\ e \notin eventRows
  /\ eventRows' \in {eventRows, eventRows \cup {e}}
  /\ unacked' \in {unacked, unacked \ {e}}
  /\ hook' = [hook EXCEPT ![h] = Free]
  /\ spoiled' = spoiled \cup {e}
  /\ UNCHANGED <<customers, subs, events, customerOf, subscription, checkout, applied, unordered>>

(* updateSubscriptionByStripeCustomerId, and the answer, which may be lost. *)
HookProcess(h) ==
  LET e == hook[h].e IN
  /\ hook[h].at = "process"
  /\ subscription' = [u \in BillingUsers |->
       IF customerOf[u] = events[e].cust THEN Says(events[e]) ELSE subscription[u]]
  /\ applied' = [applied EXCEPT ![e] = @ + 1]
  /\ unordered' = (unordered \/ \E f \in EventIds : f > e /\ events[f].cust = events[e].cust /\ applied[f] > 0)
  /\ hook' = [hook EXCEPT ![h] = Free]
  /\ unacked' \in {unacked, unacked \ {e}}
  /\ UNCHANGED <<customers, subs, events, customerOf, eventRows, checkout, spoiled>>

(* The write fails: 500, and Stripe delivers the event again. *)
HookFails(h) ==
  /\ hook[h].at = "process"
  /\ spoiled' = spoiled \cup {hook[h].e}
  /\ hook' = [hook EXCEPT ![h] = Free]
  /\ UNCHANGED <<customers, customerOf, stripeVars, subscription, eventRows, checkout, unordered>>

(* The API restarts: its handlers are gone. *)
BillingRestart ==
  /\ \E h \in Handlers : hook[h] # Free
  /\ hook' = [h \in Handlers |-> Free]
  /\ spoiled' = spoiled \cup {hook[h].e : h \in {g \in Handlers : hook[g].at = "process"}}
  /\ UNCHANGED <<customers, customerOf, stripeVars, subscription, eventRows, checkout, unordered>>

BillingNext ==
  \/ \E c \in Checkouts : \/ \E u \in BillingUsers : CheckoutBegin(c, u)
                          \/ CheckoutCreate(c) \/ CheckoutSave(c)
                          \/ \E raw \in {"active", "trialing"} : Pay(c, raw)
  \/ \E cust \in DOMAIN customers, raw \in {"active", "past_due", "canceled"} : Change(cust, raw)
  \/ \E h \in Handlers : \/ \E e \in unacked : HookBegin(h, e)
                         \/ HookCreate(h) \/ HookCreateFails(h) \/ HookProcess(h) \/ HookFails(h)
  \/ BillingRestart

BillingSpec == BillingInit /\ [][BillingNext]_billingVars

----------------------------------------------------------------------------

(* Types; the user row holds "active" or "inactive" and only a customer     *)
(* that was made for the user.                                              *)
BillingTypeOK ==
  /\ customers \in Seq(BillingUsers) /\ subs \in [DOMAIN customers -> RawStatus]
  /\ events \in Seq([cust : DOMAIN customers, kind : {"subscription", "checkout"}, status : RawStatus])
  /\ unacked \subseteq EventIds /\ eventRows \subseteq EventIds /\ spoiled \subseteq EventIds
  /\ applied \in [EventIds -> Nat]
  /\ subscription \in [BillingUsers -> {"active", "inactive"}]
  /\ \A u \in BillingUsers : customerOf[u] # 0 => customers[customerOf[u]] = u
  /\ \A h \in Handlers : hook[h] = Free \/ (hook[h].e \in EventIds /\ hook[h].at \in {"create", "process"})

(* However often and to however many handlers an event is delivered, and    *)
(* whatever restarts, it is written to the user row at most once.           *)
EventAppliedOnce == \A e \in EventIds : applied[e] <= 1

(* An event that Stripe will not deliver again was written, or is being     *)
(* written by another handler.  The exceptions: its row could not be made,  *)
(* which is answered as a duplicate; or its first processing failed, and    *)
(* its row makes the retry a duplicate.                                     *)
AckedIsApplied ==
  \A e \in EventIds \ unacked :
    applied[e] = 1 \/ e \in spoiled \/ \E h \in Handlers : hook[h] = [e |-> e, at |-> "process"]

(* Every event is written exactly once before Stripe forgets it.            *)
EventAppliedExactlyOnce == EventAppliedOnce /\ AckedIsApplied

(* Once everything is delivered, in order, with every row made and every    *)
(* processing done, and the user has one customer, the row says what Stripe *)
(* says.                                                                    *)
SettledRowIsStripes ==
  (unacked = {} /\ \A h \in Handlers : hook[h] = Free) /\ ~unordered /\ spoiled = {}
    => \A u \in BillingUsers :
         Cardinality({i \in DOMAIN customers : customers[i] = u}) = 1 /\ customerOf[u] # 0
           => subscription[u] = Mapped(subs[customerOf[u]])
=============================================================================
