---------------------------- MODULE StripeBilling ----------------------------
(***************************************************************************)
(* The Stripe webhook (app.ts, stripe.ts, personal-billing.ts, store.ts):   *)
(* events about the subscriptions of one account arrive late, out of order, *)
(* several times or while the database fails, and set the account's plan.   *)
(*                                                                         *)
(* An installation's account takes every event as it comes; the account of  *)
(* a personal organisation compares their creation times.  Claim and patch  *)
(* are one transaction that locks the account, so a delivery is one action. *)
(* A customer is named after the subscription it was made for.  "active"    *)
(* stands for trialing too, "canceled" for incomplete_expired; there is one *)
(* price and every event carries it, its subscription and its customer.     *)
(***************************************************************************)
EXTENDS Naturals, FiniteSets

CONSTANTS
    Subs,         \* subscriptions that may be bought
    Kinds,        \* kinds of account: "personal", "installation"
    MaxEvents,    \* bound: events Stripe sends
    MaxFailures   \* bound: transactions that fail

ASSUME StripeAssumption ==
    /\ Kinds \subseteq {"personal", "installation"}
    /\ MaxEvents \in Nat /\ MaxFailures \in Nat

None == "none"
ASSUME NoneAssumption == None \notin Subs

VARIABLES
    kind,      \* the kind of the account
    row,       \* its billing row
    plan,      \* whether it has a plan
    claimed,   \* stripe_events
    subs,      \* subs[s]: Stripe's state of the subscription
    customer,  \* customer[s]: whom Stripe bills for it
    clock,     \* Stripe's clock, in seconds
    events,    \* events Stripe has sent
    failures,  \* failed transactions so far
    ordered,   \* history: every event was claimed in its turn
    ended      \* history: subscriptions whose end the row recorded

vars == <<kind, row, plan, claimed, subs, customer, clock, events, failures, ordered, ended>>
account == <<kind, row, plan, claimed, failures, ordered, ended>>

SubStates == {"none", "open", "incomplete", "active", "past_due", "canceled"}
EventKinds == {"checkout", "created", "updated", "deleted", "paid", "payment_failed"}
Statuses == {"incomplete", "active", "past_due", "canceled"}
Event == [id : 1..MaxEvents, kind : EventKinds, sub : Subs, customer : Subs,
          status : Statuses, time : 0..MaxEvents]

-----------------------------------------------------------------------------
(* The customer and Stripe.                                                 *)

\* A step of Stripe sends one of the events it may cause, perhaps within the
\* same second as the one before.
Send(s, kinds, status) ==
    /\ Cardinality(events) < MaxEvents
    /\ clock' \in {clock, clock + 1}
    /\ \E k \in kinds :
         events' = events \cup
             {[id |-> Cardinality(events) + 1, kind |-> k, sub |-> s, customer |-> customer'[s],
               status |-> status, time |-> clock']}
    /\ UNCHANGED account

\* POST /api/billing/checkout: a covered customer gets the portal instead.
Checkout(s) ==
    /\ subs[s] = "none"
    /\ ~(row.customer # None /\ row.status = "active")
    /\ subs' = [subs EXCEPT ![s] = "open"]
    /\ customer' = [customer EXCEPT ![s] = IF row.customer = None THEN s ELSE row.customer]
    /\ UNCHANGED <<account, clock, events>>

Complete(s) ==
    /\ subs[s] = "open"
    /\ \E status \in {"incomplete", "active"} :
         /\ subs' = [subs EXCEPT ![s] = status]
         /\ UNCHANGED customer
         /\ Send(s, IF status = "active" THEN {"checkout", "created"} ELSE {"created"}, status)

Pay(s) ==
    /\ subs[s] \in {"incomplete", "active", "past_due"}
    /\ subs' = [subs EXCEPT ![s] = "active"]
    /\ UNCHANGED customer
    /\ Send(s, {"paid", "updated"}, "active")

FailPayment(s) ==
    /\ subs[s] \in {"active", "past_due"}
    /\ subs' = [subs EXCEPT ![s] = "past_due"]
    /\ UNCHANGED customer
    /\ Send(s, {"payment_failed", "updated"}, "past_due")

Cancel(s) ==
    /\ subs[s] \in {"incomplete", "active", "past_due"}
    /\ subs' = [subs EXCEPT ![s] = "canceled"]
    /\ UNCHANGED customer
    /\ Send(s, {"deleted"}, "canceled")

\* An invoice left open is paid after the subscription has ended.
PayLate(s) ==
    /\ subs[s] = "canceled"
    /\ UNCHANGED <<subs, customer>>
    /\ Send(s, {"paid"}, "active")

-----------------------------------------------------------------------------
(* The webhook.                                                             *)

Unclaimed(e) == e \notin claimed

\* The account's metadata is on the checkout and the subscription; an invoice
\* names only the customer and the subscription.
NamesAccount(e) == e.kind \in {"checkout", "created", "updated", "deleted"}

Matches(e) == NamesAccount(e) \/ row.customer = e.customer \/ row.sub = e.sub

Terminal == row.status = "canceled"
Replacement(e) == row.sub # None /\ e.sub # row.sub

\* Mutant: a live subscription is replaced too.
ReplaceLive(e) ==
    /\ NamesAccount(e) /\ e.customer = row.customer
    /\ e.kind \in {"created", "updated"} /\ e.status = "active"

\* A new subscription of the same customer, when the recorded one has ended.
MayReplace(e) ==
    /\ Terminal
    /\ NamesAccount(e) /\ e.customer = row.customer
    /\ e.kind \in {"created", "updated"} /\ e.status = "active"

\* Mutant: a later event of an ended subscription is taken.
NeverEnded(e) == TRUE

\* An ended subscription keeps its status.
NotResurrected(e) == Terminal /\ ~Replacement(e) => e.status = row.status

\* applyPersonalStripePatch: the checks before its UPDATEs.
PersonalAccepts(e) ==
    /\ Matches(e)
    /\ row.customer \in {None, e.customer}
    /\ e.time > row.created
    /\ e.sub \notin row.retired
    /\ Replacement(e) => MayReplace(e)
    /\ NotResurrected(e)

Accepts(e) == IF kind = "personal" THEN PersonalAccepts(e) ELSE Matches(e)

\* eventPatch: a plan is granted, cleared or left.
PatchedPlan(e) ==
    CASE e.status = "active" -> TRUE
      [] e.status = "incomplete" -> plan
      [] OTHER -> FALSE

\* Mutant: every event retires the recorded subscription.
RetireAlways(e) == row.retired \cup ({row.sub} \ {None})

Retired(e) == IF kind = "personal" /\ Replacement(e) THEN row.retired \cup {row.sub}
              ELSE row.retired

Apply(e) ==
    /\ row' = [customer |-> e.customer, sub |-> e.sub, status |-> e.status,
               created |-> IF kind = "personal" THEN e.time ELSE row.created,
               retired |-> Retired(e)]
    /\ plan' = PatchedPlan(e)
    /\ ended' = IF e.status = "canceled" THEN ended \cup {e.sub} ELSE ended

\* e was claimed too late: after a later event, after one of the same second
\* that says something else, or after its subscription's end.
Late(e) == \E d \in claimed \ {e} :
    \/ d.time > e.time
    \/ d.time = e.time /\ <<d.sub, d.status>> # <<e.sub, e.status>>
    \/ d.sub = e.sub /\ d.kind = "deleted"

\* One transaction: the claim of the event's id and its patch.
Deliver(e) ==
    /\ Unclaimed(e)
    /\ claimed' = claimed \cup {e}
    /\ ordered' = (ordered /\ (e \in claimed \/ ~Late(e)))
    /\ \/ Accepts(e) /\ Apply(e)
       \/ ~Accepts(e) /\ UNCHANGED <<row, plan, ended>>
    /\ UNCHANGED <<kind, failures, subs, customer, clock, events>>

\* Mutant: the claim is committed before the patch is tried.
KeepClaim(e) == claimed' = claimed \cup {e} /\ UNCHANGED <<row, plan, ended>>

Rollback(e) == UNCHANGED <<claimed, row, plan, ended>>

\* The transaction fails; Stripe sends the event again.
FailDelivery(e) ==
    /\ Unclaimed(e)
    /\ failures < MaxFailures
    /\ failures' = failures + 1
    /\ Rollback(e)
    /\ UNCHANGED <<kind, ordered, subs, customer, clock, events>>

-----------------------------------------------------------------------------
Init ==
    /\ kind \in Kinds
    /\ row = [customer |-> None, sub |-> None, status |-> None, created |-> 0, retired |-> {}]
    /\ plan = FALSE
    /\ claimed = {} /\ ended = {} /\ ordered = TRUE
    /\ subs = [s \in Subs |-> "none"]
    /\ customer = [s \in Subs |-> None]
    /\ clock = 1 /\ events = {} /\ failures = 0

Next ==
    \/ \E s \in Subs : Checkout(s) \/ Complete(s) \/ Pay(s) \/ FailPayment(s)
                       \/ Cancel(s) \/ PayLate(s)
    \/ \E e \in events : Deliver(e) \/ FailDelivery(e)

Spec == Init /\ [][Next]_vars

-----------------------------------------------------------------------------
(* Properties.                                                              *)

\* The variables have the values their tables and Stripe's objects allow; a
\* retired subscription is never the recorded one.
StripeTypeOK ==
    /\ row \in [customer : Subs \cup {None}, sub : Subs \cup {None},
                status : Statuses \cup {None}, created : Nat, retired : SUBSET Subs]
    /\ row.sub \notin row.retired
    /\ plan \in BOOLEAN /\ claimed \subseteq events
    /\ events \subseteq [id : 1..MaxEvents, kind : EventKinds, sub : Subs, customer : Subs,
                         status : Statuses, time : Nat]
    /\ subs \in [Subs -> SubStates] /\ customer \in [Subs -> Subs \cup {None}]

\* Once every event has been claimed, each in its turn, the account has a plan
\* exactly while its recorded subscription is active (an installation's, if it
\* bought one only): redelivery and a failed transaction neither lose an event
\* nor apply one again.
PlanFollowsSubscription ==
    /\ ordered /\ claimed = events /\ row.sub # None
    /\ kind = "personal" \/ Cardinality({e.sub : e \in events}) = 1
    => (plan <=> subs[row.sub] = "active")

\* In whatever order events arrive, a personal account has no plan by a
\* subscription whose end it recorded (personal-billing.ts:74).
EndedStaysEnded == kind = "personal" /\ plan => row.sub \notin ended

\* A personal account changes to another subscription only when Stripe has
\* ended the recorded one, so no paid subscription is dropped for another.
ReplacesEnded ==
    [][kind = "personal" /\ row.sub # None /\ row'.sub # row.sub
         => subs[row.sub] = "canceled"]_vars

\* An event that the end of its subscription has overtaken gives no plan.  This
\* does not hold: see the README, "What does not hold".
OvertakenGrantsNothing ==
    [][\A e \in claimed' \ claimed, d \in claimed :
         d.kind = "deleted" /\ d.sub = e.sub /\ e.time < d.time
           => (plan' => plan /\ row'.sub = row.sub)]_vars
=============================================================================
