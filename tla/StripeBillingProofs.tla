-------------------------- MODULE StripeBillingProofs --------------------------
(* Theorems about StripeBilling, for every set of subscriptions, both kinds of *)
(* account, and any number of events and of failed transactions.               *)
EXTENDS StripeBilling, FiniteSetTheorems, TLAPS

RowType == [customer : Subs \cup {None}, sub : Subs \cup {None},
            status : Statuses \cup {None}, created : Nat, retired : SUBSET Subs]
EventType == [id : 1..MaxEvents, kind : EventKinds, sub : Subs, customer : Subs,
              status : Statuses, time : Nat]

-----------------------------------------------------------------------------
(* The invariant.                                                           *)

AccountOK ==
    /\ row \in RowType /\ plan \in BOOLEAN /\ ordered \in BOOLEAN
    /\ claimed \subseteq events /\ ended \subseteq Subs

StripeOK ==
    /\ events \subseteq EventType /\ clock \in Nat
    /\ subs \in [Subs -> SubStates] /\ customer \in [Subs -> Subs \cup {None}]
    /\ IsFiniteSet(events) /\ IsFiniteSet({e.sub : e \in events})

\* What an event says of its subscription was so when Stripe sent it.
SentTrue ==
    /\ \A s \in Subs : subs[s] # "none" => customer[s] # None
    /\ \A e \in events :
         /\ subs[e.sub] \notin {"none", "open"}
         /\ e.customer = customer[e.sub] /\ e.time <= clock
         /\ e.status = "canceled" <=> e.kind = "deleted"
         /\ e.kind = "deleted" => subs[e.sub] = "canceled"
    /\ \A d, e \in events :
         d.sub = e.sub /\ e.status = "incomplete" /\ d.status # "incomplete" => e.time <= d.time

\* The newest event about a subscription says its state; once it has ended, a
\* late payment may follow the event that says so.
NewestTrue ==
    \A s \in Subs :
        /\ subs[s] \in {"incomplete", "active", "past_due"} =>
             \E e \in events : /\ e.sub = s /\ e.status = subs[s]
                               /\ \A d \in events : d.sub = s => d.time <= e.time
        /\ subs[s] = "canceled" => \E e \in events : e.sub = s /\ e.kind = "deleted"

RowTrue ==
    /\ row.sub = None <=> row.customer = None
    /\ row.sub = None <=> row.status = None
    /\ row.sub = None => ~plan
    /\ row.sub # None => row.customer = customer[row.sub] /\ subs[row.sub] \notin {"none", "open"}
    /\ row.sub \notin row.retired
    /\ kind # "personal" => row.retired = {}
    /\ Terminal => ~plan /\ row.sub # None /\ subs[row.sub] = "canceled"

\* An end that a personal account recorded is still in its row.
EndsTrue ==
    kind = "personal" =>
        /\ ended \subseteq row.retired \cup {row.sub}
        /\ row.sub \in ended => Terminal

OneSub == \A d, e \in events : d.sub = e.sub

\* The events claimed in order: equal times say the same, nothing follows an
\* end, the row is that of the newest event about its subscription, and the plan
\* is that of the row.
ClaimsTrue ==
    /\ \A d, e \in claimed : d.time = e.time => d.sub = e.sub /\ d.status = e.status
    /\ \A d, e \in claimed : d.kind = "deleted" /\ d.sub = e.sub => e.time <= d.time
    /\ row.sub # None =>
         \E w \in claimed : /\ w.sub = row.sub /\ w.status = row.status
                            /\ kind = "personal" => w.time = row.created
                            /\ \A e \in claimed : e.sub = row.sub => e.time <= w.time
    /\ kind = "personal" \/ OneSub => (plan <=> row.status = "active")

StripeIInv ==
    /\ AccountOK /\ StripeOK /\ SentTrue /\ NewestTrue /\ RowTrue /\ EndsTrue
    /\ ordered => ClaimsTrue

LEMMA StripeInit == Init => StripeIInv
  <1> SUFFICES ASSUME Init PROVE StripeIInv
    OBVIOUS
  <1> USE NoneAssumption, StripeAssumption
  <1>1. row \in RowType /\ row.sub = None /\ row.customer = None /\ row.status = None
        /\ row.retired = {}
    BY DEF Init, RowType
  <1>2. {e.sub : e \in events} = {} /\ events = {}
    BY DEF Init
  <1>3. AccountOK /\ StripeOK
    BY <1>1, <1>2, FS_EmptySet DEF Init, AccountOK, StripeOK, SubStates
  <1>4. SentTrue /\ NewestTrue
    BY <1>2 DEF Init, SentTrue, NewestTrue
  <1>5. RowTrue /\ EndsTrue
    BY <1>1 DEF Init, RowTrue, EndsTrue, Terminal, None
  <1>6. ClaimsTrue
    BY <1>1 DEF Init, ClaimsTrue, None
  <1> QED BY <1>3, <1>4, <1>5, <1>6 DEF StripeIInv

-----------------------------------------------------------------------------
(* The customer and Stripe.                                                 *)

LEMMA CheckoutStep ==
    ASSUME StripeIInv, NEW s \in Subs, Checkout(s)
    PROVE  StripeIInv'
  <1> USE NoneAssumption
  <1>1. /\ subs[s] = "none" /\ subs' = [subs EXCEPT ![s] = "open"]
        /\ UNCHANGED <<kind, row, plan, claimed, ended, ordered, clock, events>>
    BY DEF Checkout, account
  <1>2. PICK c \in Subs : customer' = [customer EXCEPT ![s] = c]
    BY DEF Checkout, StripeIInv, AccountOK, RowType
  <1>3. AccountOK' /\ StripeOK'
    BY <1>1, <1>2 DEF StripeIInv, AccountOK, StripeOK, SubStates, RowType, EventType
  <1>4. /\ \A r \in Subs : r # s => subs'[r] = subs[r] /\ customer'[r] = customer[r]
        /\ subs'[s] = "open" /\ customer'[s] = c
    BY <1>1, <1>2 DEF StripeIInv, StripeOK
  <1>5. \A e \in events : e.sub \in Subs /\ e.sub # s
    BY <1>1 DEF StripeIInv, StripeOK, SentTrue, EventType
  <1>6. SentTrue' /\ NewestTrue'
    BY <1>1, <1>4, <1>5 DEF StripeIInv, SentTrue, NewestTrue
  <1>7. row.sub # None => row.sub \in Subs /\ row.sub # s
    BY <1>1 DEF StripeIInv, AccountOK, RowType, RowTrue
  <1>8. RowTrue' /\ EndsTrue' /\ (ordered' => ClaimsTrue')
    BY <1>1, <1>4, <1>7 DEF StripeIInv, RowTrue, EndsTrue, ClaimsTrue, Terminal, OneSub
  <1> QED BY <1>3, <1>6, <1>8 DEF StripeIInv

\* Stripe moves the subscription s and sends an event about it.
LEMMA SendStep ==
    ASSUME StripeIInv, NEW s \in Subs, NEW state \in SubStates \ {"none", "open"},
           NEW kinds \in SUBSET EventKinds, NEW status \in Statuses,
           subs[s] # "none", subs' = [subs EXCEPT ![s] = state], customer' = customer,
           Send(s, kinds, status),
           status # state => subs[s] = "canceled" /\ status # "canceled",
           subs[s] = "canceled" => state = "canceled",
           IF status = "canceled" THEN kinds = {"deleted"} ELSE "deleted" \notin kinds,
           status = "incomplete" => subs[s] = "open"
    PROVE  StripeIInv'
  <1> USE NoneAssumption, StripeAssumption
  <1>1. PICK k \in kinds :
          events' = events \cup
             {[id |-> Cardinality(events) + 1, kind |-> k, sub |-> s, customer |-> customer'[s],
               status |-> status, time |-> clock']}
    BY DEF Send
  <1> DEFINE e == [id |-> Cardinality(events) + 1, kind |-> k, sub |-> s,
                   customer |-> customer[s], status |-> status, time |-> clock']
  <1>2. events' = events \cup {e}
    BY <1>1
  <1>3. /\ clock \in Nat /\ clock' \in Nat /\ clock <= clock'
        /\ UNCHANGED <<kind, row, plan, claimed, ended, ordered>>
    BY DEF Send, account, StripeIInv, StripeOK
  <1>4. customer[s] \in Subs
    BY DEF StripeIInv, StripeOK, SentTrue
  <1>5. e \in EventType
    <2>1. Cardinality(events) \in Nat
      BY FS_CardinalityType DEF StripeIInv, StripeOK
    <2>2. Cardinality(events) + 1 \in 1..MaxEvents
      BY <2>1 DEF Send
    <2> QED BY <1>3, <1>4, <2>2 DEF EventType
  <1>6. /\ e.kind = k /\ e.sub = s /\ e.customer = customer[s] /\ e.status = status
        /\ e.time = clock'
    OBVIOUS
  <1> HIDE DEF e
  <1>7. /\ \A r \in Subs : r # s => subs'[r] = subs[r]
        /\ subs'[s] = state /\ subs' \in [Subs -> SubStates]
    BY DEF StripeIInv, StripeOK
  <1>8. AccountOK'
    BY <1>2, <1>3 DEF StripeIInv, AccountOK, RowType
  <1>9. StripeOK'
    <2>1. {d.sub : d \in events'} = {d.sub : d \in events} \cup {s}
      BY <1>2, <1>6
    <2>2. IsFiniteSet(events) /\ IsFiniteSet({d.sub : d \in events})
      BY DEF StripeIInv, StripeOK
    <2>3. IsFiniteSet(events') /\ IsFiniteSet({d.sub : d \in events'})
      <3> DEFINE Named == {d.sub : d \in events}
      <3>1. \A S, x : IsFiniteSet(S) => IsFiniteSet(S \cup {x})
        BY FS_AddElement
      <3>2. IsFiniteSet(events \cup {e}) /\ IsFiniteSet(Named \cup {s})
        BY <2>2, <3>1
      <3> QED BY <1>2, <2>1, <3>2
    <2> QED BY <1>2, <1>3, <1>5, <1>7, <2>3 DEF StripeIInv, StripeOK, EventType
  <1>10. \A d \in events : /\ d.sub \in Subs /\ d.time \in Nat /\ d.time <= clock'
                           /\ subs[s] = "open" => d.sub # s
    BY <1>3 DEF StripeIInv, StripeOK, EventType, SentTrue
  <1>11. SentTrue'
    <2>1. status = "canceled" <=> k = "deleted"
      OBVIOUS
    <2>2. \A r \in Subs : subs'[r] # "none" => customer'[r] # None
      BY <1>7 DEF StripeIInv, SentTrue
    <2>3. ASSUME NEW d \in events'
          PROVE  /\ subs'[d.sub] \notin {"none", "open"}
                 /\ d.customer = customer'[d.sub] /\ d.time <= clock'
                 /\ d.status = "canceled" <=> d.kind = "deleted"
                 /\ d.kind = "deleted" => subs'[d.sub] = "canceled"
      BY <1>2, <1>3, <1>6, <1>7, <1>10, <2>1, <2>3 DEF StripeIInv, SentTrue
    <2>4. ASSUME NEW c \in events', NEW d \in events', c.sub = d.sub,
                 d.status = "incomplete", c.status # "incomplete"
          PROVE  d.time <= c.time
      BY <1>2, <1>3, <1>6, <1>10, <2>4 DEF StripeIInv, SentTrue
    <2> QED BY <2>2, <2>3, <2>4 DEF SentTrue
  <1>12. NewestTrue'
    <2> SUFFICES ASSUME NEW r \in Subs
                 PROVE  /\ subs'[r] \in {"incomplete", "active", "past_due"} =>
                             \E c \in events' : /\ c.sub = r /\ c.status = subs'[r]
                                                /\ \A d \in events' : d.sub = r => d.time <= c.time
                        /\ subs'[r] = "canceled" =>
                             \E c \in events' : c.sub = r /\ c.kind = "deleted"
      BY DEF NewestTrue
    <2>1. CASE r = s /\ status = state
      <3>1. e \in events' /\ e.time <= clock' /\ clock' <= e.time
        BY <1>2, <1>3, <1>6
      <3>2. \A d \in events' : d.time <= e.time
        BY <1>2, <1>3, <1>6, <1>10
      <3> QED BY <1>6, <1>7, <2>1, <3>1, <3>2
    <2>2. CASE r = s /\ status # state
      BY <1>2, <1>7, <2>2 DEF StripeIInv, NewestTrue
    <2>3. CASE r # s
      BY <1>2, <1>6, <1>7, <2>3 DEF StripeIInv, NewestTrue
    <2> QED BY <2>1, <2>2, <2>3
  <1>13. RowTrue' /\ EndsTrue'
    BY <1>3, <1>7 DEF StripeIInv, RowTrue, EndsTrue, Terminal, AccountOK, RowType, SubStates
  <1>14. ordered' => ClaimsTrue'
    <2>1. OneSub' => OneSub
      BY <1>2 DEF OneSub
    <2> QED BY <1>3, <2>1 DEF StripeIInv, ClaimsTrue
  <1> QED BY <1>8, <1>9, <1>11, <1>12, <1>13, <1>14 DEF StripeIInv

LEMMA SubscriptionStep ==
    ASSUME StripeIInv, NEW s \in Subs,
           Complete(s) \/ Pay(s) \/ FailPayment(s) \/ Cancel(s) \/ PayLate(s)
    PROVE  StripeIInv'
  <1> USE DEF SubStates, EventKinds, Statuses
  <1>1. CASE Complete(s)
    <2>1. PICK status \in {"incomplete", "active"} :
            /\ subs' = [subs EXCEPT ![s] = status] /\ customer' = customer
            /\ Send(s, IF status = "active" THEN {"checkout", "created"} ELSE {"created"}, status)
      BY <1>1 DEF Complete
    <2> DEFINE kinds == IF status = "active" THEN {"checkout", "created"} ELSE {"created"}
    <2>2. kinds \in SUBSET EventKinds /\ "deleted" \notin kinds /\ Send(s, kinds, status)
      BY <2>1
    <2> HIDE DEF kinds
    <2> QED BY <1>1, <2>1, <2>2, SendStep DEF Complete
  <1>2. CASE Pay(s)
    BY <1>2, SendStep DEF Pay
  <1>3. CASE FailPayment(s)
    BY <1>3, SendStep DEF FailPayment
  <1>4. CASE Cancel(s)
    <2>1. {"deleted"} \in SUBSET EventKinds
      OBVIOUS
    <2> QED BY <1>4, <2>1, SendStep DEF Cancel
  <1>5. CASE PayLate(s)
    <2>1. subs' = [subs EXCEPT ![s] = "canceled"]
      BY <1>5 DEF PayLate, StripeIInv, StripeOK
    <2> QED BY <1>5, <2>1, SendStep DEF PayLate
  <1> QED BY <1>1, <1>2, <1>3, <1>4, <1>5

-----------------------------------------------------------------------------
(* The webhook.                                                             *)

\* What a delivery in order follows, and that it keeps the order.
LEMMA OrderKept ==
    ASSUME StripeIInv, NEW e \in events, Deliver(e), ordered'
    PROVE  /\ ordered /\ ClaimsTrue
           /\ \A d \in claimed : /\ d.time <= e.time
                                 /\ d.time = e.time => d.sub = e.sub /\ d.status = e.status
                                 /\ d.sub = e.sub => d.kind # "deleted"
           /\ \A c, d \in claimed' : c.time = d.time => c.sub = d.sub /\ c.status = d.status
           /\ \A c, d \in claimed' : c.kind = "deleted" /\ c.sub = d.sub => d.time <= c.time
  <1>1. claimed' = claimed \cup {e} /\ ordered /\ ~Late(e) /\ e \notin claimed
    BY DEF Deliver, Unclaimed
  <1>2. ClaimsTrue
    BY <1>1 DEF StripeIInv
  <1>3. \A d \in claimed \cup {e} : d.time \in Nat
    BY DEF StripeIInv, AccountOK, StripeOK, EventType
  <1>4. ASSUME NEW d \in claimed
        PROVE  /\ d.time <= e.time
               /\ d.time = e.time => d.sub = e.sub /\ d.status = e.status
               /\ d.sub = e.sub => d.kind # "deleted"
    BY <1>1, <1>3 DEF Late
  <1>5. ASSUME NEW c \in claimed', NEW d \in claimed', c.time = d.time
        PROVE  c.sub = d.sub /\ c.status = d.status
    BY <1>1, <1>2, <1>4, <1>5 DEF ClaimsTrue
  <1>6. ASSUME NEW c \in claimed', NEW d \in claimed', c.kind = "deleted", c.sub = d.sub
        PROVE  d.time <= c.time
    BY <1>1, <1>2, <1>3, <1>4, <1>6 DEF ClaimsTrue
  <1> QED BY <1>1, <1>2, <1>4, <1>5, <1>6

\* An event that the account does not take.
LEMMA IgnoredStep ==
    ASSUME StripeIInv, NEW e \in events, Deliver(e), ~Accepts(e)
    PROVE  StripeIInv'
  <1> USE NoneAssumption
  <1>1. /\ claimed' = claimed \cup {e}
        /\ UNCHANGED <<kind, row, plan, ended, subs, customer, clock, events>>
        /\ ordered' \in BOOLEAN
    BY DEF Deliver
  <1>2. AccountOK' /\ StripeOK' /\ SentTrue' /\ NewestTrue' /\ RowTrue' /\ EndsTrue'
    BY <1>1 DEF StripeIInv, AccountOK, StripeOK, SentTrue, NewestTrue, RowTrue, EndsTrue,
                Terminal
  <1>3. ASSUME ordered', row.sub # None
        PROVE  \E w \in claimed' : /\ w.sub = row'.sub /\ w.status = row'.status
                                   /\ kind' = "personal" => w.time = row'.created
                                   /\ \A d \in claimed' : d.sub = row'.sub => d.time <= w.time
    <2>1. PICK w \in claimed : /\ w.sub = row.sub /\ w.status = row.status
                               /\ kind = "personal" => w.time = row.created
                               /\ \A d \in claimed : d.sub = row.sub => d.time <= w.time
      BY <1>3, OrderKept DEF ClaimsTrue
    <2>2. ASSUME e.sub = row.sub PROVE kind = "personal" /\ ~(e.time > row.created)
      <3>1. Matches(e) /\ kind = "personal" /\ ~PersonalAccepts(e)
        BY <2>2 DEF Matches, Accepts
      <3>2. row.customer = e.customer /\ e.sub \notin row.retired /\ ~Replacement(e)
        BY <1>3, <2>2 DEF StripeIInv, SentTrue, RowTrue, Replacement
      <3>3. ~Terminal
        BY <1>3, <2>1, <2>2, OrderKept DEF Terminal, StripeIInv, AccountOK, SentTrue
      <3> QED BY <3>1, <3>2, <3>3 DEF PersonalAccepts, NotResurrected
    <2>3. e.time \in Nat /\ row.created \in Nat
      BY DEF StripeIInv, AccountOK, StripeOK, EventType, RowType
    <2>4. e.sub = row.sub => e.time <= w.time
      BY <2>1, <2>2, <2>3
    <2> QED BY <1>1, <2>1, <2>4
  <1>4. ASSUME ordered' PROVE ClaimsTrue'
    <2>1. OneSub' <=> OneSub
      BY <1>1 DEF OneSub
    <2>2. kind' = "personal" \/ OneSub' => (plan' <=> row'.status = "active")
      BY <1>1, <1>4, <2>1, OrderKept DEF ClaimsTrue
    <2> QED BY <1>1, <1>3, <1>4, <2>2, OrderKept DEF ClaimsTrue
  <1> QED BY <1>2, <1>4 DEF StripeIInv

\* An event that the account takes.
LEMMA AppliedStep ==
    ASSUME StripeIInv, NEW e \in events, Deliver(e), Accepts(e)
    PROVE  StripeIInv'
  <1> USE NoneAssumption
  <1>1. /\ claimed' = claimed \cup {e} /\ Apply(e) /\ ordered' \in BOOLEAN
        /\ UNCHANGED <<kind, subs, customer, clock, events>>
    BY DEF Deliver
  <1>2. e \in EventType /\ row \in RowType
    BY DEF StripeIInv, AccountOK, StripeOK
  <1>3. /\ row' \in RowType /\ row'.sub = e.sub /\ row'.customer = e.customer
        /\ row'.status = e.status /\ row'.retired = Retired(e)
        /\ kind = "personal" => row'.created = e.time
    <2>1. Retired(e) \in SUBSET Subs
      BY <1>2 DEF Retired, RowType, Replacement
    <2>2. row' = [customer |-> e.customer, sub |-> e.sub, status |-> e.status,
                  created |-> IF kind = "personal" THEN e.time ELSE row.created,
                  retired |-> Retired(e)]
      BY <1>1 DEF Apply
    <2> QED BY <1>2, <2>1, <2>2 DEF RowType, EventType
  <1>4. /\ e.sub \in Subs /\ e.customer \in Subs /\ e.sub # None /\ e.customer # None
        /\ e.status \in Statuses /\ e.status # None /\ e.time \in Nat
    BY <1>2 DEF EventType, Statuses, None
  <1>5. /\ plan' = PatchedPlan(e) /\ plan' \in BOOLEAN
        /\ e.status = "active" => plan' = TRUE
        /\ e.status \in {"past_due", "canceled"} => plan' = FALSE
        /\ e.status = "incomplete" => plan' = plan
    BY <1>1, <1>4 DEF Apply, PatchedPlan, Statuses, StripeIInv, AccountOK
  <1>6. ended' = IF e.status = "canceled" THEN ended \cup {e.sub} ELSE ended
    BY <1>1 DEF Apply
  <1>7. AccountOK' /\ StripeOK' /\ SentTrue' /\ NewestTrue'
    BY <1>1, <1>3, <1>4, <1>5, <1>6
       DEF StripeIInv, AccountOK, StripeOK, SentTrue, NewestTrue, RowType, EventType
  <1>8. RowTrue'
    <2>1. e.sub \notin Retired(e)
      BY <1>4 DEF Accepts, PersonalAccepts, Retired, Replacement, StripeIInv, RowTrue
    <2>2. kind # "personal" => Retired(e) = {}
      BY DEF Retired, StripeIInv, RowTrue
    <2>3. /\ e.customer = customer[e.sub] /\ subs[e.sub] \notin {"none", "open"}
          /\ e.status = "canceled" => subs[e.sub] = "canceled"
      BY DEF StripeIInv, SentTrue
    <2>4. Terminal' => ~plan' /\ row'.sub # None /\ subs'[row'.sub] = "canceled"
      BY <1>1, <1>3, <1>4, <1>5, <2>3 DEF Terminal
    <2> QED BY <1>1, <1>3, <1>4, <2>1, <2>2, <2>3, <2>4 DEF RowTrue
  <1>9. EndsTrue'
    <2> SUFFICES ASSUME kind = "personal"
                 PROVE  /\ ended' \subseteq row'.retired \cup {row'.sub}
                        /\ row'.sub \in ended' => Terminal'
      BY <1>1 DEF EndsTrue
    <2>1. PersonalAccepts(e) /\ ended \subseteq row.retired \cup {row.sub} /\ ended \subseteq Subs
      BY DEF Accepts, StripeIInv, EndsTrue, AccountOK
    <2>2. ended' \subseteq row'.retired \cup {row'.sub}
      BY <1>3, <1>6, <2>1 DEF Retired, Replacement
    <2>3. ASSUME e.sub \in ended, e.status # "canceled" PROVE FALSE
      <3>1. e.sub = row.sub /\ Terminal
        BY <2>1, <2>3 DEF PersonalAccepts, StripeIInv, EndsTrue
      <3> QED BY <2>1, <2>3, <3>1 DEF PersonalAccepts, NotResurrected, Replacement, Terminal
    <2> QED BY <1>3, <1>6, <2>2, <2>3 DEF Terminal
  <1>10. ASSUME ordered' PROVE ClaimsTrue'
    <2>1. OneSub' <=> OneSub
      BY <1>1 DEF OneSub
    <2>2. \E w \in claimed' : /\ w.sub = row'.sub /\ w.status = row'.status
                              /\ kind' = "personal" => w.time = row'.created
                              /\ \A d \in claimed' : d.sub = row'.sub => d.time <= w.time
      BY <1>1, <1>3, <1>4, <1>10, OrderKept
    <2>3. ASSUME kind = "personal" \/ OneSub, e.status = "incomplete" PROVE ~plan
      <3>1. CASE row.sub = None
        BY <3>1 DEF StripeIInv, RowTrue
      <3>2. CASE row.sub # None
        <4>1. PICK w \in claimed : w.sub = row.sub /\ w.status = row.status
          BY <1>10, <3>2, OrderKept DEF ClaimsTrue
        <4>2. w \in events /\ w.time \in Nat
          BY DEF StripeIInv, AccountOK, StripeOK, EventType
        <4>3. e.sub = row.sub
          <5>1. CASE kind = "personal"
            BY <2>3, <3>2, <5>1 DEF Accepts, PersonalAccepts, Replacement, MayReplace
          <5>2. CASE OneSub
            BY <4>1, <4>2, <5>2 DEF OneSub
          <5> QED BY <2>3, <5>1, <5>2
        <4>4. w.status = "incomplete"
          <5>1. w.status # "incomplete" => e.time <= w.time
            BY <2>3, <4>1, <4>2, <4>3 DEF StripeIInv, SentTrue
          <5>2. w.time <= e.time /\ (w.time = e.time => w.status = e.status)
            BY <1>10, OrderKept
          <5> QED BY <1>4, <2>3, <4>2, <5>1, <5>2
        <4> QED BY <1>10, <2>3, <4>1, <4>4, OrderKept DEF ClaimsTrue
      <3> QED BY <3>1, <3>2
    <2>4. kind' = "personal" \/ OneSub' => (plan' <=> row'.status = "active")
      BY <1>1, <1>3, <1>4, <1>5, <2>1, <2>3 DEF Statuses
    <2> QED BY <1>10, <2>2, <2>4, OrderKept DEF ClaimsTrue
  <1> QED BY <1>7, <1>8, <1>9, <1>10 DEF StripeIInv

LEMMA StripeStep == StripeIInv /\ [Next]_vars => StripeIInv'
  <1> SUFFICES ASSUME StripeIInv, [Next]_vars PROVE StripeIInv'
    OBVIOUS
  <1>1. CASE UNCHANGED <<kind, row, plan, claimed, subs, customer, clock, events, ordered, ended>>
    BY <1>1 DEF StripeIInv, AccountOK, StripeOK, SentTrue, NewestTrue, RowTrue, EndsTrue,
                ClaimsTrue, Terminal, OneSub
  <1>2. CASE UNCHANGED vars
    BY <1>1, <1>2 DEF vars
  <1>3. ASSUME NEW s \in Subs, Checkout(s) PROVE StripeIInv'
    BY <1>3, CheckoutStep
  <1>4. ASSUME NEW s \in Subs,
               Complete(s) \/ Pay(s) \/ FailPayment(s) \/ Cancel(s) \/ PayLate(s)
        PROVE  StripeIInv'
    BY <1>4, SubscriptionStep
  <1>5. ASSUME NEW e \in events, Deliver(e) PROVE StripeIInv'
    BY <1>5, IgnoredStep, AppliedStep
  <1>6. ASSUME NEW e \in events, FailDelivery(e) PROVE StripeIInv'
    BY <1>1, <1>6 DEF FailDelivery, Rollback
  <1> QED BY <1>2, <1>3, <1>4, <1>5, <1>6 DEF Next

THEOREM StripeInvariant == Spec => []StripeIInv
  BY StripeInit, StripeStep, PTL DEF Spec

-----------------------------------------------------------------------------
(* The properties of the run StripeEvents.                                  *)

\* The variables have the values their tables and Stripe's objects allow; a
\* retired subscription is never the recorded one.
THEOREM StripeTypesCorrect == Spec => []StripeTypeOK
  <1>1. StripeIInv => StripeTypeOK
    BY DEF StripeIInv, AccountOK, StripeOK, RowTrue, StripeTypeOK, RowType, EventType
  <1> QED BY <1>1, StripeInvariant, PTL

\* Once every event has been claimed, each in its turn, the account has a plan
\* exactly while its recorded subscription is active.
THEOREM PlanIsThatOfTheSubscription == Spec => []PlanFollowsSubscription
  <1>1. StripeIInv => PlanFollowsSubscription
    <2> SUFFICES ASSUME StripeIInv, ordered, claimed = events, row.sub # None,
                        kind = "personal" \/ Cardinality({e.sub : e \in events}) = 1
                 PROVE  plan <=> subs[row.sub] = "active"
      BY DEF PlanFollowsSubscription
    <2> DEFINE s == row.sub
    <2>1. PICK w \in events : /\ w.sub = s /\ w.status = row.status
                              /\ \A e \in events : e.sub = s => e.time <= w.time
      BY DEF StripeIInv, ClaimsTrue
    <2>2. \A d, e \in events : /\ d.time = e.time => d.status = e.status
                               /\ d.kind = "deleted" /\ d.sub = e.sub => e.time <= d.time
      BY DEF StripeIInv, ClaimsTrue
    <2>3. \A d \in events : d.time \in Nat
      BY DEF StripeIInv, StripeOK, EventType
    <2>4. s \in Subs /\ subs[s] \in {"incomplete", "active", "past_due", "canceled"}
      BY DEF StripeIInv, AccountOK, RowType, StripeOK, SubStates, RowTrue
    <2>5. row.status = subs[s]
      <3>1. CASE subs[s] = "canceled"
        <4>1. PICK e \in events : e.sub = s /\ e.kind = "deleted"
          BY <2>4, <3>1 DEF StripeIInv, NewestTrue
        <4>2. e.status = "canceled"
          BY <4>1 DEF StripeIInv, SentTrue
        <4>3. e.time <= w.time /\ w.time <= e.time
          BY <2>1, <2>2, <4>1
        <4> QED BY <2>1, <2>2, <2>3, <3>1, <4>2, <4>3
      <3>2. CASE subs[s] # "canceled"
        <4>1. PICK e \in events : /\ e.sub = s /\ e.status = subs[s]
                                  /\ \A d \in events : d.sub = s => d.time <= e.time
          BY <2>4, <3>2 DEF StripeIInv, NewestTrue
        <4>2. e.time <= w.time /\ w.time <= e.time
          BY <2>1, <4>1
        <4> QED BY <2>1, <2>2, <2>3, <4>1, <4>2
      <3> QED BY <3>1, <3>2
    <2>6. kind = "personal" \/ OneSub
      <3>1. ASSUME Cardinality({e.sub : e \in events}) = 1 PROVE OneSub
        <4>1. IsFiniteSet({e.sub : e \in events})
          BY DEF StripeIInv, StripeOK
        <4>2. PICK x : {e.sub : e \in events} = {x}
          BY <3>1, <4>1, FS_Singleton
        <4>3. \A e \in events : e.sub = x
          BY <4>2
        <4> QED BY <4>3 DEF OneSub
      <3> QED BY <3>1
    <2> QED BY <2>5, <2>6 DEF StripeIInv, ClaimsTrue
  <1> QED BY <1>1, StripeInvariant, PTL

\* In whatever order events arrive, a personal account has no plan by a
\* subscription whose end it recorded.
THEOREM EndedSubscriptionStaysEnded == Spec => []EndedStaysEnded
  <1>1. StripeIInv => EndedStaysEnded
    BY DEF StripeIInv, EndsTrue, RowTrue, EndedStaysEnded
  <1> QED BY <1>1, StripeInvariant, PTL

\* A personal account changes to another subscription only when Stripe has
\* ended the recorded one.
THEOREM OnlyEndedIsReplaced == Spec => ReplacesEnded
  <1>1. StripeIInv /\ [Next]_vars
        => [kind = "personal" /\ row.sub # None /\ row'.sub # row.sub
              => subs[row.sub] = "canceled"]_vars
    <2> SUFFICES ASSUME StripeIInv, Next, kind = "personal", row.sub # None, row'.sub # row.sub
                 PROVE  subs[row.sub] = "canceled"
      OBVIOUS
    <2>1. ~\E s \in Subs : \/ Checkout(s) \/ Complete(s) \/ Pay(s) \/ FailPayment(s)
                           \/ Cancel(s) \/ PayLate(s)
      BY DEF Checkout, Complete, Pay, FailPayment, Cancel, PayLate, Send, account
    <2>2. ~\E e \in events : FailDelivery(e)
      BY DEF FailDelivery, Rollback
    <2>3. PICK e \in events : Deliver(e)
      BY <2>1, <2>2 DEF Next
    <2>4. PersonalAccepts(e) /\ row'.sub = e.sub
      BY <2>3 DEF Deliver, Accepts, Apply
    <2>5. Terminal
      BY <2>4 DEF PersonalAccepts, Replacement, MayReplace
    <2> QED BY <2>5 DEF StripeIInv, RowTrue
  <1> QED BY <1>1, StripeInvariant, PTL DEF Spec, ReplacesEnded
=============================================================================
