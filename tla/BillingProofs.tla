---------------------------- MODULE BillingProofs ----------------------------
(* Theorems about Billing, for any number of subscriptions, customers and   *)
(* concurrent calls, and any limits of the plans.                           *)
EXTENDS Billing, FiniteSetTheorems, TLAPS

-----------------------------------------------------------------------------
(* What a change at Stripe does                                             *)

(* The subscriptions in S change or begin, each by one version, and every   *)
(* new version is an event; none that is canceled changes, and one that     *)
(* will end still will, or it is noted that a half-done cancel call of it   *)
(* was taken back.                                                          *)
StripeStep(S, kinds) ==
  /\ stripe' \in [Subs -> Sub]
  /\ \A s \in Subs : stripe'[s].id = s
  /\ \A s \in Subs \ S : stripe'[s] = stripe[s]
  /\ \A s \in S : /\ stripe'[s].version = stripe[s].version + 1
                  /\ stripe'[s].status # "none"
                  /\ Born(s) /\ stripe[s].ending /\ HalfCancelled(s)
                       => stripe'[s].ending \/ takenBack'
                  /\ stripe[s].status # "canceled"
  /\ pending' = pending \cup [kind : kinds, sub : {stripe'[s] : s \in S}]

(* The ids of the subscriptions are their own, and one that has not begun   *)
(* has no version.                                                          *)
SubsInv == \A s \in Subs : stripe[s].id = s /\ (~Born(s) => stripe[s].version = 0)

LEMMA PublishIsStripeStep ==
  ASSUME TypeOK, SubsInv,
         NEW S \in SUBSET Subs, NEW changed, NEW kinds,
         changed \in [S -> Sub],
         \A s \in S : /\ changed[s].id = s
                      /\ changed[s].status # "none"
                      /\ changed[s].version = stripe[s].version
                      /\ Born(s) /\ stripe[s].ending /\ HalfCancelled(s)
                           => changed[s].ending \/ takenBack'
                      /\ stripe[s].status # "canceled",
         Publish(changed, kinds)
  PROVE  StripeStep(S, kinds)
<1> DEFINE next == [s \in S |-> [changed[s] EXCEPT !.version = changed[s].version + 1]]
<1>1. stripe \in [Subs -> Sub]
  BY DEF TypeOK, StripeTypeOK
<1>2. DOMAIN changed = S
  OBVIOUS
<1>3. /\ stripe' = [s \in Subs |-> IF s \in S THEN next[s] ELSE stripe[s]]
      /\ pending' = pending \cup [kind : kinds, sub : {next[s] : s \in S}]
  BY <1>2 DEF Publish
<1>4. \A s \in S : /\ next[s] \in Sub
                   /\ next[s].version = stripe[s].version + 1
                   /\ next[s].id = s /\ next[s].status = changed[s].status
                   /\ next[s].ending = changed[s].ending
  <2>1. SUFFICES ASSUME NEW s \in S
        PROVE  /\ next[s] \in Sub
               /\ next[s].version = stripe[s].version + 1
               /\ next[s].id = s /\ next[s].status = changed[s].status
               /\ next[s].ending = changed[s].ending
    OBVIOUS
  <2>2. changed[s] \in Sub
    OBVIOUS
  <2>3. next[s] = [changed[s] EXCEPT !.version = changed[s].version + 1]
    OBVIOUS
  <2> HIDE DEF next
  <2>4. QED
    BY <2>2, <2>3 DEF Sub
<1> HIDE DEF next
<1>5. \A s \in S : stripe'[s] = next[s]
  BY <1>3
<1>6. {next[s] : s \in S} = {stripe'[s] : s \in S}
  BY <1>5
<1>7. \A s \in Subs \ S : stripe'[s] = stripe[s]
  BY <1>3
<1>8. stripe' \in [Subs -> Sub]
  BY <1>1, <1>3, <1>4
<1>9. \A s \in Subs : stripe'[s].id = s
  BY <1>4, <1>5, <1>7 DEF SubsInv
<1>10. \A s \in S : /\ stripe'[s].version = stripe[s].version + 1
                    /\ stripe'[s].status # "none"
                    /\ Born(s) /\ stripe[s].ending /\ HalfCancelled(s)
                         => stripe'[s].ending \/ takenBack'
                    /\ stripe[s].status # "canceled"
  BY <1>4, <1>5
<1>11. QED
  BY <1>3, <1>6, <1>7, <1>8, <1>9, <1>10 DEF StripeStep

LEMMA NextSubFacts ==
  ASSUME \E s \in Subs : ~Born(s)
  PROVE  NextSub \in Subs /\ ~Born(NextSub)
BY DEF NextSub

LEMMA UnbornType == \A s \in Subs : Unborn(s) \in Sub
BY DEF Unborn, Sub, Statuses, Metas, Prices

LEMMA CompleteCheckoutStep ==
  ASSUME TypeOK, SubsInv, CompleteCheckout
  PROVE  NextSub \in Subs /\ StripeStep({NextSub}, {"subscription", "checkout"})
<1>1. NextSub \in Subs /\ ~Born(NextSub)
  BY NextSubFacts DEF CompleteCheckout
<1>2. PICK session \in sessions :
        Publish([s \in {NextSub} |-> [Unborn(s) EXCEPT
          !.status = "active", !.meta = session[2], !.customer = session[1]]],
          {"subscription", "checkout"})
  BY DEF CompleteCheckout
<1>3. session[1] \in Customers /\ session[2] \in Metas
  BY DEF TypeOK, StripeTypeOK, Metas
<1> DEFINE new == [Unborn(NextSub) EXCEPT
                     !.status = "active", !.meta = session[2], !.customer = session[1]]
           changed == [s \in {NextSub} |-> new]
<1>4. /\ new \in Sub /\ new.id = NextSub /\ new.status = "active" /\ new.version = 0
  BY <1>1, <1>3 DEF Unborn, Sub, Statuses, Metas, Prices
<1>5. Publish(changed, {"subscription", "checkout"})
  BY <1>2
<1> HIDE DEF new
<1>6. changed \in [{NextSub} -> Sub] /\ changed[NextSub] = new
  BY <1>4
<1> HIDE DEF changed
<1>7. stripe[NextSub].version = 0 /\ stripe[NextSub].status # "canceled"
  BY <1>1 DEF SubsInv, Born
<1>8. QED
  BY <1>1, <1>4, <1>5, <1>6, <1>7, PublishIsStripeStep

LEMMA SubscribeElsewhereStep ==
  ASSUME TypeOK, SubsInv, SubscribeElsewhere
  PROVE  NextSub \in Subs /\ StripeStep({NextSub}, {"subscription"})
<1>1. NextSub \in Subs /\ ~Born(NextSub)
  BY NextSubFacts DEF SubscribeElsewhere
<1>2. PICK c \in live, price \in Prices :
        Publish([s \in {NextSub} |-> [Unborn(s) EXCEPT
          !.status = "active", !.price = price, !.named = FALSE, !.customer = c]],
          {"subscription"})
  BY DEF SubscribeElsewhere
<1>3. c \in Customers
  BY DEF TypeOK, StripeTypeOK
<1> DEFINE new == [Unborn(NextSub) EXCEPT
                     !.status = "active", !.price = price, !.named = FALSE, !.customer = c]
           changed == [s \in {NextSub} |-> new]
<1>4. /\ new \in Sub /\ new.id = NextSub /\ new.status = "active" /\ new.version = 0
  BY <1>1, <1>3 DEF Unborn, Sub, Statuses, Metas, Prices
<1>5. Publish(changed, {"subscription"})
  BY <1>2
<1> HIDE DEF new
<1>6. changed \in [{NextSub} -> Sub] /\ changed[NextSub] = new
  BY <1>4
<1> HIDE DEF changed
<1>7. stripe[NextSub].version = 0 /\ stripe[NextSub].status # "canceled"
  BY <1>1 DEF SubsInv, Born
<1>8. QED
  BY <1>1, <1>4, <1>5, <1>6, <1>7, PublishIsStripeStep

LEMMA ChangeAtStripeStep ==
  ASSUME TypeOK, SubsInv, NEW s \in Subs, ChangeAtStripe(s)
  PROVE  StripeStep({s}, {"subscription"})
<1>1. stripe[s] \in Sub /\ stripe[s].id = s /\ stripe[s].status # "canceled"
  BY DEF TypeOK, StripeTypeOK, SubsInv, ChangeAtStripe
<1>2. PICK new \in Changed(stripe[s]) :
        /\ Publish([r \in {s} |-> new], {"subscription"})
        /\ stripe[s].ending /\ ~new.ending /\ HalfCancelled(s) => takenBack'
  BY DEF ChangeAtStripe
<1> DEFINE changed == [r \in {s} |-> new]
<1>3. new \in Sub /\ new.id = s /\ new.status # "none" /\ new.version = stripe[s].version
  <2>1. stripe[s].status # "none"
    BY DEF ChangeAtStripe
  <2>2. ASSUME NEW status \in {"active", "past_due", "canceled"},
               new = [stripe[s] EXCEPT !.status = status]
        PROVE  <1>3
    BY <1>1, <2>2 DEF Sub, Statuses
  <2>3. ASSUME NEW price \in Prices, new = [stripe[s] EXCEPT !.price = price]
        PROVE  <1>3
    BY <1>1, <2>1, <2>3 DEF Sub
  <2>4. CASE new = [stripe[s] EXCEPT !.ending = ~stripe[s].ending]
    BY <1>1, <2>1, <2>4 DEF Sub
  <2>5. QED
    BY <1>1, <2>2, <2>3, <2>4 DEF Changed, Sub
<1>4. Publish(changed, {"subscription"})
  BY <1>2
<1>5. changed \in [{s} -> Sub] /\ changed[s] = new
  BY <1>3
<1> HIDE DEF changed
<1>6. QED
  BY <1>1, <1>2, <1>3, <1>4, <1>5, PublishIsStripeStep DEF Sub

LEMMA DeleteCustomerStep ==
  ASSUME TypeOK, SubsInv, NEW c \in Customers, DeleteCustomer(c)
  PROVE  \E S \in SUBSET Subs : StripeStep(S, {"subscription"})
<1> DEFINE ended == {s \in Subs : stripe[s].customer = c /\ stripe[s].status # "canceled"}
           changed == [s \in ended |-> [stripe[s] EXCEPT !.status = "canceled"]]
<1>1. \A s \in ended : /\ stripe[s] \in Sub /\ stripe[s].id = s
                       /\ stripe[s].status # "canceled"
  BY DEF TypeOK, StripeTypeOK, SubsInv
<1>2. \A s \in ended : /\ [stripe[s] EXCEPT !.status = "canceled"] \in Sub
                       /\ [stripe[s] EXCEPT !.status = "canceled"].id = s
                       /\ [stripe[s] EXCEPT !.status = "canceled"].status = "canceled"
                       /\ [stripe[s] EXCEPT !.status = "canceled"].version = stripe[s].version
                       /\ [stripe[s] EXCEPT !.status = "canceled"].ending = stripe[s].ending
  BY <1>1 DEF Sub, Statuses
<1>3. Publish(changed, {"subscription"})
  BY DEF DeleteCustomer
<1>4. ended \in SUBSET Subs
  OBVIOUS
<1> HIDE DEF ended
<1>5. /\ changed \in [ended -> Sub]
      /\ \A s \in ended : /\ changed[s].id = s /\ changed[s].status = "canceled"
                          /\ changed[s].version = stripe[s].version
                          /\ changed[s].ending = stripe[s].ending
  BY <1>2
<1> HIDE DEF changed
<1>6. QED
  BY <1>1, <1>3, <1>4, <1>5, PublishIsStripeStep

LEMMA UpdateStripeStep ==
  ASSUME TypeOK, SubsInv, NEW x \in Cancellers, UpdateStripe(x),
         cancel[x].sub \in Subs, Born(cancel[x].sub)
  PROVE  \/ /\ UNCHANGED <<stripe, pending>>
            /\ stripe[cancel[x].sub].ending \/ stripe[cancel[x].sub].status = "canceled"
         \/ StripeStep({cancel[x].sub}, {"subscription"}) /\ stripe'[cancel[x].sub].ending
<1> DEFINE s == cancel[x].sub
           new == [stripe[s] EXCEPT !.ending = TRUE]
           changed == [r \in {s} |-> new]
<1>1. stripe[s] \in Sub /\ stripe[s].id = s /\ stripe[s].status # "none"
  BY DEF TypeOK, StripeTypeOK, SubsInv, Born
<1>2. SUFFICES ASSUME stripe[s].status # "canceled", Publish(changed, {"subscription"})
      PROVE  StripeStep({s}, {"subscription"}) /\ stripe'[s].ending
  BY DEF UpdateStripe
<1>3. /\ new \in Sub /\ new.id = s /\ new.status # "none" /\ new.ending
      /\ new.version = stripe[s].version
  BY <1>1 DEF Sub
<1>4. s \in Subs
  OBVIOUS
<1> HIDE DEF new, s
<1>5. changed \in [{s} -> Sub] /\ changed[s] = new
  BY <1>3
<1>6. stripe'[s].ending
  <2>1. s \in DOMAIN changed
    BY <1>5
  <2>2. stripe'[s] = [changed[s] EXCEPT !.version = @ + 1]
    BY <1>2, <1>4, <2>1 DEF Publish
  <2>3. QED
    BY <1>3, <1>5, <2>2 DEF Sub
<1> HIDE DEF changed
<1>7. QED
  BY <1>1, <1>2, <1>3, <1>4, <1>5, <1>6, PublishIsStripeStep

-----------------------------------------------------------------------------
(* Types                                                                    *)

(* Whatever names a subscription names one that has begun.                  *)
BornInv ==
  /\ SubsInv
  /\ \A e \in pending : Born(e.sub.id)
  /\ \A h \in Handlers : hook[h].pc # "idle" => Born(hook[h].sub.id)
  /\ user.sub # None => Born(user.sub)
  /\ \A x \in Cancellers : cancel[x].pc \in {"update", "write"} => Born(cancel[x].sub)

LEMMA StripeStepType ==
  ASSUME TypeOK, NEW S \in SUBSET Subs, NEW kinds \in SUBSET {"subscription", "checkout"},
         StripeStep(S, kinds)
  PROVE  stripe' \in [Subs -> Sub] /\ pending' \subseteq Event
<1>1. /\ stripe' \in [Subs -> Sub]
      /\ pending' = pending \cup [kind : kinds, sub : {stripe'[s] : s \in S}]
  BY DEF StripeStep
<1>2. pending \subseteq Event
  BY DEF TypeOK, StripeTypeOK
<1>3. QED
  BY <1>1, <1>2 DEF Event

(* The changes at Stripe, all in one.                                       *)
StripeAction ==
  \/ CompleteCheckout \/ SubscribeElsewhere
  \/ \E s \in Subs : ChangeAtStripe(s)
  \/ \E c \in Customers : DeleteCustomer(c)
  \/ \E x \in Cancellers : UpdateStripe(x)

LEMMA StripeActionStep ==
  ASSUME TypeOK, BornInv, StripeAction
  PROVE  \/ UNCHANGED <<stripe, pending>>
         \/ \E S \in SUBSET Subs, kinds \in SUBSET {"subscription", "checkout"} :
              "subscription" \in kinds /\ StripeStep(S, kinds)
<1>1. SubsInv
  BY DEF BornInv
<1>2. CASE CompleteCheckout
  BY <1>1, <1>2, CompleteCheckoutStep
<1>3. CASE SubscribeElsewhere
  BY <1>1, <1>3, SubscribeElsewhereStep
<1>4. ASSUME NEW s \in Subs, ChangeAtStripe(s)
      PROVE  StripeStep({s}, {"subscription"})
  BY <1>1, <1>4, ChangeAtStripeStep
<1>5. ASSUME NEW c \in Customers, DeleteCustomer(c)
      PROVE  \E S \in SUBSET Subs : StripeStep(S, {"subscription"})
  BY <1>1, <1>5, DeleteCustomerStep
<1>6. ASSUME NEW x \in Cancellers, UpdateStripe(x)
      PROVE  \/ UNCHANGED <<stripe, pending>>
             \/ cancel[x].sub \in Subs /\ StripeStep({cancel[x].sub}, {"subscription"})
  <2>1. cancel[x].pc = "update"
    BY <1>6 DEF UpdateStripe
  <2>2. cancel[x].sub \in Subs /\ Born(cancel[x].sub)
    BY <2>1 DEF TypeOK, CancelState, BornInv
  <2>3. QED
    BY <1>1, <1>6, <2>2, UpdateStripeStep
<1>7. QED
  BY <1>2, <1>3, <1>4, <1>5, <1>6 DEF StripeAction

LEMMA StripeActionType ==
  ASSUME TypeOK, BornInv, StripeAction
  PROVE  stripe' \in [Subs -> Sub] /\ pending' \subseteq Event
BY StripeActionStep, StripeStepType DEF TypeOK, StripeTypeOK

LEMMA EntitlementType ==
  ASSUME NEW sub \in Sub
  PROVE  /\ Entitlement(sub).plan \in {"FREE", "PRO"}
         /\ Entitlement(sub).limit \in Nat \ {0}
BY BillingAssumption DEF Entitlement, hostLimitFor

(* The two initial states of the user.                                      *)
NeverPaid ==
  /\ stripe = [s \in Subs |-> Unborn(s)] /\ live = {}
  /\ user = Unpaid /\ row = None
  /\ newest = [s \in Subs |-> 0] /\ last = None /\ peak = FreeHosts

Subscribed(t, c) ==
  /\ stripe = [r \in Subs |-> IF r = t THEN FirstSub(t, c) ELSE Unborn(r)] /\ live = {c}
  /\ user = Paying(t, c) /\ row = [sub |-> t, status |-> "active", customer |-> c]
  /\ newest = [r \in Subs |-> IF r = t THEN 1 ELSE 0] /\ last = t /\ peak = ProHosts

LEMMA InitialCases ==
  ASSUME Init
  PROVE  NeverPaid \/ \E t \in Subs, c \in Customers : Subscribed(t, c)
<1> DEFINE t == CHOOSE s \in Subs : TRUE
           c == CHOOSE k \in Customers : TRUE
<1>1. t \in Subs /\ c \in Customers
  BY BillingAssumption
<1>2. NeverPaid \/ Subscribed(t, c)
  BY DEF Init, NeverPaid, Subscribed
<1>3. QED
  BY <1>1, <1>2

LEMMA InitialTypes == Init => TypeOK
<1> SUFFICES ASSUME Init PROVE TypeOK
  OBVIOUS
<1>1. IdleHook \in HookState /\ IdleCall \in CallState /\ IdleCancel \in CancelState
  BY DEF IdleHook, HookState, IdleCall, CallState, IdleCancel, CancelState
<1>2. /\ hook \in [Handlers -> HookState] /\ call \in [Callers -> CallState]
      /\ cancel \in [Cancellers -> CancelState]
  BY <1>1 DEF Init
<1>3. QuotaTypeOK
  <2>1. IdleCreate \in CreateState
    BY DEF IdleCreate, CreateState
  <2>2. QED
    BY <2>1 DEF Init, QuotaInit, QuotaTypeOK
<1>4. calls \in 0..MaxCalls /\ missed = FALSE /\ crossed = FALSE /\ takenBack = FALSE
      /\ deleted = {} /\ sessions = {} /\ pending = {}
  BY BillingAssumption DEF Init
<1>5. CASE NeverPaid
  <2>1. user \in User
    BY <1>5, BillingAssumption DEF NeverPaid, Unpaid, User, Statuses
  <2>2. QED
    BY <1>2, <1>3, <1>4, <1>5, <2>1, UnbornType, BillingAssumption
    DEF NeverPaid, TypeOK, StripeTypeOK, UserTypeOK, HistoryTypeOK
<1>6. ASSUME NEW t \in Subs, NEW c \in Customers, Subscribed(t, c) PROVE TypeOK
  <2>1. FirstSub(t, c) \in Sub
    BY DEF FirstSub, Unborn, Sub, Statuses, Metas, Prices
  <2>2. user \in User
    BY <1>6, BillingAssumption DEF Subscribed, Paying, User, Statuses
  <2>3. stripe \in [Subs -> Sub]
    BY <1>6, <2>1, UnbornType DEF Subscribed
  <2>4. row \in [sub : Subs, status : Statuses, customer : Customers \cup {None}]
    BY <1>6 DEF Subscribed, Statuses
  <2>5. newest \in [Subs -> Nat]
    BY <1>6 DEF Subscribed
  <2>6. peak \in Nat
    BY <1>6, BillingAssumption DEF Subscribed
  <2>7. QED
    BY <1>2, <1>3, <1>4, <1>6, <2>2, <2>3, <2>4, <2>5, <2>6
    DEF Subscribed, TypeOK, StripeTypeOK, UserTypeOK, HistoryTypeOK
<1>7. QED
  BY <1>5, <1>6, InitialCases

LEMMA SpendType ==
  ASSUME TypeOK, Spend \/ UNCHANGED calls
  PROVE  calls' \in 0..MaxCalls
BY BillingAssumption DEF TypeOK, Spend

LEMMA StripeKeepsTypes ==
  ASSUME TypeOK, BornInv, StripeAction
  PROVE  TypeOK'
<1>1. stripe' \in [Subs -> Sub] /\ pending' \subseteq Event
  BY StripeActionType
<1>2. ASSUME CompleteCheckout \/ SubscribeElsewhere \/ \E s \in Subs : ChangeAtStripe(s)
      PROVE  TypeOK'
  <2>1. UNCHANGED <<live, deleted, Others>> /\ Spend /\ sessions' \subseteq sessions
    BY <1>2 DEF CompleteCheckout, SubscribeElsewhere, ChangeAtStripe
  <2>2. calls' \in 0..MaxCalls
    BY <2>1, SpendType
  <2>3. takenBack' \in BOOLEAN
    BY <1>2 DEF CompleteCheckout, SubscribeElsewhere, ChangeAtStripe, TypeOK, HistoryTypeOK
  <2>4. QED
    BY <1>1, <2>1, <2>2, <2>3 DEF TypeOK, StripeTypeOK, UserTypeOK, HistoryTypeOK, QuotaTypeOK,
                                  Others, history, quotaVars
<1>3. ASSUME NEW c \in Customers, DeleteCustomer(c)
      PROVE  TypeOK'
  <2>1. UNCHANGED <<takenBack, Others>> /\ calls' \in 0..MaxCalls
    BY <1>3, SpendType DEF DeleteCustomer
  <2>2. /\ live' = live \ {c} /\ deleted' = deleted \cup {c}
        /\ sessions' = {session \in sessions : session[1] # c}
    BY <1>3 DEF DeleteCustomer
  <2>3. /\ live' \subseteq Customers /\ deleted' \subseteq Customers \ live'
        /\ sessions' \subseteq (live' \X {"PRO", "other"})
    BY <1>3, <2>2 DEF TypeOK, StripeTypeOK
  <2>4. QED
    BY <1>1, <2>1, <2>3 DEF TypeOK, StripeTypeOK, UserTypeOK, HistoryTypeOK, QuotaTypeOK,
                            Others, history, quotaVars
<1>4. ASSUME NEW x \in Cancellers, UpdateStripe(x)
      PROVE  TypeOK'
  <2>1. UNCHANGED <<user, calls, CancelRest>>
    BY <1>4 DEF UpdateStripe
  <2>2. cancel[x] \in [pc : {"update", "write"}, sub : Subs, customer : Customers \cup {None}]
    BY <1>4 DEF TypeOK, CancelState, UpdateStripe
  <2>3. /\ IdleCancel \in CancelState
        /\ [cancel[x] EXCEPT !.pc = "write"] \in CancelState
    BY <2>2 DEF IdleCancel, CancelState
  <2>4. cancel' \in [Cancellers -> CancelState]
    BY <1>4, <2>3 DEF TypeOK, UpdateStripe, EndCancel
  <2>5. QED
    BY <1>1, <2>1, <2>4 DEF TypeOK, StripeTypeOK, UserTypeOK, HistoryTypeOK, QuotaTypeOK,
                            CancelRest, history, quotaVars
<1>5. QED
  BY <1>2, <1>3, <1>4 DEF StripeAction

(* A request that is under way, with the subscription it carries.           *)
LEMMA BusyHook ==
  ASSUME TypeOK, NEW h \in Handlers, hook[h].pc # "idle"
  PROVE  /\ hook[h] \in [pc : {"find", "row", "user"}, event : Event, sub : Sub]
         /\ \A pc \in {"find", "row", "user"} : [hook[h] EXCEPT !.pc = pc] \in HookState
<1>1. hook[h] \in [pc : {"find", "row", "user"}, event : Event, sub : Sub]
  BY DEF TypeOK, HookState, IdleHook
<1>2. QED
  BY <1>1 DEF HookState

LEMMA HookKeepsTypes ==
  ASSUME TypeOK, NEW h \in Handlers, HookStep(h) \/ FailHook(h)
  PROVE  TypeOK'
<1>1. IdleHook \in HookState
  BY DEF HookState
<1>2. CASE Receive(h)
  <2>1. PICK e \in pending :
          hook' = [hook EXCEPT ![h] =
            [pc |-> "find", event |-> e,
             sub |-> IF e.kind = "checkout" THEN stripe[e.sub.id] ELSE e.sub]]
    BY <1>2 DEF Receive
  <2>2. e \in Event /\ e.sub \in Sub /\ stripe[e.sub.id] \in Sub
    BY DEF TypeOK, StripeTypeOK, Event, Sub
  <2>3. hook' \in [Handlers -> HookState]
    BY <2>1, <2>2 DEF TypeOK, HookState
  <2>4. UNCHANGED <<pending, user, row, calls, history, HookRest>>
    BY <1>2 DEF Receive
  <2>5. QED
    BY <2>3, <2>4 DEF TypeOK, StripeTypeOK, UserTypeOK, HistoryTypeOK, QuotaTypeOK,
                      HookRest, history, quotaVars
<1>3. CASE FindUser(h)
  <2>1. /\ hook' \in [Handlers -> HookState] /\ pending' \subseteq pending
        /\ missed' \in BOOLEAN /\ crossed' \in BOOLEAN
    BY <1>1, <1>3, BusyHook DEF FindUser, Acknowledge, TypeOK, HistoryTypeOK
  <2>2. UNCHANGED <<user, row, calls, newest, last, peak, HookRest>>
    BY <1>3 DEF FindUser
  <2>3. QED
    BY <2>1, <2>2 DEF TypeOK, StripeTypeOK, UserTypeOK, HistoryTypeOK, QuotaTypeOK,
                      HookRest, quotaVars
<1>4. CASE UpsertRow(h)
  <2>1. hook[h].sub \in Sub
    BY <1>4, BusyHook DEF UpsertRow
  <2>2. hook' \in [Handlers -> HookState] /\ crossed' \in BOOLEAN
    BY <1>4, BusyHook DEF UpsertRow, TypeOK, HistoryTypeOK
  <2>3. row' \in [sub : Subs, status : Statuses, customer : Customers \cup {None}]
    BY <1>4, <2>1 DEF UpsertRow, Sub
  <2>4. UNCHANGED <<pending, user, calls, newest, last, missed, peak, HookRest>>
    BY <1>4 DEF UpsertRow
  <2>5. QED
    BY <2>2, <2>3, <2>4 DEF TypeOK, StripeTypeOK, UserTypeOK, HistoryTypeOK, QuotaTypeOK,
                            HookRest, quotaVars
<1>5. CASE UpdateUser(h)
  <2> DEFINE sub == hook[h].sub
  <2>1. sub \in Sub
    BY <1>5, BusyHook DEF UpdateUser
  <2>2. /\ user' = [customer |-> sub.customer, sub |-> sub.id, status |-> sub.status,
                    plan |-> Entitlement(sub).plan, limit |-> Entitlement(sub).limit]
        /\ peak' = IF Entitlement(sub).limit > peak THEN Entitlement(sub).limit ELSE peak
        /\ missed' = (missed \/ sub.version < newest[sub.id])
        /\ newest' = [newest EXCEPT ![sub.id] =
                        IF sub.version > newest[sub.id] THEN sub.version ELSE newest[sub.id]]
        /\ last' = sub.id
    BY <1>5, <2>1 DEF UpdateUser, TypeOK, HistoryTypeOK, Sub
  <2>3. /\ hook' \in [Handlers -> HookState] /\ pending' \subseteq pending
        /\ Spend \/ UNCHANGED calls
    BY <1>1, <1>5 DEF UpdateUser, Acknowledge, TypeOK
  <2>4. UNCHANGED <<row, crossed, HookRest>>
    BY <1>5 DEF UpdateUser
  <2>5. user' \in User
    BY <2>1, <2>2, EntitlementType DEF User, Sub
  <2>6. newest' \in [Subs -> Nat] /\ last' \in Subs /\ missed' \in BOOLEAN /\ peak' \in Nat
    BY <2>1, <2>2, EntitlementType DEF Sub, TypeOK, HistoryTypeOK
  <2>7. calls' \in 0..MaxCalls
    BY <2>3, SpendType
  <2>8. QED
    BY <2>3, <2>4, <2>5, <2>6, <2>7 DEF TypeOK, StripeTypeOK, UserTypeOK, HistoryTypeOK,
                                        QuotaTypeOK, HookRest, quotaVars
<1>6. CASE FailHook(h)
  <2>1. hook' \in [Handlers -> HookState] /\ crossed' \in BOOLEAN
    BY <1>1, <1>6 DEF FailHook, TypeOK, HistoryTypeOK
  <2>2. UNCHANGED <<pending, user, row, newest, last, missed, peak, HookRest>>
    BY <1>6 DEF FailHook
  <2>3. calls' \in 0..MaxCalls
    BY <1>6, SpendType DEF FailHook
  <2>4. QED
    BY <2>1, <2>2, <2>3 DEF TypeOK, StripeTypeOK, UserTypeOK, HistoryTypeOK, QuotaTypeOK,
                            HookRest, quotaVars
<1>7. QED
  BY <1>2, <1>3, <1>4, <1>5, <1>6 DEF HookStep

LEMMA GotoType ==
  ASSUME TypeOK, NEW k \in Callers, NEW customer \in Customers \cup {None},
         NEW pc \in {"idle", "retrieve", "clear", "create", "save", "session"},
         Goto(k, pc, customer)
  PROVE  call' \in [Callers -> CallState]
<1>1. call[k] \in CallState
  BY DEF TypeOK
<1>2. \A r \in CallState : [r EXCEPT !.pc = pc] \in CallState
  BY DEF CallState
<1>3. \A r \in CallState : [r EXCEPT !.customer = customer] \in CallState
  BY DEF CallState
<1>4. call' = [call EXCEPT ![k] = [[call[k] EXCEPT !.pc = pc] EXCEPT !.customer = customer]]
  BY DEF Goto, TypeOK
<1>5. [[call[k] EXCEPT !.pc = pc] EXCEPT !.customer = customer] \in CallState
  BY <1>1, <1>2, <1>3
<1>6. QED
  BY <1>4, <1>5 DEF TypeOK

LEMMA CallKeepsTypes ==
  ASSUME TypeOK, NEW k \in Callers, CallStep(k)
  PROVE  TypeOK'
<1>1. IdleCall \in CallState
  BY DEF IdleCall, CallState
<1>2. /\ live \subseteq Customers /\ user \in User /\ call[k] \in CallState
      /\ user.customer \in Customers \cup {None} /\ call[k].customer \in Customers \cup {None}
  BY DEF TypeOK, StripeTypeOK, UserTypeOK, User, CallState
<1>3. UNCHANGED CallRest
  BY DEF CallStep, BeginCall, RetrieveCustomer, ClearCustomer, CreateCustomer, SaveCustomer,
         OpenSession, FailCall
<1>4. calls' \in 0..MaxCalls
  BY SpendType DEF CallStep, BeginCall, RetrieveCustomer, ClearCustomer, CreateCustomer,
                   SaveCustomer, OpenSession, FailCall
<1>5. SUFFICES /\ call' \in [Callers -> CallState]
               /\ user' \in User
               /\ live' \subseteq Customers /\ deleted \subseteq Customers \ live'
               /\ sessions' \subseteq (live' \X {"PRO", "other"})
  BY <1>3, <1>4 DEF TypeOK, StripeTypeOK, UserTypeOK, HistoryTypeOK, QuotaTypeOK,
                    CallRest, history, quotaVars
<1>6. /\ deleted \subseteq Customers \ live /\ sessions \subseteq (live \X {"PRO", "other"})
  BY DEF TypeOK, StripeTypeOK
<1>7. CASE BeginCall(k)
  <2>1. PICK plan \in {"PRO", "other", None} :
          call' = [call EXCEPT ![k] =
            [pc |-> IF user.customer = None THEN "create" ELSE "retrieve", plan |-> plan,
             customer |-> user.customer, gone |-> deleted]]
    BY <1>7 DEF BeginCall
  <2>2. call' \in [Callers -> CallState]
    BY <1>2, <1>6, <2>1 DEF TypeOK, CallState
  <2>3. QED
    BY <1>2, <1>6, <1>7, <2>2 DEF BeginCall
<1>8. CASE RetrieveCustomer(k)
  BY <1>2, <1>6, <1>8, GotoType DEF RetrieveCustomer
<1>9. CASE ClearCustomer(k)
  <2>1. [user EXCEPT !.customer = None] \in User
    BY <1>2 DEF User
  <2>2. call' \in [Callers -> CallState]
    BY <1>9, GotoType DEF ClearCustomer
  <2>3. QED
    BY <1>2, <1>6, <1>9, <2>1, <2>2 DEF ClearCustomer
<1>10. CASE CreateCustomer(k)
  <2>1. PICK c \in Fresh : live' = live \cup {c} /\ Goto(k, "save", c)
    BY <1>10 DEF CreateCustomer
  <2>2. c \in Customers /\ c \notin live \cup deleted
    BY <2>1 DEF Fresh
  <2>3. call' \in [Callers -> CallState]
    BY <2>1, <2>2, GotoType
  <2>4. UNCHANGED <<sessions, user>>
    BY <1>10 DEF CreateCustomer
  <2>5. sessions' \subseteq (live' \X {"PRO", "other"})
    BY <1>6, <2>1, <2>4
  <2>6. QED
    BY <1>2, <1>6, <2>1, <2>2, <2>3, <2>4, <2>5
<1>11. CASE SaveCustomer(k)
  <2>1. [user EXCEPT !.customer = call[k].customer] \in User
    BY <1>2 DEF User
  <2>2. call' \in [Callers -> CallState]
    BY <1>2, <1>11, GotoType DEF SaveCustomer
  <2>3. QED
    BY <1>2, <1>6, <1>11, <2>1, <2>2 DEF SaveCustomer
<1>12. CASE OpenSession(k)
  <2>1. call[k].plan \in {"PRO", "other", None}
    BY <1>2 DEF CallState
  <2>2. call' \in [Callers -> CallState]
    BY <1>1, <1>12 DEF OpenSession, EndCall, TypeOK
  <2>3. sessions' \subseteq (live \X {"PRO", "other"})
    BY <1>6, <1>12, <2>1 DEF OpenSession
  <2>4. QED
    BY <1>2, <1>6, <1>12, <2>2, <2>3 DEF OpenSession
<1>13. CASE FailCall(k)
  BY <1>1, <1>2, <1>6, <1>13 DEF FailCall, EndCall, TypeOK
<1>14. QED
  BY <1>7, <1>8, <1>9, <1>10, <1>11, <1>12, <1>13 DEF CallStep

LEMMA CancelKeepsTypes ==
  ASSUME TypeOK, NEW x \in Cancellers,
         BeginCancel(x) \/ ListActive(x) \/ WriteMarker(x) \/ FailCancel(x)
  PROVE  TypeOK'
<1>1. IdleCancel \in CancelState
  BY DEF IdleCancel, CancelState
<1>2. user \in User /\ cancel \in [Cancellers -> CancelState] /\ cancel[x] \in CancelState
  BY DEF TypeOK, UserTypeOK
<1>3. UNCHANGED <<stripe, pending, CancelRest>>
  BY DEF BeginCancel, ListActive, WriteMarker, FailCancel
<1>4. calls' \in 0..MaxCalls
  BY SpendType DEF BeginCancel, ListActive, WriteMarker, FailCancel
<1>5. SUFFICES cancel' \in [Cancellers -> CancelState] /\ user' \in User
  BY <1>3, <1>4 DEF TypeOK, StripeTypeOK, UserTypeOK, HistoryTypeOK, QuotaTypeOK,
                    CancelRest, history, quotaVars
<1>6. CASE BeginCancel(x)
  <2>1. [pc |-> IF user.sub # None THEN "update" ELSE "list", sub |-> user.sub,
         customer |-> user.customer] \in CancelState
    BY <1>2 DEF User, CancelState
  <2>2. QED
    BY <1>2, <1>6, <2>1 DEF BeginCancel
<1>7. CASE ListActive(x)
  <2>1. cancel[x] \in [pc : {"idle", "list"}, sub : {None}, customer : Customers \cup {None}]
    BY <1>2, <1>7 DEF ListActive, CancelState
  <2>2. \A s \in Subs : [cancel[x] EXCEPT !.pc = "update", !.sub = s] \in CancelState
    <3>1. SUFFICES ASSUME NEW s \in Subs
          PROVE  [cancel[x] EXCEPT !.pc = "update", !.sub = s]
                 \in [pc : {"update", "write"}, sub : Subs, customer : Customers \cup {None}]
      BY DEF CancelState
    <3>2. QED
      BY <2>1
  <2>3. UNCHANGED user
    BY <1>7 DEF ListActive
  <2>4. cancel' \in [Cancellers -> CancelState]
    <3>1. CASE EndCancel(x)
      BY <1>1, <1>2, <3>1 DEF EndCancel
    <3>2. ASSUME NEW s \in Subs, cancel' = [cancel EXCEPT ![x].pc = "update", ![x].sub = s]
          PROVE  cancel' \in [Cancellers -> CancelState]
      <4>1. cancel' = [cancel EXCEPT ![x] = [cancel[x] EXCEPT !.pc = "update", !.sub = s]]
        BY <1>2, <3>2
      <4>2. QED
        BY <1>2, <2>2, <4>1
    <3>3. QED
      BY <1>7, <3>1, <3>2 DEF ListActive
  <2>5. QED
    BY <1>2, <2>3, <2>4
<1>8. CASE WriteMarker(x)
  <2>1. cancel[x].sub \in Subs
    BY <1>2, <1>8 DEF WriteMarker, CancelState
  <2>2. [user EXCEPT !.sub = cancel[x].sub, !.status = Marker] \in User
    <3>1. [user EXCEPT !.sub = cancel[x].sub] \in User
      BY <1>2, <2>1 DEF User
    <3>2. \A u \in User : [u EXCEPT !.status = Marker] \in User
      BY DEF User
    <3>3. QED
      BY <3>1, <3>2
  <2>3. QED
    BY <1>1, <1>2, <1>8, <2>2 DEF WriteMarker, EndCancel
<1>9. CASE FailCancel(x)
  BY <1>1, <1>2, <1>9 DEF FailCancel, EndCancel
<1>10. QED
  BY <1>6, <1>7, <1>8, <1>9

LEMMA HostKeepsTypes ==
  ASSUME TypeOK, HostCall
  PROVE  TypeOK'
<1>1. /\ hosts \subseteq Slugs /\ create \in [Creators -> CreateState] /\ user.limit \in Nat
      /\ \A n \in Creators : create[n] \in CreateState
  BY DEF TypeOK, QuotaTypeOK, UserTypeOK, User
<1> DEFINE Idle == [pc : {"idle", "count", "slug"}, limit : Nat, slug : {NoSlug}]
<1>2. IdleCreate \in CreateState
  BY DEF IdleCreate, CreateState
<1>3. calls' \in 0..MaxCalls
  BY SpendType DEF HostCall
<1>4. SUFFICES hosts' \subseteq Slugs /\ create' \in [Creators -> CreateState]
  BY <1>3 DEF HostCall, TypeOK, StripeTypeOK, UserTypeOK, HistoryTypeOK, QuotaTypeOK,
              stripeVars, history
<1>5. ASSUME NEW n \in Creators, BeginCreate(n, user.limit)
      PROVE  hosts' \subseteq Slugs /\ create' \in [Creators -> CreateState]
  <2>1. create[n] \in Idle
    BY <1>1, <1>5 DEF BeginCreate, CreateState
  <2>2. [create[n] EXCEPT !.pc = "count"] \in Idle
    BY <2>1
  <2>3. \A r \in Idle : [r EXCEPT !.limit = user.limit] \in Idle
    BY <1>1
  <2>4. create' = [create EXCEPT ![n] = [[create[n] EXCEPT !.pc = "count"] EXCEPT !.limit = user.limit]]
    BY <1>1, <1>5 DEF BeginCreate
  <2>5. [[create[n] EXCEPT !.pc = "count"] EXCEPT !.limit = user.limit] \in CreateState
    BY <2>2, <2>3 DEF CreateState
  <2>6. QED
    BY <1>1, <1>5, <2>4, <2>5 DEF BeginCreate
<1>6. ASSUME NEW n \in Creators, CountHosts(n)
      PROVE  hosts' \subseteq Slugs /\ create' \in [Creators -> CreateState]
  <2>1. create[n] \in Idle
    BY <1>1, <1>6 DEF CountHosts, CreateState
  <2>2. [create[n] EXCEPT !.pc = "slug"] \in CreateState
    BY <2>1 DEF CreateState
  <2>3. QED
    BY <1>1, <1>2, <1>6, <2>2 DEF CountHosts
<1>7. ASSUME NEW n \in Creators, findUniqueSlug(n)
      PROVE  hosts' \subseteq Slugs /\ create' \in [Creators -> CreateState]
  <2>1. PICK name \in HostNames, i \in 0..MaxSuffix :
          create' = [create EXCEPT ![n].pc = "insert", ![n].slug = <<name, i>>]
    BY <1>7 DEF findUniqueSlug
  <2> DEFINE new == [[create[n] EXCEPT !.pc = "insert"] EXCEPT !.slug = <<name, i>>]
  <2>2. <<name, i>> \in Slugs
    BY DEF Slugs
  <2>3. create[n] \in Idle
    BY <1>1, <1>7 DEF findUniqueSlug, CreateState
  <2>4. new \in CreateState
    BY <2>2, <2>3 DEF CreateState
  <2>5. create' = [create EXCEPT ![n] = new]
    BY <1>1, <2>1
  <2> HIDE DEF new
  <2>6. QED
    BY <1>1, <1>7, <2>4, <2>5 DEF findUniqueSlug
<1>8. ASSUME NEW n \in Creators, InsertHost(n)
      PROVE  hosts' \subseteq Slugs /\ create' \in [Creators -> CreateState]
  <2>1. create[n].slug \in Slugs
    BY <1>1, <1>8 DEF InsertHost, CreateState
  <2>2. QED
    BY <1>1, <1>2, <1>8, <2>1 DEF InsertHost
<1>9. ASSUME NEW t \in hosts, DeleteHost(t)
      PROVE  hosts' \subseteq Slugs /\ create' \in [Creators -> CreateState]
  BY <1>1, <1>9 DEF DeleteHost
<1>10. QED
  BY <1>5, <1>6, <1>7, <1>8, <1>9 DEF HostCall, CreateStep

-----------------------------------------------------------------------------
(* The cancellation marker                                                  *)

Ends(s) == stripe[s].ending \/ stripe[s].status = "canceled"

(* The webhook that takes the marker from the user is still to come.        *)
Announced(s) == \E e \in pending : e.sub = stripe[s]

(* A cancellation that is about to mark the user has seen to it that the    *)
(* subscription ends. Of one that has marked the user the same is true, or  *)
(* its end was taken back since, and the event of that is still there.      *)
MarkInv ==
  /\ \A x \in Cancellers : cancel[x].pc = "write" /\ ~takenBack => Ends(cancel[x].sub)
  /\ user.status = Marker => user.sub # None
  /\ user.status = Marker /\ ~takenBack /\ ~missed => Ends(user.sub) \/ Announced(user.sub)

SubInv == TypeOK /\ BornInv /\ MarkInv

(* What holds of each subscription after a change at Stripe.                *)
StripeKeeps ==
  /\ SubsInv'
  /\ \A s \in Subs : Born(s) =>
       /\ Born(s)'
       /\ Ends(s) /\ HalfCancelled(s) => Ends(s)' \/ takenBack'
       /\ Ends(s) \/ Announced(s) => Ends(s)' \/ Announced(s)'
  /\ \A e \in pending' : e \in pending \/ Born(e.sub.id)'

LEMMA StripeStepKeeps ==
  ASSUME TypeOK, SubsInv, NEW S \in SUBSET Subs,
         NEW kinds \in SUBSET {"subscription", "checkout"}, "subscription" \in kinds,
         StripeStep(S, kinds)
  PROVE  StripeKeeps
<1>1. \A s \in Subs : stripe[s] \in Sub /\ stripe'[s] \in Sub
  BY DEF TypeOK, StripeTypeOK, StripeStep
<1>2. SubsInv'
  BY DEF SubsInv, StripeStep, Born
<1>3. \A s \in Subs : Born(s) => Born(s)'
  BY <1>1 DEF StripeStep, Born, Sub
<1>4. ASSUME NEW s \in Subs, Born(s), Ends(s), HalfCancelled(s) PROVE Ends(s)' \/ takenBack'
  BY <1>1, <1>4 DEF StripeStep, Ends, Sub
<1>5. ASSUME NEW s \in Subs, Ends(s) \/ Announced(s) PROVE Ends(s)' \/ Announced(s)'
  <2>1. CASE s \in S
    <3>1. [kind |-> "subscription", sub |-> stripe'[s]] \in pending'
      BY <2>1 DEF StripeStep
    <3>2. QED
      BY <3>1 DEF Announced
  <2>2. CASE s \notin S
    BY <1>5, <2>2 DEF StripeStep, Ends, Announced
  <2>3. QED
    BY <2>1, <2>2
<1>6. ASSUME NEW e \in pending', e \notin pending PROVE Born(e.sub.id)'
  <2>1. PICK s \in S : e.sub = stripe'[s]
    BY <1>6 DEF StripeStep
  <2>2. QED
    BY <2>1 DEF StripeStep, Born
<1>7. QED
  BY <1>2, <1>3, <1>4, <1>5, <1>6 DEF StripeKeeps

LEMMA StripeActionKeeps ==
  ASSUME TypeOK, BornInv, StripeAction
  PROVE  StripeKeeps
<1>1. CASE UNCHANGED <<stripe, pending>>
  BY <1>1 DEF StripeKeeps, BornInv, SubsInv, Born, Ends, Announced
<1>2. ASSUME NEW S \in SUBSET Subs, NEW kinds \in SUBSET {"subscription", "checkout"},
             "subscription" \in kinds, StripeStep(S, kinds)
      PROVE  StripeKeeps
  BY <1>2, StripeStepKeeps DEF BornInv
<1>3. QED
  BY <1>1, <1>2, StripeActionStep

LEMMA SubInvStripe ==
  ASSUME SubInv, StripeAction
  PROVE  BornInv' /\ MarkInv'
<1>1. TypeOK /\ BornInv /\ MarkInv
  BY DEF SubInv
<1>2. StripeKeeps
  BY <1>1, StripeActionKeeps
<1>3. /\ \A e \in pending : e.sub.id \in Subs
      /\ \A h \in Handlers : hook[h].pc # "idle" => hook[h].sub.id \in Subs
      /\ user.sub \in Subs \cup {None}
      /\ \A x \in Cancellers : cancel[x].pc \in {"update", "write"} => cancel[x].sub \in Subs
  BY <1>1, BusyHook DEF TypeOK, StripeTypeOK, UserTypeOK, User, Event, Sub, CancelState
<1>4. UNCHANGED <<user, hook, missed>> /\ (takenBack => takenBack')
  <2>1. CASE CompleteCheckout \/ SubscribeElsewhere \/ \E c \in Customers : DeleteCustomer(c)
    <3>1. UNCHANGED <<takenBack, Others>>
      BY <2>1 DEF CompleteCheckout, SubscribeElsewhere, DeleteCustomer
    <3>2. QED
      BY <3>1 DEF Others, history
  <2>2. ASSUME NEW s \in Subs, ChangeAtStripe(s) PROVE <1>4
    <3>1. \E new \in Changed(stripe[s]) :
            takenBack' = (takenBack \/ (stripe[s].ending /\ ~new.ending /\ HalfCancelled(s)))
      BY <2>2 DEF ChangeAtStripe
    <3>2. takenBack => takenBack'
      BY <3>1
    <3>3. QED
      BY <2>2, <3>2 DEF ChangeAtStripe, Others, history
  <2>3. ASSUME NEW x \in Cancellers, UpdateStripe(x) PROVE <1>4
    BY <2>3 DEF UpdateStripe, CancelRest, history
  <2>4. QED
    BY <2>1, <2>2, <2>3 DEF StripeAction
<1>5. (/\ \A e \in pending : Born(e.sub.id)
       /\ \A h \in Handlers : hook[h].pc # "idle" => Born(hook[h].sub.id)
       /\ user.sub # None => Born(user.sub)
       /\ user.status = Marker => user.sub # None
       /\ user.status = Marker /\ ~takenBack /\ ~missed =>
            Ends(user.sub) \/ Announced(user.sub))'
  <2>1. /\ \A e \in pending' : Born(e.sub.id)'
        /\ \A h \in Handlers : hook'[h].pc # "idle" => Born(hook[h].sub.id)'
    <3>1. /\ \A s \in Subs : Born(s) => Born(s)'
          /\ \A e \in pending' : e \in pending \/ Born(e.sub.id)'
      BY <1>2 DEF StripeKeeps
    <3>2. QED
      BY <1>1, <1>3, <1>4, <3>1 DEF BornInv, Born
  <2>2. /\ user'.sub # None => Born(user.sub)'
        /\ user'.status = Marker => user'.sub # None
    <3>1. \A s \in Subs : Born(s) => Born(s)'
      BY <1>2 DEF StripeKeeps
    <3>2. QED
      BY <1>1, <1>3, <1>4, <3>1 DEF BornInv, MarkInv, Born
  <2>3. ASSUME user'.status = Marker, ~takenBack', ~missed'
        PROVE  Ends(user.sub)' \/ Announced(user.sub)'
    <3>1. user.sub \in Subs /\ Born(user.sub) /\ (Ends(user.sub) \/ Announced(user.sub))
      BY <1>1, <1>3, <1>4, <2>3 DEF BornInv, MarkInv
    <3>2. QED
      BY <1>2, <1>4, <3>1 DEF StripeKeeps, Ends, Announced
  <2>4. QED
    BY <2>1, <2>2, <2>3
<1>6. (\A x \in Cancellers : /\ cancel[x].pc \in {"update", "write"} => Born(cancel[x].sub)
                             /\ cancel[x].pc = "write" /\ ~takenBack => Ends(cancel[x].sub))'
  <2>1. CASE UNCHANGED cancel
    <3>1. \A x \in Cancellers : cancel[x].pc = "write" => HalfCancelled(cancel[x].sub)
      BY DEF HalfCancelled
    <3>2. QED
      BY <1>1, <1>2, <1>3, <1>4, <2>1, <3>1 DEF StripeKeeps, BornInv, MarkInv, Born, Ends
  <2>2. ASSUME NEW x \in Cancellers, UpdateStripe(x)
        PROVE  <1>6
    <3>1. \A y \in Cancellers : y # x => cancel'[y] = cancel[y]
      BY <1>1, <2>2 DEF UpdateStripe, EndCancel, TypeOK
    <3>0. \A y \in Cancellers : cancel[y].pc = "write" => HalfCancelled(cancel[y].sub)
      BY DEF HalfCancelled
    <3>2. cancel[x].pc = "update" /\ cancel[x].sub \in Subs /\ Born(cancel[x].sub)
      BY <1>1, <1>3, <2>2 DEF UpdateStripe, BornInv
    <3>3. CASE stripe[cancel[x].sub].status = "canceled"
      <4>1. cancel'[x].pc = "idle"
        BY <1>1, <2>2, <3>3 DEF UpdateStripe, EndCancel, TypeOK, IdleCancel
      <4>2. QED
        BY <1>1, <1>2, <1>3, <1>4, <3>0, <3>1, <4>1
        DEF StripeKeeps, BornInv, MarkInv, Born, Ends
    <3>4. CASE stripe[cancel[x].sub].status # "canceled"
      <4>1. cancel'[x].sub = cancel[x].sub
        <5>1. cancel' = [cancel EXCEPT ![x].pc = "write"]
          BY <2>2, <3>4 DEF UpdateStripe
        <5>2. cancel[x] \in [pc : {"update", "write"}, sub : Subs, customer : Customers \cup {None}]
          BY <1>1, <3>2 DEF TypeOK, CancelState
        <5>3. QED
          BY <1>1, <5>1, <5>2 DEF TypeOK
      <4>2. stripe'[cancel[x].sub].ending \/ stripe'[cancel[x].sub].status = "canceled"
        BY <1>1, <2>2, <3>2, UpdateStripeStep DEF BornInv
      <4>3. QED
        BY <1>1, <1>2, <1>3, <1>4, <3>0, <3>1, <3>2, <4>1, <4>2
        DEF StripeKeeps, BornInv, MarkInv, Born, Ends
    <3>5. QED
      BY <3>3, <3>4
  <2>3. QED
    BY <2>1, <2>2 DEF StripeAction, CompleteCheckout, SubscribeElsewhere, ChangeAtStripe,
                      DeleteCustomer, Others
<1>7. QED
  BY <1>2, <1>5, <1>6 DEF StripeKeeps, BornInv, MarkInv

LEMMA SubInvHook ==
  ASSUME SubInv, NEW h \in Handlers, HookStep(h) \/ FailHook(h)
  PROVE  BornInv' /\ MarkInv'
<1>1. TypeOK /\ BornInv /\ MarkInv
  BY DEF SubInv
<1>2. UNCHANGED <<stripe, cancel, takenBack>> /\ \A e \in pending' : e \in pending
  BY DEF HookStep, FailHook, Receive, FindUser, UpsertRow, UpdateUser, Acknowledge, HookRest
<1>3. \A g \in Handlers : g # h => hook'[g] = hook[g]
  BY <1>1 DEF HookStep, FailHook, Receive, FindUser, UpsertRow, UpdateUser, Acknowledge, TypeOK
<1>4. hook'[h].pc # "idle" => Born(hook[h].sub.id)'
  <2>1. CASE Receive(h)
    <3>1. PICK e \in pending :
            hook' = [hook EXCEPT ![h] =
              [pc |-> "find", event |-> e,
               sub |-> IF e.kind = "checkout" THEN stripe[e.sub.id] ELSE e.sub]]
      BY <2>1 DEF Receive
    <3>2. hook'[h].sub.id = e.sub.id /\ Born(e.sub.id)
      <4>1. e.sub.id \in Subs
        BY <1>1 DEF TypeOK, StripeTypeOK, Event, Sub
      <4>2. QED
        BY <1>1, <3>1, <4>1 DEF TypeOK, BornInv, SubsInv
    <3>3. QED
      BY <1>2, <3>2 DEF Born
  <2>2. CASE ~Receive(h)
    <3>1. hook[h].pc # "idle"
      BY <2>2 DEF HookStep, FailHook, FindUser, UpsertRow, UpdateUser
    <3>2. hook[h] \in [pc : {"find", "row", "user"}, event : Event, sub : Sub]
      BY <1>1, <3>1, BusyHook
    <3>3. hook'[h].pc # "idle" => hook'[h].sub = hook[h].sub
      BY <1>1, <2>2, <3>2 DEF HookStep, FailHook, FindUser, UpsertRow, UpdateUser, Acknowledge,
                              TypeOK, IdleHook
    <3>4. QED
      BY <1>1, <1>2, <3>1, <3>3 DEF BornInv, Born
  <2>3. QED
    BY <2>1, <2>2
<1>5. \/ UNCHANGED user
      \/ /\ user'.sub \in Subs /\ Born(user.sub)'
         /\ user'.status # Marker
  <2>1. CASE UpdateUser(h)
    <3>1. hook[h].pc # "idle" /\ hook[h].sub \in Sub
      BY <1>1, <2>1, BusyHook DEF UpdateUser
    <3>2. user'.sub = hook[h].sub.id /\ user'.status = hook[h].sub.status
      BY <2>1 DEF UpdateUser
    <3>3. QED
      BY <1>1, <1>2, <3>1, <3>2 DEF BornInv, Born, Sub, Statuses, Marker
  <2>2. CASE ~UpdateUser(h)
    BY <2>2 DEF HookStep, FailHook, Receive, FindUser, UpsertRow
  <2>3. QED
    BY <2>1, <2>2
<1>6. BornInv'
  BY <1>1, <1>2, <1>3, <1>4, <1>5 DEF BornInv, SubsInv, Born
<1>7. MarkInv'
  <2>1. \/ UNCHANGED <<user, pending, missed>>
        \/ UNCHANGED user /\ missed'
        \/ user'.status # Marker
    <3>1. CASE UpdateUser(h)
      <4>1. hook[h].pc # "idle" /\ hook[h].sub \in Sub
        BY <1>1, <3>1, BusyHook DEF UpdateUser
      <4>2. user'.status = hook[h].sub.status
        BY <3>1 DEF UpdateUser
      <4>3. QED
        BY <4>1, <4>2 DEF Sub, Statuses, Marker
    <3>2. CASE ~UpdateUser(h)
      BY <3>2 DEF HookStep, FailHook, Receive, FindUser, UpsertRow, history
    <3>3. QED
      BY <3>1, <3>2
  <2>2. QED
    BY <1>1, <1>2, <2>1 DEF MarkInv, Ends, Announced
<1>8. QED
  BY <1>6, <1>7

LEMMA SubInvCall ==
  ASSUME SubInv, NEW k \in Callers, CallStep(k)
  PROVE  BornInv' /\ MarkInv'
<1>1. TypeOK /\ BornInv /\ MarkInv
  BY DEF SubInv
<1>2. UNCHANGED <<stripe, pending, hook, cancel, takenBack, missed>>
  BY DEF CallStep, BeginCall, RetrieveCustomer, ClearCustomer, CreateCustomer, SaveCustomer,
         OpenSession, FailCall, CallRest, history
<1>3. user'.sub = user.sub /\ user'.status = user.status
  BY <1>1 DEF CallStep, BeginCall, RetrieveCustomer, ClearCustomer, CreateCustomer, SaveCustomer,
              OpenSession, FailCall, TypeOK, UserTypeOK, User
<1>4. QED
  BY <1>1, <1>2, <1>3 DEF BornInv, MarkInv, SubsInv, Born, Ends, Announced

LEMMA SubInvCancel ==
  ASSUME SubInv, NEW x \in Cancellers,
         BeginCancel(x) \/ ListActive(x) \/ WriteMarker(x) \/ FailCancel(x)
  PROVE  BornInv' /\ MarkInv'
<1>1. TypeOK /\ BornInv /\ MarkInv
  BY DEF SubInv
<1>2. UNCHANGED <<stripe, pending, hook, takenBack, missed>>
  BY DEF BeginCancel, ListActive, WriteMarker, FailCancel, CancelRest, history
<1>3. /\ \A y \in Cancellers : y # x => cancel'[y] = cancel[y]
      /\ cancel'[x].pc # "write"
      /\ cancel'[x].pc = "update" => Born(cancel[x].sub)'
  <2>1. CASE BeginCancel(x)
    BY <1>1, <1>2, <2>1 DEF BeginCancel, BornInv, Born, TypeOK
  <2>2. CASE ListActive(x)
    <3>1. CASE EndCancel(x)
      BY <1>1, <3>1 DEF EndCancel, TypeOK, IdleCancel
    <3>2. ASSUME NEW s \in Subs, isActive(stripe[s]),
                 cancel' = [cancel EXCEPT ![x].pc = "update", ![x].sub = s]
          PROVE  <1>3
      <4>1. cancel[x] \in [pc : {"idle", "list"}, sub : {None}, customer : Customers \cup {None}]
        BY <1>1, <2>2 DEF ListActive, TypeOK, CancelState
      <4>2. cancel'[x].pc = "update" /\ cancel'[x].sub = s
        BY <1>1, <3>2, <4>1 DEF TypeOK
      <4>3. \A y \in Cancellers : y # x => cancel'[y] = cancel[y]
        BY <1>1, <3>2 DEF TypeOK
      <4>4. QED
        BY <1>2, <3>2, <4>2, <4>3 DEF Born, isActive
    <3>3. QED
      BY <2>2, <3>1, <3>2 DEF ListActive
  <2>3. CASE WriteMarker(x) \/ FailCancel(x)
    BY <1>1, <2>3 DEF WriteMarker, FailCancel, EndCancel, TypeOK, IdleCancel
  <2>4. QED
    BY <2>1, <2>2, <2>3
<1>4. \/ UNCHANGED user
      \/ user'.sub \in Subs /\ Born(user.sub)' /\ (takenBack \/ Ends(user.sub)')
  <2>1. CASE WriteMarker(x)
    <3>1. cancel[x].pc = "write" /\ cancel[x].sub \in Subs
      BY <1>1, <2>1 DEF WriteMarker, TypeOK, CancelState
    <3>2. user'.sub = cancel[x].sub
      BY <1>1, <2>1 DEF WriteMarker, TypeOK, UserTypeOK, User
    <3>3. QED
      BY <1>1, <1>2, <3>1, <3>2 DEF BornInv, MarkInv, Born, Ends
  <2>2. CASE ~WriteMarker(x)
    BY <2>2 DEF BeginCancel, ListActive, FailCancel
  <2>3. QED
    BY <2>1, <2>2
<1>5. BornInv'
  BY <1>1, <1>2, <1>3, <1>4 DEF BornInv, SubsInv, Born
<1>6. MarkInv'
  BY <1>1, <1>2, <1>3, <1>4, BillingAssumption DEF MarkInv, Ends, Announced
<1>7. QED
  BY <1>5, <1>6

LEMMA SubInvInitially == Init => SubInv
<1> SUFFICES ASSUME Init PROVE SubInv
  OBVIOUS
<1>1. TypeOK
  BY InitialTypes
<1>2. /\ pending = {} /\ \A h \in Handlers : hook[h].pc = "idle"
      /\ \A x \in Cancellers : cancel[x].pc = "idle"
  BY DEF Init, IdleHook, IdleCancel
<1>3. CASE NeverPaid
  BY <1>1, <1>2, <1>3 DEF NeverPaid, Unpaid, SubInv, BornInv, SubsInv, MarkInv, Born, Unborn, Marker
<1>4. ASSUME NEW t \in Subs, NEW c \in Customers, Subscribed(t, c)
      PROVE  SubInv
  <2>1. /\ stripe[t] = FirstSub(t, c)
        /\ \A r \in Subs \ {t} : stripe[r] = Unborn(r)
    BY <1>4 DEF Subscribed
  <2>2. /\ FirstSub(t, c).id = t /\ FirstSub(t, c).status = "active"
        /\ \A r \in Subs : Unborn(r).id = r /\ Unborn(r).status = "none" /\ Unborn(r).version = 0
    BY DEF FirstSub, Unborn
  <2>3. SubsInv /\ Born(t)
    <3>1. \A r \in Subs : r = t \/ r \in Subs \ {t}
      OBVIOUS
    <3>2. QED
      BY <2>1, <2>2, <3>1 DEF SubsInv, Born
  <2>4. user.sub = t /\ user.status = "active"
    BY <1>4 DEF Subscribed, Paying
  <2>5. QED
    BY <1>1, <1>2, <2>3, <2>4 DEF SubInv, BornInv, MarkInv, Marker
<1>5. QED
  BY <1>3, <1>4, InitialCases

LEMMA SubInvInductive ==
  ASSUME SubInv, [Next]_vars
  PROVE  SubInv'
<1>1. TypeOK /\ BornInv /\ MarkInv
  BY DEF SubInv
<1>2. CASE StripeAction
  BY <1>1, <1>2, StripeKeepsTypes, SubInvStripe DEF SubInv
<1>3. ASSUME NEW h \in Handlers, HookStep(h) \/ FailHook(h) PROVE SubInv'
  BY <1>1, <1>3, HookKeepsTypes, SubInvHook DEF SubInv
<1>4. ASSUME NEW k \in Callers, CallStep(k) PROVE SubInv'
  BY <1>1, <1>4, CallKeepsTypes, SubInvCall DEF SubInv
<1>5. ASSUME NEW x \in Cancellers,
             BeginCancel(x) \/ ListActive(x) \/ WriteMarker(x) \/ FailCancel(x)
      PROVE  SubInv'
  BY <1>1, <1>5, CancelKeepsTypes, SubInvCancel DEF SubInv
<1>6. CASE HostCall
  <2>1. UNCHANGED <<stripeVars, user, row, hook, call, cancel, history, takenBack>>
    BY <1>6 DEF HostCall
  <2>2. BornInv' /\ MarkInv'
    BY <1>1, <2>1 DEF BornInv, MarkInv, SubsInv, Born, Ends, Announced, stripeVars,
                               history
  <2>3. QED
    BY <1>1, <1>6, <2>2, HostKeepsTypes DEF SubInv
<1>7. CASE UNCHANGED vars
  BY <1>1, <1>7 DEF SubInv, TypeOK, StripeTypeOK, UserTypeOK, HistoryTypeOK, QuotaTypeOK,
                    BornInv, MarkInv, SubsInv, Born, Ends, Announced, vars, stripeVars, history, quotaVars
<1>8. QED
  BY <1>2, <1>3, <1>4, <1>5, <1>6, <1>7 DEF Next, CancelStep, StripeAction

(* Every variable of Billing keeps its type.                                *)
THEOREM TypeCorrect == Spec => []TypeOK
<1>1. SubInv => TypeOK
  BY DEF SubInv
<1>2. QED
  BY <1>1, SubInvInitially, SubInvInductive, PTL DEF Spec

(* A user marked CANCEL_AT_PERIOD_END names a subscription that ends, or    *)
(* whose event is still to come, however webhooks, cancellations, renewals  *)
(* in the portal and other changes at Stripe are interleaved, unless one is *)
(* taken back between the two writes of a cancel call or an event was       *)
(* missed.                                                                  *)
THEOREM MarkerAlwaysTrue == Spec => []MarkerIsTrue
<1>1. SubInv => MarkerIsTrue
  BY DEF SubInv, MarkInv, MarkerIsTrue, Ends, Announced
<1>2. QED
  BY <1>1, SubInvInitially, SubInvInductive, PTL DEF Spec

-----------------------------------------------------------------------------
(* The customer of a call                                                   *)

(* A customer is not deleted twice and never comes back: one that is there  *)
(* after the call began was not among those deleted before.                 *)
CallInv ==
  \A k \in Callers :
    /\ call[k].gone \subseteq deleted
    /\ call[k].pc \in {"save", "session"} =>
         call[k].customer \in Customers \ call[k].gone

LEMMA CallInvInductive ==
  ASSUME TypeOK, CallInv, [Next]_vars
  PROVE  CallInv'
<1>1. /\ live \subseteq Customers /\ deleted \subseteq Customers \ live
      /\ call \in [Callers -> CallState]
  BY DEF TypeOK, StripeTypeOK
<1>2. ASSUME NEW k \in Callers, CallStep(k) PROVE CallInv'
  <2>1. UNCHANGED deleted
    BY <1>2 DEF CallStep, BeginCall, RetrieveCustomer, ClearCustomer, CreateCustomer,
                SaveCustomer, OpenSession, FailCall, CallRest
  <2>2. \A j \in Callers : j # k => call'[j] = call[j]
    BY <1>1, <1>2 DEF CallStep, BeginCall, RetrieveCustomer, ClearCustomer, CreateCustomer,
                      SaveCustomer, OpenSession, FailCall, Goto, EndCall
  <2>3. /\ call'[k].gone \subseteq deleted
        /\ call'[k].pc \in {"save", "session"} => call'[k].customer \in Customers \ call'[k].gone
    <3>1. CASE BeginCall(k)
      BY <1>1, <3>1 DEF BeginCall
    <3>2. CASE OpenSession(k) \/ FailCall(k)
      BY <1>1, <3>2 DEF OpenSession, FailCall, EndCall, IdleCall
    <3>3. ASSUME NEW pc, NEW customer, Goto(k, pc, customer)
          PROVE  /\ call'[k].pc = pc /\ call'[k].customer = customer
                 /\ call'[k].gone = call[k].gone
      BY <1>1, <3>3 DEF Goto, CallState
    <3>4. CASE RetrieveCustomer(k)
      BY <1>1, <3>3, <3>4 DEF RetrieveCustomer, CallInv
    <3>5. CASE ClearCustomer(k)
      BY <1>1, <3>3, <3>5 DEF ClearCustomer, CallInv
    <3>6. CASE CreateCustomer(k)
      <4>1. PICK c \in Fresh : Goto(k, "save", c)
        BY <3>6 DEF CreateCustomer
      <4>2. c \in Customers \ deleted
        BY <4>1 DEF Fresh
      <4>3. QED
        BY <3>3, <4>1, <4>2 DEF CallInv
    <3>7. CASE SaveCustomer(k)
      BY <1>1, <3>3, <3>7 DEF SaveCustomer, CallInv
    <3>8. QED
      BY <1>2, <3>1, <3>2, <3>4, <3>5, <3>6, <3>7 DEF CallStep
  <2>4. QED
    BY <2>1, <2>2, <2>3 DEF CallInv
<1>3. ASSUME UNCHANGED call, deleted \subseteq deleted' PROVE CallInv'
  BY <1>3 DEF CallInv
<1>4. CASE StripeAction
  BY <1>3, <1>4 DEF StripeAction, CompleteCheckout, SubscribeElsewhere, ChangeAtStripe,
                    DeleteCustomer, UpdateStripe, Others, CancelRest
<1>5. ASSUME NEW h \in Handlers, HookStep(h) \/ FailHook(h) PROVE CallInv'
  BY <1>3, <1>5 DEF HookStep, FailHook, Receive, FindUser, UpsertRow, UpdateUser, HookRest
<1>6. ASSUME NEW x \in Cancellers,
             BeginCancel(x) \/ ListActive(x) \/ WriteMarker(x) \/ FailCancel(x)
      PROVE  CallInv'
  BY <1>3, <1>6 DEF BeginCancel, ListActive, WriteMarker, FailCancel, CancelRest
<1>7. CASE HostCall \/ UNCHANGED vars
  BY <1>3, <1>7 DEF HostCall, vars, stripeVars
<1>8. QED
  BY <1>2, <1>4, <1>5, <1>6, <1>7 DEF Next, CancelStep, StripeAction

(* A checkout or portal session is asked for a customer that was not known  *)
(* to be deleted when the call began.                                       *)
THEOREM CallsHaveCustomer == Spec => []CallHasCustomer
<1>1. Init => CallInv
  BY DEF Init, CallInv, IdleCall
<1>2. SubInv /\ CallInv /\ [Next]_vars => CallInv'
  BY CallInvInductive DEF SubInv
<1>3. CallInv => CallHasCustomer
  BY BillingAssumption DEF CallInv, CallHasCustomer
<1>4. QED
  BY <1>1, <1>2, <1>3, SubInvInitially, SubInvInductive, PTL DEF Spec

-----------------------------------------------------------------------------
(* The hosts                                                                *)

(* The create calls that have counted and will insert.                      *)
Inserting == {n \in Creators : create[n].pc \in {"slug", "insert"}}

(* Every call counts against a limit the user has had, and a call that has  *)
(* counted takes one of the places that are left for overlapping calls.     *)
HostInv ==
  /\ IsFiniteSet(hosts)
  /\ user.limit <= peak /\ peak >= 1
  /\ \A n \in Creators : create[n].limit <= peak
  /\ Cardinality(hosts) + Cardinality(Inserting) <= peak + Cardinality(Creators) - 1

LEMMA InsertingFinite ==
  ASSUME TypeOK
  PROVE  /\ IsFiniteSet(Inserting) /\ Cardinality(Inserting) \in Nat
         /\ Cardinality(Creators) \in Nat
         /\ Cardinality(Inserting) <= Cardinality(Creators)
<1>1. Inserting \subseteq Creators
  BY DEF Inserting
<1>2. QED
  BY <1>1, QuotaAssumption, FS_Subset, FS_CardinalityType

LEMMA HostInvInductive ==
  ASSUME TypeOK, TypeOK', HostInv, [Next]_vars
  PROVE  HostInv'
<1> DEFINE room == Cardinality(Creators) - 1
<1>1. /\ IsFiniteSet(hosts) /\ Cardinality(hosts) \in Nat
      /\ peak \in Nat /\ user.limit \in Nat /\ peak' \in Nat /\ user'.limit \in Nat
      /\ create \in [Creators -> CreateState]
      /\ \A n \in Creators : create[n] \in CreateState /\ create[n].limit \in Nat
  BY FS_CardinalityType DEF HostInv, TypeOK, HistoryTypeOK, UserTypeOK, User, QuotaTypeOK, CreateState
<1>2. /\ IsFiniteSet(Inserting) /\ Cardinality(Inserting) \in Nat
      /\ Cardinality(Creators) \in Nat /\ Cardinality(Inserting) <= Cardinality(Creators)
      /\ IsFiniteSet(Inserting') /\ Cardinality(Inserting') \in Nat
      /\ Cardinality(Inserting') <= Cardinality(Creators)
  <2>1. Inserting' \subseteq Creators
    BY DEF Inserting
  <2>2. QED
    BY <2>1, InsertingFinite, QuotaAssumption, FS_Subset, FS_CardinalityType
<1>3. ASSUME UNCHANGED quotaVars, peak <= peak', user'.limit <= peak'
      PROVE  HostInv'
  <2>1. Inserting' = Inserting
    BY <1>3 DEF Inserting, quotaVars
  <2>2. QED
    BY <1>1, <1>2, <1>3, <2>1 DEF HostInv, quotaVars
<1>4. ASSUME UNCHANGED quotaVars, UNCHANGED peak, user'.limit = user.limit
      PROVE  HostInv'
  BY <1>1, <1>3, <1>4 DEF HostInv
<1>5. CASE StripeAction
  BY <1>4, <1>5 DEF StripeAction, CompleteCheckout, SubscribeElsewhere, ChangeAtStripe,
                    DeleteCustomer, UpdateStripe, Others, CancelRest, history
<1>6. ASSUME NEW h \in Handlers, HookStep(h) \/ FailHook(h) PROVE HostInv'
  <2>1. CASE UpdateUser(h)
    <3>1. hook[h].sub \in Sub
      BY <2>1, BusyHook DEF UpdateUser
    <3>2. /\ user'.limit = Entitlement(hook[h].sub).limit
          /\ peak' = IF Entitlement(hook[h].sub).limit > peak
                     THEN Entitlement(hook[h].sub).limit ELSE peak
          /\ UNCHANGED quotaVars
      BY <2>1 DEF UpdateUser, HookRest
    <3>3. peak <= peak' /\ user'.limit <= peak'
      BY <1>1, <3>1, <3>2
    <3>4. QED
      BY <1>3, <3>2, <3>3
  <2>2. CASE ~UpdateUser(h)
    BY <1>4, <1>6, <2>2 DEF HookStep, FailHook, Receive, FindUser, UpsertRow, HookRest, history
  <2>3. QED
    BY <2>1, <2>2
<1>7. ASSUME NEW k \in Callers, CallStep(k) PROVE HostInv'
  <2>1. UNCHANGED <<quotaVars, peak>> /\ user'.limit = user.limit
    BY <1>7 DEF CallStep, BeginCall, RetrieveCustomer, ClearCustomer, CreateCustomer,
                SaveCustomer, OpenSession, FailCall, CallRest, history, TypeOK, UserTypeOK, User
  <2>2. QED
    BY <1>4, <2>1
<1>8. ASSUME NEW x \in Cancellers,
             BeginCancel(x) \/ ListActive(x) \/ WriteMarker(x) \/ FailCancel(x)
      PROVE  HostInv'
  <2>1. UNCHANGED <<quotaVars, peak>> /\ user'.limit = user.limit
    BY <1>8 DEF BeginCancel, ListActive, WriteMarker, FailCancel, CancelRest, history,
                TypeOK, UserTypeOK, User
  <2>2. QED
    BY <1>4, <2>1
<1>9. CASE HostCall
  <2>1. UNCHANGED <<user, peak>>
    BY <1>9 DEF HostCall, history
  <2>2. user.limit <= peak /\ peak >= 1
    BY DEF HostInv
  <2>3. ASSUME NEW n \in Creators, BeginCreate(n, user.limit) PROVE HostInv'
    <3>1. /\ create'[n].pc = "count" /\ create'[n].limit = user.limit
          /\ \A m \in Creators : m # n => create'[m] = create[m]
      BY <1>1, <2>3 DEF BeginCreate, CreateState
    <3>2. create[n].pc = "idle" /\ UNCHANGED hosts
      BY <2>3 DEF BeginCreate
    <3>3. Inserting' = Inserting
      BY <3>1, <3>2 DEF Inserting
    <3>4. QED
      BY <1>1, <1>2, <2>1, <3>1, <3>2, <3>3 DEF HostInv
  <2>4. ASSUME NEW n \in Creators, CountHosts(n) PROVE HostInv'
    <3>1. UNCHANGED hosts /\ create[n].pc = "count"
      BY <2>4 DEF CountHosts
    <3>2. \A m \in Creators : m # n => create'[m] = create[m]
      BY <1>1, <2>4 DEF CountHosts
    <3>3. CASE Cardinality(hosts) < create[n].limit
      <4>1. create'[n].limit = create[n].limit
        BY <1>1, <2>4, <3>3 DEF CountHosts, WithinLimit, CreateState
      <4>2. Cardinality(hosts) + Cardinality(Inserting') <= peak + Cardinality(Creators) - 1
        BY <1>1, <1>2, <3>3 DEF HostInv
      <4>3. QED
        BY <1>1, <1>2, <2>1, <3>1, <3>2, <4>1, <4>2 DEF HostInv
    <3>4. CASE ~(Cardinality(hosts) < create[n].limit)
      <4>1. create'[n] = IdleCreate
        BY <1>1, <2>4, <3>4 DEF CountHosts, WithinLimit
      <4>2. Inserting' = Inserting
        BY <3>1, <3>2, <4>1 DEF Inserting, IdleCreate
      <4>3. create'[n].limit = 0
        BY <4>1 DEF IdleCreate
      <4>4. QED
        BY <1>1, <1>2, <2>1, <3>1, <3>2, <4>2, <4>3 DEF HostInv
    <3>5. QED
      BY <3>3, <3>4
  <2>5. ASSUME NEW n \in Creators, findUniqueSlug(n) PROVE HostInv'
    <3>1. /\ create'[n].pc = "insert" /\ create'[n].limit = create[n].limit
          /\ \A m \in Creators : m # n => create'[m] = create[m]
      BY <1>1, <2>5 DEF findUniqueSlug, CreateState
    <3>2. create[n].pc = "slug" /\ UNCHANGED hosts
      BY <2>5 DEF findUniqueSlug
    <3>3. Inserting' = Inserting
      BY <3>1, <3>2 DEF Inserting
    <3>4. QED
      BY <1>1, <1>2, <2>1, <3>1, <3>2, <3>3 DEF HostInv
  <2>6. ASSUME NEW n \in Creators, InsertHost(n) PROVE HostInv'
    <3>1. /\ create[n].pc = "insert" /\ hosts' = hosts \cup {create[n].slug}
          /\ create' = [create EXCEPT ![n] = IdleCreate]
      BY <2>6 DEF InsertHost
    <3>2. /\ IsFiniteSet(hosts') /\ Cardinality(hosts') \in Nat
          /\ Cardinality(hosts') <= Cardinality(hosts) + 1
      <4>1. /\ IsFiniteSet(hosts \cup {create[n].slug})
            /\ \/ Cardinality(hosts \cup {create[n].slug}) = Cardinality(hosts)
               \/ Cardinality(hosts \cup {create[n].slug}) = Cardinality(hosts) + 1
        BY <1>1, FS_AddElement
      <4>2. QED
        BY <1>1, <3>1, <4>1
    <3>3. Inserting' = Inserting \ {n} /\ n \in Inserting
      BY <1>1, <3>1 DEF Inserting, IdleCreate
    <3>4. Cardinality(Inserting') = Cardinality(Inserting) - 1
      BY <1>2, <3>3, FS_RemoveElement
    <3>5. \A m \in Creators : create'[m].limit <= peak
      BY <1>1, <3>1 DEF HostInv, IdleCreate
    <3>6. QED
      BY <1>1, <1>2, <2>1, <2>2, <3>2, <3>4, <3>5 DEF HostInv
  <2>7. ASSUME NEW t \in hosts, DeleteHost(t) PROVE HostInv'
    <3>1. hosts' = hosts \ {t} /\ UNCHANGED create
      BY <2>7 DEF DeleteHost
    <3>2. IsFiniteSet(hosts') /\ Cardinality(hosts') = Cardinality(hosts) - 1
      BY <1>1, <3>1, FS_RemoveElement
    <3>3. Inserting' = Inserting
      BY <3>1 DEF Inserting
    <3>4. QED
      BY <1>1, <1>2, <2>1, <3>1, <3>2, <3>3 DEF HostInv
  <2>8. QED
    BY <1>9, <2>3, <2>4, <2>5, <2>6, <2>7 DEF HostCall, CreateStep
<1>10. CASE UNCHANGED vars
  BY <1>4, <1>10 DEF vars, history
<1>11. QED
  BY <1>5, <1>6, <1>7, <1>8, <1>9, <1>10 DEF Next, CancelStep, StripeAction

LEMMA HostInvInitially == Init => HostInv
<1> SUFFICES ASSUME Init PROVE HostInv
  OBVIOUS
<1>1. hosts = {} /\ \A n \in Creators : create[n].pc = "idle" /\ create[n].limit = 0
  BY DEF Init, QuotaInit, IdleCreate
<1>2. Inserting = {}
  BY <1>1 DEF Inserting
<1>3. user.limit = peak /\ peak \in Nat \ {0}
  BY InitialCases, BillingAssumption DEF NeverPaid, Unpaid, Subscribed, Paying
<1>4. Cardinality(Creators) \in Nat
  BY QuotaAssumption, FS_CardinalityType
<1>5. QED
  BY <1>1, <1>2, <1>3, <1>4, FS_EmptySet DEF HostInv

(* Overlapping create calls exceed the highest limit by their number less   *)
(* one at most, whatever webhooks make of the limit meanwhile.              *)
THEOREM HostsBounded == Spec => []HostsWithinPeak
<1>1. SubInv /\ SubInv' /\ HostInv /\ [Next]_vars => HostInv'
  BY HostInvInductive DEF SubInv
<1>2. SubInv /\ HostInv => HostsWithinPeak
  <2>1. SUFFICES ASSUME SubInv, HostInv PROVE HostsWithinPeak
    OBVIOUS
  <2>2. Cardinality(Inserting) \in Nat /\ Cardinality(Creators) \in Nat
    BY <2>1, InsertingFinite DEF SubInv
  <2>3. Cardinality(hosts) \in Nat /\ peak \in Nat
    BY <2>1, FS_CardinalityType DEF HostInv, SubInv, TypeOK, HistoryTypeOK
  <2>4. QED
    BY <2>1, <2>2, <2>3 DEF HostInv, HostsWithinPeak
<1>3. QED
  BY <1>1, <1>2, HostInvInitially, SubInvInitially, SubInvInductive, PTL DEF Spec

-----------------------------------------------------------------------------
(* The entitlement                                                          *)

Due(sub) == user.plan = Entitlement(sub).plan /\ user.limit = Entitlement(sub).limit

(* A record of a subscription is at most as new as the subscription, and    *)
(* equal to it when it is as new.                                           *)
Snapshot(sub) ==
  /\ sub.version <= stripe[sub.id].version
  /\ sub.version = stripe[sub.id].version => sub = stripe[sub.id]

(* Requests carry snapshots, no older than their events.                    *)
SnapshotInv ==
  /\ \A e \in pending : Snapshot(e.sub)
  /\ \A h \in Handlers : hook[h].pc # "idle" =>
       /\ Snapshot(hook[h].sub)
       /\ hook[h].sub.id = hook[h].event.sub.id
       /\ hook[h].sub.version >= hook[h].event.sub.version
  /\ \A s \in Subs : newest[s] <= stripe[s].version

(* Until a version is missed, the latest one of every subscription has been *)
(* applied or is still to be delivered, and the user has what the one last  *)
(* applied is due.                                                          *)
DueInv ==
  /\ last = None => user.plan = "FREE" /\ user.limit = FreeHosts
  /\ ~missed =>
       /\ \A s \in Subs : \/ newest[s] = stripe[s].version
                          \/ \E e \in pending : e.sub = stripe[s]
       /\ last # None /\ newest[last] = stripe[last].version => Due(stripe[last])

EntitlementInv == SnapshotInv /\ DueInv

LEMMA EntitlementFollows ==
  ASSUME SubInv, EntitlementInv
  PROVE  EntitlementIsCurrent
<1>1. SUFFICES ASSUME Quiet, ~missed
      PROVE  IF last # None /\ isActive(stripe[last])
             THEN user.plan = "PRO" /\ user.limit = hostLimitFor(planFromMetaOrPrice(stripe[last]))
             ELSE user.plan = "FREE" /\ user.limit = FreeHosts
  BY DEF EntitlementIsCurrent
<1>2. CASE last = None
  BY <1>2 DEF EntitlementInv, DueInv
<1>3. CASE last # None
  <2>1. last \in Subs
    BY <1>3 DEF SubInv, TypeOK, HistoryTypeOK
  <2>2. newest[last] = stripe[last].version
    BY <1>1, <2>1 DEF EntitlementInv, DueInv, Quiet
  <2>3. Due(stripe[last])
    BY <1>1, <1>3, <2>2 DEF EntitlementInv, DueInv
  <2>4. QED
    BY <1>3, <2>3 DEF Due, Entitlement
<1>4. QED
  BY <1>2, <1>3

LEMMA EntitlementStripe ==
  ASSUME SubInv, SubInv', EntitlementInv, StripeAction
  PROVE  EntitlementInv'
<1>1. TypeOK /\ TypeOK' /\ SubsInv /\ BornInv /\ SnapshotInv /\ DueInv
  BY DEF SubInv, BornInv, EntitlementInv
<1>2. UNCHANGED <<user, hook, history>>
  BY DEF StripeAction, CompleteCheckout, SubscribeElsewhere, ChangeAtStripe, DeleteCustomer,
         UpdateStripe, Others, CancelRest
<1>3. CASE UNCHANGED <<stripe, pending>>
  BY <1>1, <1>2, <1>3 DEF SnapshotInv, DueInv, Snapshot, Due, history, EntitlementInv
<1>4. ASSUME NEW S \in SUBSET Subs, NEW kinds \in SUBSET {"subscription", "checkout"},
             "subscription" \in kinds, StripeStep(S, kinds)
      PROVE  EntitlementInv'
  <2>1. \A s \in Subs : stripe[s].version \in Nat /\ stripe'[s].version \in Nat
    BY <1>1 DEF TypeOK, StripeTypeOK, Sub
  <2>2. /\ \A s \in Subs \ S : stripe'[s] = stripe[s]
        /\ \A s \in S : stripe'[s].version = stripe[s].version + 1
        /\ \A s \in Subs : stripe'[s].id = s
        /\ pending' = pending \cup [kind : kinds, sub : {stripe'[s] : s \in S}]
    BY <1>4 DEF StripeStep
  <2>3. ASSUME NEW sub \in Sub, Snapshot(sub) PROVE Snapshot(sub)'
    <3>1. sub.id \in Subs /\ sub.version \in Nat
      BY DEF Sub
    <3>2. CASE sub.id \in S
      BY <2>1, <2>2, <2>3, <3>1, <3>2 DEF Snapshot
    <3>3. CASE sub.id \notin S
      BY <2>2, <2>3, <3>1, <3>3 DEF Snapshot
    <3>4. QED
      BY <3>2, <3>3
  <2>4. SnapshotInv'
    <3>1. ASSUME NEW e \in pending' PROVE Snapshot(e.sub)'
      <4>1. CASE e \in pending
        <5>1. e.sub \in Sub /\ Snapshot(e.sub)
          BY <1>1, <4>1 DEF TypeOK, StripeTypeOK, Event, SnapshotInv
        <5>2. QED
          BY <2>3, <5>1 DEF Snapshot
      <4>2. CASE e \notin pending
        <5>1. PICK s \in S : e.sub = stripe'[s]
          BY <2>2, <4>2
        <5>2. QED
          BY <2>1, <2>2, <5>1 DEF Snapshot
      <4>3. QED
        BY <4>1, <4>2
    <3>2. ASSUME NEW h \in Handlers, hook[h].pc # "idle" PROVE Snapshot(hook[h].sub)'
      <4>1. hook[h].sub \in Sub /\ Snapshot(hook[h].sub)
        BY <1>1, <3>2, BusyHook DEF SnapshotInv
      <4>2. QED
        BY <1>2, <2>3, <4>1 DEF Snapshot
    <3>3. ASSUME NEW s \in Subs PROVE newest[s] <= stripe'[s].version
      <4>1. newest[s] \in Nat /\ newest[s] <= stripe[s].version
        BY <1>1 DEF SnapshotInv, TypeOK, HistoryTypeOK
      <4>2. QED
        BY <2>1, <2>2, <4>1
    <3>4. QED
      BY <1>1, <1>2, <3>1, <3>2, <3>3 DEF SnapshotInv, Snapshot, history
  <2>5. DueInv'
    <3>1. ASSUME NEW s \in Subs, ~missed
          PROVE  \/ newest[s] = stripe'[s].version
                 \/ \E e \in pending' : e.sub = stripe'[s]
      <4>1. CASE s \in S
        <5>1. [kind |-> "subscription", sub |-> stripe'[s]] \in pending'
          BY <1>4, <2>2, <4>1
        <5>2. QED
          BY <5>1
      <4>2. CASE s \notin S
        BY <1>1, <2>2, <3>1, <4>2 DEF DueInv
      <4>3. QED
        BY <4>1, <4>2
    <3>2. ASSUME last # None, ~missed, newest[last] = stripe'[last].version
          PROVE  Due(stripe'[last])
      <4>1. last \in Subs /\ newest[last] \in Nat /\ newest[last] <= stripe[last].version
        BY <1>1, <3>2 DEF SnapshotInv, TypeOK, HistoryTypeOK
      <4>2. last \notin S
        BY <2>1, <2>2, <3>2, <4>1
      <4>3. QED
        BY <1>1, <2>2, <3>2, <4>1, <4>2 DEF DueInv
    <3>3. QED
      BY <1>1, <1>2, <3>1, <3>2 DEF DueInv, Due, history
  <2>6. QED
    BY <2>4, <2>5 DEF EntitlementInv
<1>5. QED
  BY <1>1, <1>3, <1>4, StripeActionStep

(* What the other requests carry, and the versions, stay as they are.       *)
LEMMA SnapshotHook ==
  ASSUME SubInv, SnapshotInv, NEW h \in Handlers, HookStep(h) \/ FailHook(h)
  PROVE  SnapshotInv'
<1>1. TypeOK /\ SubsInv
  BY DEF SubInv, BornInv
<1>2. UNCHANGED stripe /\ \A e \in pending' : e \in pending
  BY DEF HookStep, FailHook, Receive, FindUser, UpsertRow, UpdateUser, Acknowledge, HookRest
<1>3. \A g \in Handlers : g # h => hook'[g] = hook[g]
  BY <1>1 DEF HookStep, FailHook, Receive, FindUser, UpsertRow, UpdateUser, Acknowledge, TypeOK
<1>4. ASSUME hook'[h].pc # "idle"
      PROVE  /\ Snapshot(hook[h].sub)'
             /\ hook'[h].sub.id = hook'[h].event.sub.id
             /\ hook'[h].sub.version >= hook'[h].event.sub.version
  <2>1. CASE Receive(h)
    <3>1. PICK e \in pending :
            hook' = [hook EXCEPT ![h] =
              [pc |-> "find", event |-> e,
               sub |-> IF e.kind = "checkout" THEN stripe[e.sub.id] ELSE e.sub]]
      BY <2>1 DEF Receive
    <3>2. e.sub \in Sub /\ e.sub.id \in Subs /\ e.sub.version \in Nat /\ Snapshot(e.sub)
      BY <1>1 DEF TypeOK, StripeTypeOK, Event, Sub, SnapshotInv
    <3>3. hook'[h].event = e /\ hook'[h].sub \in {stripe[e.sub.id], e.sub}
      BY <1>1, <3>1 DEF TypeOK
    <3>4. stripe[e.sub.id].id = e.sub.id /\ stripe[e.sub.id].version \in Nat
      BY <1>1, <3>2 DEF SubsInv, TypeOK, StripeTypeOK, Sub
    <3>5. QED
      BY <1>2, <3>2, <3>3, <3>4 DEF Snapshot
  <2>2. CASE ~Receive(h)
    <3>1. hook[h].pc # "idle"
      BY <2>2 DEF HookStep, FailHook, FindUser, UpsertRow, UpdateUser
    <3>2. hook[h] \in [pc : {"find", "row", "user"}, event : Event, sub : Sub]
      BY <1>1, <3>1, BusyHook
    <3>3. hook'[h].sub = hook[h].sub /\ hook'[h].event = hook[h].event
      BY <1>1, <1>4, <2>2, <3>2 DEF HookStep, FailHook, FindUser, UpsertRow, UpdateUser,
                                    Acknowledge, TypeOK, IdleHook
    <3>4. QED
      BY <1>2, <3>1, <3>3 DEF SnapshotInv, Snapshot
  <2>3. QED
    BY <2>1, <2>2
<1>5. \A s \in Subs : newest'[s] <= stripe[s].version
  <2>1. CASE UpdateUser(h)
    <3>1. hook[h].pc # "idle" /\ hook[h].sub \in Sub
      BY <1>1, <2>1, BusyHook DEF UpdateUser
    <3>2. hook[h].sub.version <= stripe[hook[h].sub.id].version
      BY <3>1 DEF SnapshotInv, Snapshot
    <3>3. newest' = [newest EXCEPT ![hook[h].sub.id] =
                       IF hook[h].sub.version > newest[hook[h].sub.id]
                       THEN hook[h].sub.version ELSE newest[hook[h].sub.id]]
      BY <1>1, <2>1, <3>1 DEF UpdateUser, TypeOK, HistoryTypeOK, Sub
    <3>4. QED
      BY <1>1, <3>1, <3>2, <3>3 DEF SnapshotInv, TypeOK, HistoryTypeOK, Sub
  <2>2. CASE ~UpdateUser(h)
    BY <2>2 DEF HookStep, FailHook, Receive, FindUser, UpsertRow, SnapshotInv, history
  <2>3. QED
    BY <2>1, <2>2
<1>6. QED
  BY <1>2, <1>3, <1>4, <1>5 DEF SnapshotInv, Snapshot

LEMMA DueHook ==
  ASSUME SubInv, SubInv', EntitlementInv, NEW h \in Handlers, HookStep(h) \/ FailHook(h)
  PROVE  DueInv'
<1>1. TypeOK /\ TypeOK' /\ SubsInv /\ SnapshotInv /\ DueInv
  BY DEF SubInv, BornInv, EntitlementInv
<1>2. UNCHANGED stripe
  BY DEF HookStep, FailHook, Receive, FindUser, UpsertRow, UpdateUser, HookRest
<1>3. CASE Receive(h) \/ UpsertRow(h) \/ FailHook(h)
  BY <1>1, <1>2, <1>3 DEF Receive, UpsertRow, FailHook, DueInv, Due, history
<1>4. CASE FindUser(h)
  <2>1. UNCHANGED <<user, newest, last>> /\ (UNCHANGED <<pending, missed>> \/ missed')
    BY <1>4 DEF FindUser
  <2>2. QED
    BY <1>1, <1>2, <2>1 DEF DueInv, Due
<1>5. CASE UpdateUser(h)
  <2> DEFINE sub == hook[h].sub
  <2>1. /\ hook[h].pc # "idle" /\ sub \in Sub /\ sub.id \in Subs /\ sub.version \in Nat
        /\ hook[h].event.sub \in Sub /\ hook[h].event.sub.version \in Nat
    BY <1>1, <1>5, BusyHook DEF UpdateUser, Sub, Event
  <2>2. /\ user'.plan = Entitlement(sub).plan /\ user'.limit = Entitlement(sub).limit
        /\ missed' = (missed \/ sub.version < newest[sub.id])
        /\ newest' = [newest EXCEPT ![sub.id] =
                        IF sub.version > newest[sub.id] THEN sub.version ELSE newest[sub.id]]
        /\ last' = sub.id
    BY <1>1, <1>5, <2>1 DEF UpdateUser, TypeOK, HistoryTypeOK
  <2>3. /\ newest \in [Subs -> Nat]
        /\ \A s \in Subs : newest[s] \in Nat /\ stripe[s].version \in Nat
        /\ missed \in BOOLEAN
    BY <1>1 DEF TypeOK, HistoryTypeOK, StripeTypeOK, Sub
  <2> HIDE DEF sub
  <2>10. ~missed' => ~missed /\ newest[sub.id] <= sub.version
    <3>1. ~missed' => ~missed /\ ~(sub.version < newest[sub.id])
      BY <2>2, Zenon
    <3>2. sub.version \in Nat /\ newest[sub.id] \in Nat
      BY <2>1, <2>3
    <3>3. QED
      BY <3>1, <3>2
  <2>11. /\ newest[sub.id] < sub.version => newest'[sub.id] = sub.version
         /\ newest[sub.id] >= sub.version => newest'[sub.id] = newest[sub.id]
         /\ \A s \in Subs : s # sub.id => newest'[s] = newest[s]
    BY <2>1, <2>2, <2>3
  <2>4. /\ Snapshot(sub) /\ sub.id = hook[h].event.sub.id
        /\ sub.version >= hook[h].event.sub.version
    BY <1>1, <2>1 DEF SnapshotInv, sub
  <2>5. pending' \in {pending, pending \ {hook[h].event}}
    BY <1>5 DEF UpdateUser, Acknowledge
  <2>6. ASSUME ~missed', NEW s \in Subs
        PROVE  newest'[s] = stripe[s].version \/ \E e \in pending' : e.sub = stripe[s]
    <3>1. newest[s] = stripe[s].version \/ \E e \in pending : e.sub = stripe[s]
      BY <1>1, <2>6, <2>10 DEF DueInv
    <3>2. CASE s = sub.id /\ sub.version = stripe[s].version
      BY <1>1, <2>1, <2>3, <2>11, <3>2 DEF SnapshotInv
    <3>3. CASE s = sub.id /\ sub.version # stripe[s].version
      <4>1. hook[h].event.sub # stripe[s]
        BY <2>1, <2>3, <2>4, <3>3 DEF Snapshot
      <4>2. newest[s] = stripe[s].version => newest'[s] = stripe[s].version
        BY <2>1, <2>3, <2>4, <2>11, <3>3 DEF Snapshot
      <4>3. QED
        BY <2>5, <3>1, <4>1, <4>2
    <3>4. CASE s # sub.id
      <4>1. hook[h].event.sub # stripe[s]
        BY <1>1, <2>4, <3>4 DEF SubsInv
      <4>2. newest'[s] = newest[s]
        BY <2>11, <3>4
      <4>3. QED
        BY <2>5, <3>1, <4>1, <4>2
    <3>5. QED
      BY <3>2, <3>3, <3>4
  <2>7. ASSUME ~missed', newest'[sub.id] = stripe[sub.id].version
        PROVE  /\ user'.plan = Entitlement(stripe[sub.id]).plan
               /\ user'.limit = Entitlement(stripe[sub.id]).limit
    <3>1. sub.version = stripe[sub.id].version
      BY <2>1, <2>3, <2>7, <2>10, <2>11
    <3>2. sub = stripe[sub.id]
      BY <2>4, <3>1 DEF Snapshot
    <3>3. QED
      BY <2>2, <3>2
  <2>8. last' # None
    BY <2>1, <2>2, BillingAssumption
  <2>9. QED
    <3>1. last' = sub.id
      BY <2>2
    <3>2. QED
      BY <1>2, <2>6, <2>7, <2>8, <3>1 DEF DueInv, Due
<1>6. QED
  BY <1>3, <1>4, <1>5 DEF HookStep

LEMMA EntitlementInvInductive ==
  ASSUME SubInv, SubInv', EntitlementInv, [Next]_vars
  PROVE  EntitlementInv'
<1>1. CASE StripeAction
  BY <1>1, EntitlementStripe
<1>2. ASSUME NEW h \in Handlers, HookStep(h) \/ FailHook(h) PROVE EntitlementInv'
  BY <1>2, SnapshotHook, DueHook DEF EntitlementInv
<1>3. ASSUME UNCHANGED <<stripe, pending, hook, history>>,
             user'.plan = user.plan, user'.limit = user.limit
      PROVE  EntitlementInv'
  BY <1>3 DEF EntitlementInv, SnapshotInv, Snapshot, DueInv, Due, history
<1>4. user \in User
  BY DEF SubInv, TypeOK, UserTypeOK
<1>5. ASSUME NEW k \in Callers, CallStep(k) PROVE EntitlementInv'
  <2>1. UNCHANGED <<stripe, pending, hook, history>>
    BY <1>5 DEF CallStep, BeginCall, RetrieveCustomer, ClearCustomer, CreateCustomer,
                SaveCustomer, OpenSession, FailCall, CallRest
  <2>2. user'.plan = user.plan /\ user'.limit = user.limit
    BY <1>4, <1>5 DEF CallStep, BeginCall, RetrieveCustomer, ClearCustomer, CreateCustomer,
                      SaveCustomer, OpenSession, FailCall, User
  <2>3. QED
    BY <1>3, <2>1, <2>2
<1>6. ASSUME NEW x \in Cancellers,
             BeginCancel(x) \/ ListActive(x) \/ WriteMarker(x) \/ FailCancel(x)
      PROVE  EntitlementInv'
  <2>1. UNCHANGED <<stripe, pending, hook, history>>
    BY <1>6 DEF BeginCancel, ListActive, WriteMarker, FailCancel, CancelRest
  <2>2. user'.plan = user.plan /\ user'.limit = user.limit
    BY <1>4, <1>6 DEF BeginCancel, ListActive, WriteMarker, FailCancel, User
  <2>3. QED
    BY <1>3, <2>1, <2>2
<1>7. CASE HostCall \/ UNCHANGED vars
  BY <1>3, <1>7 DEF HostCall, vars, stripeVars
<1>8. QED
  BY <1>1, <1>2, <1>5, <1>6, <1>7 DEF Next, CancelStep, StripeAction

LEMMA EntitlementInvInitially == Init => EntitlementInv
<1> SUFFICES ASSUME Init PROVE EntitlementInv
  OBVIOUS
<1>1. pending = {} /\ \A h \in Handlers : hook[h].pc = "idle"
  BY DEF Init, IdleHook
<1>2. CASE NeverPaid
  BY <1>1, <1>2 DEF NeverPaid, Unpaid, Unborn, EntitlementInv, SnapshotInv, DueInv
<1>3. ASSUME NEW t \in Subs, NEW c \in Customers, Subscribed(t, c)
      PROVE  EntitlementInv
  <2>1. /\ stripe[t] = FirstSub(t, c) /\ \A r \in Subs \ {t} : stripe[r] = Unborn(r)
        /\ newest[t] = 1 /\ \A r \in Subs \ {t} : newest[r] = 0
        /\ user = Paying(t, c) /\ last = t
    BY <1>3 DEF Subscribed
  <2>2. /\ FirstSub(t, c).version = 1 /\ FirstSub(t, c).status = "active"
        /\ FirstSub(t, c).meta = "PRO"
        /\ \A r \in Subs : Unborn(r).version = 0
    BY DEF FirstSub, Unborn
  <2>3. \A s \in Subs : newest[s] = stripe[s].version
    <3>1. \A r \in Subs : r = t \/ r \in Subs \ {t}
      OBVIOUS
    <3>2. QED
      BY <2>1, <2>2, <3>1
  <2>4. Entitlement(stripe[t]) = [plan |-> "PRO", limit |-> ProHosts]
    BY <2>1, <2>2 DEF Entitlement, isActive, hostLimitFor, planFromMetaOrPrice
  <2>5. Due(stripe[t])
    BY <2>1, <2>4 DEF Due, Paying
  <2>6. \A s \in Subs : newest[s] <= stripe[s].version
    <3>1. \A s \in Subs : newest[s] \in Nat
      BY SubInvInitially DEF SubInv, TypeOK, HistoryTypeOK
    <3>2. QED
      BY <2>3, <3>1
  <2>7. QED
    BY <1>1, <2>1, <2>3, <2>5, <2>6, BillingAssumption DEF EntitlementInv, SnapshotInv, DueInv
<1>4. QED
  BY <1>2, <1>3, InitialCases

(* Whatever is repeated, overlaps or fails, when every event is answered    *)
(* the user has what the subscription last applied is due, unless an event  *)
(* came after a newer one or found no user.                                 *)
THEOREM EntitlementCurrent == Spec => []EntitlementIsCurrent
<1>1. SubInv /\ SubInv' /\ EntitlementInv /\ [Next]_vars => EntitlementInv'
  BY EntitlementInvInductive
<1>2. SubInv /\ EntitlementInv => EntitlementIsCurrent
  BY EntitlementFollows
<1>3. QED
  BY <1>1, <1>2, EntitlementInvInitially, SubInvInitially, SubInvInductive, PTL DEF Spec

-----------------------------------------------------------------------------
(* The row and the user                                                     *)

Apart == row # None /\ user.status # Marker /\ ~(row.sub = user.sub /\ row.status = user.status)

(* Until writes have crossed, one request at most is between its two        *)
(* writes, and when none is and row and user are apart, the event whose     *)
(* delivery failed between them is still to come.                           *)
RowsInv ==
  ~crossed =>
    /\ \A g, h \in Handlers : hook[g].pc = "user" /\ hook[h].pc = "user" => g = h
    /\ \A h \in Handlers : hook[h].pc = "user" =>
         row.sub = hook[h].sub.id /\ row.status = hook[h].sub.status
    /\ Apart => \/ \E h \in Handlers : hook[h].pc = "user"
                \/ \E e \in pending : e.sub.id = row.sub

LEMMA RowsHook ==
  ASSUME SubInv, SubInv', SnapshotInv, RowsInv, NEW h \in Handlers, HookStep(h) \/ FailHook(h)
  PROVE  RowsInv'
<1>1. TypeOK
  BY DEF SubInv
<1>2. \A g \in Handlers : g # h => hook'[g] = hook[g]
  BY <1>1 DEF HookStep, FailHook, Receive, FindUser, UpsertRow, UpdateUser, Acknowledge, TypeOK
<1>3. /\ hook[h].pc # "idle" =>
           /\ hook[h] \in [pc : {"find", "row", "user"}, event : Event, sub : Sub]
           /\ hook[h].sub.id = hook[h].event.sub.id
  BY <1>1, BusyHook DEF SnapshotInv
<1>4. SUFFICES ASSUME ~crossed' PROVE RowsInv'
  BY DEF RowsInv
<1>5. CASE Receive(h)
  <2>1. hook[h].pc = "idle" /\ hook'[h].pc = "find"
    BY <1>1, <1>5 DEF Receive, TypeOK
  <2>2. UNCHANGED <<crossed, row, user, pending>>
    BY <1>5 DEF Receive, history
  <2>3. \A g \in Handlers : /\ hook'[g].pc = "user" <=> hook[g].pc = "user"
                            /\ hook[g].pc = "user" => hook'[g] = hook[g]
    BY <1>2, <2>1
  <2>4. QED
    BY <2>2, <2>3 DEF RowsInv, Apart
<1>6. CASE FindUser(h)
  <2>1. /\ hook[h].pc = "find" /\ hook'[h].pc \in {"row", "idle"}
        /\ UNCHANGED <<row, user>> /\ ~crossed
    BY <1>1, <1>3, <1>4, <1>6 DEF FindUser, Acknowledge, IdleHook, TypeOK, HistoryTypeOK
  <2>2. \A g \in Handlers : /\ hook'[g].pc = "user" <=> hook[g].pc = "user"
                            /\ hook[g].pc = "user" => hook'[g] = hook[g]
    BY <1>2, <2>1
  <2>3. ASSUME NEW e \in pending, row # None, e.sub.id = row.sub PROVE e \in pending'
    BY <1>3, <1>4, <1>6, <2>1, <2>3 DEF FindUser, Acknowledge
  <2>4. QED
    BY <2>1, <2>2, <2>3 DEF RowsInv, Apart
<1>7. CASE UpsertRow(h)
  <2>1. /\ hook[h].pc = "row" /\ ~crossed
        /\ \A g \in Handlers \ {h} : hook[g].pc # "user"
    BY <1>1, <1>4, <1>7 DEF UpsertRow, TypeOK, HistoryTypeOK
  <2>2. hook'[h].pc = "user" /\ hook'[h].sub = hook[h].sub
    BY <1>1, <1>3, <1>7, <2>1 DEF UpsertRow, TypeOK
  <2>3. row'.sub = hook[h].sub.id /\ row'.status = hook[h].sub.status
    BY <1>7 DEF UpsertRow
  <2>4. QED
    BY <1>2, <2>1, <2>2, <2>3 DEF RowsInv
<1>8. CASE UpdateUser(h)
  <2>1. /\ hook[h].pc = "user" /\ ~crossed /\ UNCHANGED row /\ hook'[h].pc = "idle"
        /\ user'.sub = hook[h].sub.id /\ user'.status = hook[h].sub.status
    BY <1>1, <1>4, <1>8 DEF UpdateUser, Acknowledge, IdleHook, TypeOK
  <2>2. \A g \in Handlers : hook'[g].pc # "user"
    BY <1>2, <2>1 DEF RowsInv
  <2>3. ~Apart'
    BY <2>1 DEF RowsInv, Apart
  <2>4. QED
    BY <2>2, <2>3 DEF RowsInv
<1>9. CASE FailHook(h)
  <2>1. /\ ~crossed /\ UNCHANGED <<row, user, pending>> /\ hook'[h].pc = "idle"
        /\ hook[h].pc = "user" => hook[h].event \in pending
    BY <1>1, <1>4, <1>9 DEF FailHook, IdleHook, TypeOK, HistoryTypeOK
  <2>2. CASE hook[h].pc = "user"
    <3>1. row.sub = hook[h].event.sub.id /\ \A g \in Handlers : hook'[g].pc # "user"
      BY <1>2, <1>3, <2>1, <2>2 DEF RowsInv
    <3>2. QED
      BY <2>1, <2>2, <3>1 DEF RowsInv
  <2>3. CASE hook[h].pc # "user"
    <3>1. \A g \in Handlers : /\ hook'[g].pc = "user" <=> hook[g].pc = "user"
                              /\ hook[g].pc = "user" => hook'[g] = hook[g]
      BY <1>2, <2>1, <2>3
    <3>2. QED
      BY <2>1, <3>1 DEF RowsInv, Apart
  <2>4. QED
    BY <2>2, <2>3
<1>10. QED
  BY <1>5, <1>6, <1>7, <1>8, <1>9 DEF HookStep

LEMMA RowsInvInductive ==
  ASSUME SubInv, SubInv', SnapshotInv, RowsInv, [Next]_vars
  PROVE  RowsInv'
<1>1. TypeOK /\ user \in User /\ cancel \in [Cancellers -> CancelState]
  BY DEF SubInv, TypeOK, UserTypeOK
<1>2. ASSUME UNCHANGED <<row, hook, crossed>>, \A e \in pending : e \in pending',
             \/ user'.sub = user.sub /\ user'.status = user.status
             \/ user'.status = Marker
      PROVE  RowsInv'
  BY <1>2 DEF RowsInv, Apart
<1>3. CASE StripeAction
  <2>1. UNCHANGED <<user, row, hook, history>>
    BY <1>3 DEF StripeAction, CompleteCheckout, SubscribeElsewhere, ChangeAtStripe,
                DeleteCustomer, UpdateStripe, Others, CancelRest
  <2>2. \A e \in pending : e \in pending'
    BY <1>1, <1>3, StripeActionStep DEF SubInv, StripeStep
  <2>3. QED
    BY <1>2, <2>1, <2>2 DEF history
<1>4. ASSUME NEW h \in Handlers, HookStep(h) \/ FailHook(h) PROVE RowsInv'
  BY <1>4, RowsHook
<1>5. ASSUME NEW k \in Callers, CallStep(k) PROVE RowsInv'
  <2>1. UNCHANGED <<row, hook, crossed, pending>>
    BY <1>5 DEF CallStep, BeginCall, RetrieveCustomer, ClearCustomer, CreateCustomer,
                SaveCustomer, OpenSession, FailCall, CallRest, history
  <2>2. user'.sub = user.sub /\ user'.status = user.status
    BY <1>1, <1>5 DEF CallStep, BeginCall, RetrieveCustomer, ClearCustomer, CreateCustomer,
                      SaveCustomer, OpenSession, FailCall, User
  <2>3. QED
    BY <1>2, <2>1, <2>2
<1>6. ASSUME NEW x \in Cancellers,
             BeginCancel(x) \/ ListActive(x) \/ WriteMarker(x) \/ FailCancel(x)
      PROVE  RowsInv'
  <2>1. UNCHANGED <<row, hook, crossed, pending>>
    BY <1>6 DEF BeginCancel, ListActive, WriteMarker, FailCancel, CancelRest, history
  <2>2. UNCHANGED user \/ user'.status = Marker
    BY <1>1, <1>6 DEF BeginCancel, ListActive, WriteMarker, FailCancel, User
  <2>3. QED
    BY <1>2, <2>1, <2>2
<1>7. CASE HostCall \/ UNCHANGED vars
  BY <1>2, <1>7 DEF HostCall, vars, stripeVars, history
<1>8. QED
  BY <1>3, <1>4, <1>5, <1>6, <1>7 DEF Next, CancelStep, StripeAction

(* The two writes of a request agree in the end, with the exceptions the    *)
(* property names, for any number of overlapping requests.                  *)
THEOREM RowsAlwaysAgree == Spec => []RowsAgree
<1>1. Init => RowsInv
  <2>1. SUFFICES ASSUME Init PROVE RowsInv
    OBVIOUS
  <2>2. \A h \in Handlers : hook[h].pc # "user"
    BY <2>1 DEF Init, IdleHook
  <2>3. ~Apart
    BY <2>1, InitialCases DEF NeverPaid, Subscribed, Paying, Apart
  <2>4. QED
    BY <2>2, <2>3 DEF RowsInv
<1>2. SubInv /\ SubInv' /\ EntitlementInv /\ RowsInv /\ [Next]_vars => RowsInv'
  BY RowsInvInductive DEF EntitlementInv
<1>3. SubInv /\ RowsInv => RowsAgree
  BY DEF RowsInv, RowsAgree, Apart, Quiet
<1>4. SubInv /\ SubInv' /\ EntitlementInv /\ [Next]_vars => EntitlementInv'
  BY EntitlementInvInductive
<1>5. QED
  BY <1>1, <1>2, <1>3, <1>4, EntitlementInvInitially, SubInvInitially, SubInvInductive, PTL
  DEF Spec
=============================================================================
