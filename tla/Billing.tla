------------------------------ MODULE Billing ------------------------------
(***************************************************************************)
(* Billing of one user: the subscriptions Stripe keeps and the events it   *)
(* delivers, at least once and in any order, to billing/webhook/route.ts;  *)
(* the checkout and portal calls, which create a customer when there is    *)
(* none; the cancel call; and the hosts the resulting limit allows.        *)
(*                                                                         *)
(* Stripe is external, modelled from how the routes use it: a subscription *)
(* changes, each change is an event with the subscription as it was then,  *)
(* and an event is delivered again until a delivery is answered with 200.  *)
(* Prices stand for plans, dates are left out.                             *)
(***************************************************************************)
EXTENDS HostQuota

CONSTANTS
  Subs, Customers,   \* ids Stripe gives out
  Handlers,          \* concurrent webhook requests
  Callers,           \* concurrent checkout and portal calls
  Cancellers,        \* concurrent cancel calls
  FreeHosts, ProHosts, EliteHosts,  \* 1, 10 and 50 in the code
  None,
  MaxCalls           \* bound: changes at Stripe, calls, failures

ASSUME BillingAssumption ==
  /\ Subs # {} /\ Customers # {} /\ None \notin Subs \cup Customers
  /\ {FreeHosts, ProHosts, EliteHosts} \subseteq Nat \ {0}
  /\ MaxCalls \in Nat

VARIABLES
  stripe,    \* Stripe's subscriptions
  live,      \* Stripe's customers
  deleted,
  sessions,  \* open checkout sessions: a customer and the plan of its metadata
  pending,   \* events without a delivery that was answered 200
  user,      \* the billing fields of User
  row,       \* the user's row of Subscription, or None
  hook,      \* the webhook requests
  call,      \* the checkout and portal calls
  cancel,    \* the cancel calls
  calls,
  newest,    \* history: the latest version of each subscription on the user
  last,      \* history: the subscription last put on the user
  missed,    \* history: an event came after a newer one, or found no user
  crossed,   \* history: the two writes of a request are apart for good
  takenBack, \* history: a cancellation was taken back between a cancel call's two writes
  peak       \* history: the highest limit the user has had

stripeVars == <<stripe, live, deleted, sessions, pending>>
history    == <<newest, last, missed, crossed, peak>>
vars == <<stripeVars, user, row, hook, call, cancel, calls, history, takenBack, quotaVars>>

(* The pro price and a price that is not known both mean PRO, and any plan  *)
(* of the metadata but PRO and ELITE, BASIC too, leaves it to the price.    *)
Metas    == {"PRO", "ELITE", "other"}
Prices   == {"elite", "other"}
Statuses == {"none", "active", "past_due", "canceled"}
Marker   == "CANCEL_AT_PERIOD_END"

(* named: the metadata has the user's id, as a checkout of ours writes it.  *)
Sub == [id : Subs, status : Statuses, meta : Metas, price : Prices, named : BOOLEAN,
        customer : Customers \cup {None}, ending : BOOLEAN, version : Nat]

Event == [kind : {"subscription", "checkout"}, sub : Sub]

Unborn(s) == [id |-> s, status |-> "none", meta |-> "other", price |-> "other", named |-> TRUE,
              customer |-> None, ending |-> FALSE, version |-> 0]

planFromMetaOrPrice(sub) ==
  IF sub.meta \in {"ELITE", "PRO"} THEN sub.meta
  ELSE IF sub.price = "elite" THEN "ELITE" ELSE "PRO"

hostLimitFor(plan) == IF plan = "ELITE" THEN EliteHosts ELSE ProHosts

isActive(sub) == sub.status = "active"

(* Mutant: a subscription that has lapsed keeps its hosts.                  *)
EntitlementKept(sub) ==
  [plan |-> IF isActive(sub) THEN "PRO" ELSE "FREE", limit |-> hostLimitFor(planFromMetaOrPrice(sub))]

(* ELITE is stored as PRO, the limit tells them apart.                      *)
Entitlement(sub) ==
  IF isActive(sub) THEN [plan |-> "PRO", limit |-> hostLimitFor(planFromMetaOrPrice(sub))]
  ELSE [plan |-> "FREE", limit |-> FreeHosts]

User == [customer : Customers \cup {None}, sub : Subs \cup {None},
         status : Statuses \cup {Marker}, plan : {"FREE", "PRO"}, limit : Nat]

IdleHook   == [pc |-> "idle", event |-> None, sub |-> None]
IdleCall   == [pc |-> "idle", plan |-> None, customer |-> None, gone |-> {}]
IdleCancel == [pc |-> "idle", sub |-> None, customer |-> None]

HookState == {IdleHook} \cup [pc : {"find", "row", "user"}, event : Event, sub : Sub]

CallState == [pc : {"idle", "retrieve", "clear", "create", "save", "session"},
              plan : {"PRO", "other", None}, customer : Customers \cup {None},
              gone : SUBSET Customers]

CancelState == [pc : {"idle", "list"}, sub : {None}, customer : Customers \cup {None}]
               \cup [pc : {"update", "write"}, sub : Subs, customer : Customers \cup {None}]

StripeTypeOK ==
  /\ stripe \in [Subs -> Sub]
  /\ live \subseteq Customers /\ deleted \subseteq Customers \ live
  /\ sessions \subseteq (live \X {"PRO", "other"})
  /\ pending \subseteq Event

UserTypeOK ==
  /\ user \in User
  /\ row = None \/ row \in [sub : Subs, status : Statuses, customer : Customers \cup {None}]

HistoryTypeOK ==
  /\ newest \in [Subs -> Nat] /\ last \in Subs \cup {None}
  /\ missed \in BOOLEAN /\ crossed \in BOOLEAN /\ takenBack \in BOOLEAN /\ peak \in Nat

TypeOK ==
  /\ StripeTypeOK /\ UserTypeOK /\ HistoryTypeOK /\ QuotaTypeOK
  /\ hook \in [Handlers -> HookState]
  /\ call \in [Callers -> CallState]
  /\ cancel \in [Cancellers -> CancelState]
  /\ calls \in 0..MaxCalls

Unpaid == [customer |-> None, sub |-> None, status |-> "none", plan |-> "FREE", limit |-> FreeHosts]

(* A subscription that is a version old, with its user and its row.         *)
FirstSub(s, c) == [Unborn(s) EXCEPT !.status = "active", !.meta = "PRO", !.customer = c, !.version = 1]
Paying(s, c) == [customer |-> c, sub |-> s, status |-> "active", plan |-> "PRO", limit |-> ProHosts]

(* The user has never paid, or has a subscription that everyone knows of.   *)
Init ==
  /\ QuotaInit
  /\ \/ /\ stripe = [s \in Subs |-> Unborn(s)] /\ live = {}
        /\ user = Unpaid /\ row = None
        /\ newest = [s \in Subs |-> 0] /\ last = None /\ peak = FreeHosts
     \/ LET s == CHOOSE s \in Subs : TRUE  c == CHOOSE c \in Customers : TRUE IN
        /\ stripe = [r \in Subs |-> IF r = s THEN FirstSub(s, c) ELSE Unborn(r)] /\ live = {c}
        /\ user = Paying(s, c) /\ row = [sub |-> s, status |-> "active", customer |-> c]
        /\ newest = [r \in Subs |-> IF r = s THEN 1 ELSE 0] /\ last = s /\ peak = ProHosts
  /\ deleted = {} /\ sessions = {} /\ pending = {}
  /\ hook = [h \in Handlers |-> IdleHook]
  /\ call = [k \in Callers |-> IdleCall]
  /\ cancel = [x \in Cancellers |-> IdleCancel]
  /\ calls = 0
  /\ missed = FALSE /\ crossed = FALSE /\ takenBack = FALSE

Spend == calls < MaxCalls /\ calls' = calls + 1

-----------------------------------------------------------------------------
(* Stripe                                                                   *)

(* The subscriptions in changed are new, each a version and an event.       *)
Publish(changed, kinds) ==
  LET next == [s \in DOMAIN changed |-> [changed[s] EXCEPT !.version = @ + 1]]
  IN /\ stripe' = [s \in Subs |-> IF s \in DOMAIN next THEN next[s] ELSE stripe[s]]
     /\ pending' = pending \cup [kind : kinds, sub : {next[s] : s \in DOMAIN next}]

Born(s) == stripe[s].status # "none"
NextSub == CHOOSE s \in Subs : ~Born(s)
Fresh   == Customers \ (live \cup deleted)

Others == <<user, row, hook, call, cancel, history, quotaVars>>

(* A checkout session is paid; its metadata is copied.                      *)
CompleteCheckout ==
  /\ \E s \in Subs : ~Born(s)
  /\ Spend
  /\ \E session \in sessions :
       /\ sessions' = sessions \ {session}
       /\ Publish([s \in {NextSub} |-> [Unborn(s) EXCEPT
            !.status = "active", !.meta = session[2], !.customer = session[1]]],
            {"subscription", "checkout"})
  /\ UNCHANGED <<live, deleted, takenBack, Others>>

(* A subscription made by hand names no user.                               *)
SubscribeElsewhere ==
  /\ \E s \in Subs : ~Born(s)
  /\ Spend
  /\ \E c \in live, price \in Prices :
       Publish([s \in {NextSub} |-> [Unborn(s) EXCEPT
         !.status = "active", !.price = price, !.named = FALSE, !.customer = c]],
         {"subscription"})
  /\ UNCHANGED <<live, deleted, sessions, takenBack, Others>>

(* A payment fails or recovers, the plan changes or the period ends; in the *)
(* portal the customer also asks for a cancellation or takes one back.      *)
Changed(sub) ==
  ({[sub EXCEPT !.status = status] : status \in {"active", "past_due", "canceled"}}
   \cup {[sub EXCEPT !.price = price] : price \in Prices}
   \cup {[sub EXCEPT !.ending = ~@]}) \ {sub}

HalfCancelled(s) == \E x \in Cancellers : cancel[x].pc = "write" /\ cancel[x].sub = s

ChangeAtStripe(s) ==
  /\ stripe[s].status \in {"active", "past_due"} /\ Spend
  /\ \E new \in Changed(stripe[s]) :
       /\ Publish([r \in {s} |-> new], {"subscription"})
       /\ takenBack' = (takenBack \/ (stripe[s].ending /\ ~new.ending /\ HalfCancelled(s)))
  /\ UNCHANGED <<live, deleted, sessions, Others>>

(* A customer is deleted at Stripe, and its subscriptions end.              *)
DeleteCustomer(c) ==
  /\ c \in live /\ Spend
  /\ live' = live \ {c} /\ deleted' = deleted \cup {c}
  /\ sessions' = {session \in sessions : session[1] # c}
  /\ LET ended == {s \in Subs : stripe[s].customer = c /\ stripe[s].status # "canceled"}
     IN Publish([s \in ended |-> [stripe[s] EXCEPT !.status = "canceled"]], {"subscription"})
  /\ UNCHANGED <<takenBack, Others>>

-----------------------------------------------------------------------------
(* The webhook                                                              *)

HookRest == <<stripe, live, deleted, sessions, call, cancel, takenBack, quotaVars>>

(* A checkout event carries no subscription and takes Stripe's own.         *)
Receive(h) ==
  /\ hook[h].pc = "idle"
  /\ \E e \in pending :
       hook' = [hook EXCEPT ![h] =
         [pc |-> "find", event |-> e,
          sub |-> IF e.kind = "checkout" THEN stripe[e.sub.id] ELSE e.sub]]
  /\ UNCHANGED <<pending, user, row, calls, history, HookRest>>

Acknowledge(h) ==
  /\ hook' = [hook EXCEPT ![h] = IdleHook]
  /\ pending' = pending \ {hook[h].event}

(* By the id in the metadata, or else by the customer; an event without a   *)
(* user is answered 200, one whose row a failed delivery has written too.   *)
FindUser(h) ==
  /\ hook[h].pc = "find"
  /\ IF hook[h].sub.named \/ user.customer = hook[h].sub.customer
     THEN /\ hook' = [hook EXCEPT ![h].pc = "row"]
          /\ UNCHANGED <<pending, missed, crossed>>
     ELSE /\ Acknowledge(h) /\ missed' = TRUE
          /\ crossed' = (crossed \/ (row # None /\ row.sub = hook[h].sub.id))
  /\ UNCHANGED <<user, row, calls, newest, last, peak, HookRest>>

UpsertRow(h) ==
  /\ hook[h].pc = "row"
  /\ row' = [sub |-> hook[h].sub.id, status |-> hook[h].sub.status, customer |-> hook[h].sub.customer]
  /\ hook' = [hook EXCEPT ![h].pc = "user"]
  /\ crossed' = (crossed \/ \E g \in Handlers \ {h} : hook[g].pc = "user")
  /\ UNCHANGED <<pending, user, calls, newest, last, missed, peak, HookRest>>

(* The answer may be lost, and the event comes again.                       *)
UpdateUser(h) ==
  /\ hook[h].pc = "user"
  /\ LET sub == hook[h].sub  due == Entitlement(sub) IN
       /\ user' = [customer |-> sub.customer, sub |-> sub.id, status |-> sub.status,
                   plan |-> due.plan, limit |-> due.limit]
       /\ peak' = IF due.limit > peak THEN due.limit ELSE peak
       /\ missed' = (missed \/ sub.version < newest[sub.id])
       /\ newest' = [newest EXCEPT ![sub.id] = IF sub.version > @ THEN sub.version ELSE @]
       /\ last' = sub.id
  /\ \/ Acknowledge(h) /\ UNCHANGED calls
     \/ Spend /\ hook' = [hook EXCEPT ![h] = IdleHook] /\ UNCHANGED pending
  /\ UNCHANGED <<row, crossed, HookRest>>

(* Mutant: a request that fails is answered 200 all the same.               *)
FailAnswered(h) ==
  /\ hook[h].pc # "idle" /\ Spend
  /\ Acknowledge(h)
  /\ UNCHANGED <<user, row, history, HookRest>>

(* A database or Stripe call throws, or the process dies. A repeated        *)
(* delivery that fails halfway may not be made good: its event is answered. *)
FailHook(h) ==
  /\ hook[h].pc # "idle" /\ Spend
  /\ hook' = [hook EXCEPT ![h] = IdleHook]
  /\ crossed' = (crossed \/ (hook[h].pc = "user" /\ hook[h].event \notin pending))
  /\ UNCHANGED <<pending, user, row, newest, last, missed, peak, HookRest>>

HookStep(h) == Receive(h) \/ FindUser(h) \/ UpsertRow(h) \/ UpdateUser(h)

-----------------------------------------------------------------------------
(* Checkout and portal                                                      *)

CallRest == <<stripe, deleted, pending, row, hook, cancel, history, takenBack, quotaVars>>

Goto(k, pc, customer) == call' = [call EXCEPT ![k].pc = pc, ![k].customer = customer]
EndCall(k) == call' = [call EXCEPT ![k] = IdleCall]

(* A portal call has no plan.                                               *)
BeginCall(k) ==
  /\ call[k].pc = "idle" /\ Spend
  /\ \E plan \in {"PRO", "other", None} :
       call' = [call EXCEPT ![k] =
         [pc |-> IF user.customer = None THEN "create" ELSE "retrieve", plan |-> plan,
          customer |-> user.customer, gone |-> deleted]]
  /\ UNCHANGED <<live, sessions, user, CallRest>>

RetrieveCustomer(k) ==
  /\ call[k].pc = "retrieve"
  /\ Goto(k, IF call[k].customer \in live THEN "session" ELSE "clear", call[k].customer)
  /\ UNCHANGED <<live, sessions, user, calls, CallRest>>

ClearCustomer(k) ==
  /\ call[k].pc = "clear"
  /\ user' = [user EXCEPT !.customer = None]
  /\ Goto(k, "create", None)
  /\ UNCHANGED <<live, sessions, calls, CallRest>>

CreateCustomer(k) ==
  /\ call[k].pc = "create" /\ Fresh # {}
  /\ LET c == CHOOSE c \in Fresh : TRUE
     IN live' = live \cup {c} /\ Goto(k, "save", c)
  /\ UNCHANGED <<sessions, user, calls, CallRest>>

SaveCustomer(k) ==
  /\ call[k].pc = "save"
  /\ user' = [user EXCEPT !.customer = call[k].customer]
  /\ Goto(k, "session", call[k].customer)
  /\ UNCHANGED <<live, sessions, calls, CallRest>>

(* Stripe refuses a session for a customer deleted since.                   *)
OpenSession(k) ==
  /\ call[k].pc = "session"
  /\ sessions' = IF call[k].plan # None /\ call[k].customer \in live
                 THEN sessions \cup {<<call[k].customer, call[k].plan>>} ELSE sessions
  /\ EndCall(k)
  /\ UNCHANGED <<live, user, calls, CallRest>>

FailCall(k) ==
  /\ call[k].pc # "idle" /\ Spend
  /\ EndCall(k)
  /\ UNCHANGED <<live, sessions, user, CallRest>>

CallStep(k) ==
  \/ BeginCall(k) \/ RetrieveCustomer(k) \/ ClearCustomer(k) \/ CreateCustomer(k)
  \/ SaveCustomer(k) \/ OpenSession(k) \/ FailCall(k)

-----------------------------------------------------------------------------
(* Cancel                                                                   *)

CancelRest == <<live, deleted, sessions, row, hook, call, history, takenBack, quotaVars>>

EndCancel(x) == cancel' = [cancel EXCEPT ![x] = IdleCancel]

BeginCancel(x) ==
  /\ cancel[x].pc = "idle" /\ Spend
  /\ user.sub # None \/ user.customer # None
  /\ cancel' = [cancel EXCEPT ![x] =
       [pc |-> IF user.sub # None THEN "update" ELSE "list", sub |-> user.sub,
        customer |-> user.customer]]
  /\ UNCHANGED <<stripe, pending, user, CancelRest>>

ListActive(x) ==
  /\ cancel[x].pc = "list"
  /\ LET active == {s \in Subs : stripe[s].customer = cancel[x].customer /\ isActive(stripe[s])}
     IN \/ active = {} /\ EndCancel(x)
        \/ \E s \in active : cancel' = [cancel EXCEPT ![x].pc = "update", ![x].sub = s]
  /\ UNCHANGED <<stripe, pending, user, calls, CancelRest>>

(* Stripe refuses to change a subscription that has ended.                  *)
UpdateStripe(x) ==
  /\ cancel[x].pc = "update"
  /\ LET s == cancel[x].sub IN
       IF stripe[s].status = "canceled"
       THEN EndCancel(x) /\ UNCHANGED <<stripe, pending>>
       ELSE /\ cancel' = [cancel EXCEPT ![x].pc = "write"]
            /\ IF stripe[s].ending THEN UNCHANGED <<stripe, pending>>
               ELSE Publish([r \in {s} |-> [stripe[r] EXCEPT !.ending = TRUE]], {"subscription"})
  /\ UNCHANGED <<user, calls, CancelRest>>

(* Mutant: the status alone is written.                                     *)
WriteStatusOnly(x) ==
  /\ cancel[x].pc = "write"
  /\ user' = [user EXCEPT !.status = Marker]
  /\ EndCancel(x)
  /\ UNCHANGED <<stripe, pending, calls, CancelRest>>

WriteMarker(x) ==
  /\ cancel[x].pc = "write"
  /\ user' = [user EXCEPT !.sub = cancel[x].sub, !.status = Marker]
  /\ EndCancel(x)
  /\ UNCHANGED <<stripe, pending, calls, CancelRest>>

(* Stripe does not answer, or the best-effort write fails.                  *)
FailCancel(x) ==
  /\ cancel[x].pc # "idle" /\ Spend
  /\ EndCancel(x)
  /\ UNCHANGED <<stripe, pending, user, CancelRest>>

CancelStep(x) ==
  BeginCancel(x) \/ ListActive(x) \/ UpdateStripe(x) \/ WriteMarker(x) \/ FailCancel(x)

-----------------------------------------------------------------------------
HostCall ==
  /\ \/ (\E n \in Creators : BeginCreate(n, user.limit)) /\ Spend
     \/ (\E s \in hosts : DeleteHost(s)) /\ Spend
     \/ (\E n \in Creators : CreateStep(n)) /\ UNCHANGED calls
  /\ UNCHANGED <<stripeVars, user, row, hook, call, cancel, history, takenBack>>

Next ==
  \/ CompleteCheckout \/ SubscribeElsewhere
  \/ \E s \in Subs : ChangeAtStripe(s)
  \/ \E c \in Customers : DeleteCustomer(c)
  \/ \E h \in Handlers : HookStep(h) \/ FailHook(h)
  \/ \E k \in Callers : CallStep(k)
  \/ \E x \in Cancellers : CancelStep(x)
  \/ HostCall

(* Stripe delivers an event until it is answered (webhook/route.ts:206),    *)
(* and a request that does not fail runs on.                                *)
Spec == Init /\ [][Next]_vars /\ \A h \in Handlers : WF_vars(HookStep(h))

-----------------------------------------------------------------------------
(* Properties                                                               *)

Quiet == pending = {} /\ \A h \in Handlers : hook[h].pc = "idle"

(* Whatever was lost, repeated or failed on the way, once every event has   *)
(* been answered the user has the plan and the hosts of the subscription    *)
(* last applied as it is at Stripe, unless an event came after a newer one. *)
EntitlementIsCurrent ==
  Quiet /\ ~missed =>
    IF last # None /\ isActive(stripe[last])
    THEN user.plan = "PRO" /\ user.limit = hostLimitFor(planFromMetaOrPrice(stripe[last]))
    ELSE user.plan = "FREE" /\ user.limit = FreeHosts

(* The user and the row of Subscription, written by separate statements,    *)
(* name one subscription and one status when every event has been answered, *)
(* unless two requests wrote between each other's writes, a delivery that   *)
(* failed halfway is not made good (a twin of it was answered, or its       *)
(* repetition finds no user), or a cancellation has marked the user.        *)
RowsAgree ==
  Quiet /\ ~crossed /\ row # None /\ user.status # Marker =>
    row.sub = user.sub /\ row.status = user.status

(* A user marked CANCEL_AT_PERIOD_END names a subscription that ends, even  *)
(* when a webhook puts another one on the user during the cancellation, or  *)
(* one whose end the customer took back in the portal and whose event is    *)
(* still to come; not so when it was taken back between the cancel call's   *)
(* two writes, or an event was missed.                                      *)
MarkerIsTrue ==
  user.status = Marker /\ ~takenBack /\ ~missed =>
    /\ user.sub # None
    /\ \/ stripe[user.sub].ending \/ stripe[user.sub].status = "canceled"
       \/ \E e \in pending : e.sub = stripe[user.sub]

(* A checkout or portal session is asked for a customer that existed when   *)
(* the call began, or was made by it, though the row may hold one deleted   *)
(* at Stripe.                                                               *)
CallHasCustomer ==
  \A k \in Callers : call[k].pc = "session" =>
    call[k].customer # None /\ call[k].customer \notin call[k].gone

(* Overlapping create calls take a user past the highest limit of all time  *)
(* by no more than their number less one, whatever billing does meanwhile.  *)
HostsWithinPeak == Cardinality(hosts) <= peak + Cardinality(Creators) - 1

(* Every version of a subscription reaches the user, or is overtaken: after *)
(* a failure the event is delivered again (webhook/route.ts:206).           *)
EventsReachUser == []<>(missed \/ \A s \in Subs : newest[s] = stripe[s].version)
=============================================================================
