----------------------------- MODULE MCBilling -----------------------------
(* Instances of Billing for TLC. An event comes to a second request while   *)
(* the first is at work only when Stripe has given the first one up, which  *)
(* the instance allows in the first MaxTwins calls, changes and failures.   *)
EXTENDS Billing

CONSTANT MaxTwins

GivesUp(e) == (\E h \in Handlers : hook[h].event = e) => calls < MaxTwins

Deliver(h) ==
  /\ Receive(h)
  /\ GivesUp(hook'[h].event)

MCHookStep(h) == Deliver(h) \/ FindUser(h) \/ UpsertRow(h) \/ UpdateUser(h)

MCNext ==
  \/ CompleteCheckout \/ SubscribeElsewhere
  \/ \E s \in Subs : ChangeAtStripe(s)
  \/ \E c \in Customers : DeleteCustomer(c)
  \/ \E h \in Handlers : MCHookStep(h) \/ FailHook(h)
  \/ \E k \in Callers : CallStep(k)
  \/ \E x \in Cancellers : CancelStep(x)
  \/ HostCall

MCSpec == Init /\ [][MCNext]_vars /\ \A h \in Handlers : WF_vars(MCHookStep(h))
=============================================================================
