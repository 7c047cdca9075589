-------------------------------- MODULE Billing --------------------------------
(***************************************************************************)
(* What a payment provider's event does to a tenant: planFromStripeEvent(), *)
(* planFromPayPalEvent() and planFromPaystackEvent() of packages/capkit/src *)
(* (billing.ts, paystack.ts), and the events the providers send in the      *)
(* life of a subscription, which is the environment of this code.           *)
(*                                                                         *)
(* A customer is what a provider calls its side of a subscription.  Every   *)
(* event has a good signature and names a plan this build knows.            *)
(***************************************************************************)
EXTENDS Naturals

None == "none"

Event(type, status, customer, tenant, plan) ==
  [type |-> type, status |-> status, customer |-> customer, tenant |-> tenant, plan |-> plan]

\* What is to be done: "bind", "set-plan", "suspend" or "ignore".
Outcome(action, e, plan) ==
  [action |-> action, customer |-> e.customer, tenant |-> e.tenant, plan |-> plan]

Bind(e) == Outcome("bind", e, e.plan)
SetPlan(e) == Outcome("set-plan", e, e.plan)
Downgrade(e) == Outcome("set-plan", e, "free")
Suspend(e) == Outcome("suspend", e, None)
Ignore(e) == Outcome("ignore", e, None)

PayPalTypes == {"ACTIVATED", "UPDATED", "RE-ACTIVATED", "CANCELLED", "EXPIRED",
                "SUSPENDED", "PAYMENT.FAILED", "CREATED"}

planFromPayPalEvent(e) ==
  CASE e.type \in {"ACTIVATED", "UPDATED", "RE-ACTIVATED"} ->
         (CASE e.status \in {"CANCELLED", "EXPIRED"} -> Downgrade(e)
            [] e.status = "SUSPENDED" -> Suspend(e)
            [] e.status = "ACTIVE" /\ e.tenant # None -> Bind(e)
            [] e.status = "ACTIVE" /\ e.tenant = None -> SetPlan(e)
            [] OTHER -> Ignore(e))
    [] e.type \in {"CANCELLED", "EXPIRED"} -> Downgrade(e)
    [] e.type \in {"SUSPENDED", "PAYMENT.FAILED"} -> Suspend(e)
    [] OTHER -> Ignore(e)

StripeTypes == {"checkout.session.completed", "customer.subscription.created",
                "customer.subscription.updated", "customer.subscription.deleted",
                "invoice.payment_failed"}

planFromStripeEvent(e) ==
  CASE e.type = "checkout.session.completed" -> IF e.tenant = None THEN Ignore(e) ELSE Bind(e)
    [] e.type \in {"customer.subscription.created", "customer.subscription.updated"} ->
         IF e.status \in {"canceled", "unpaid", "incomplete_expired"}
         THEN Downgrade(e) ELSE SetPlan(e)
    [] e.type = "customer.subscription.deleted" -> Downgrade(e)
    [] e.type = "invoice.payment_failed" -> Suspend(e)
    [] OTHER -> Ignore(e)

planFromPaystackEvent(e) ==
  CASE e.type = "charge.success" ->
         IF e.status \notin {None, "success"} \/ e.tenant = None THEN Ignore(e) ELSE Bind(e)
    [] e.type = "subscription.create" -> SetPlan(e)
    [] e.type = "subscription.disable" -> Downgrade(e)
    [] e.type = "invoice.payment_failed" -> Suspend(e)
    [] OTHER -> Ignore(e)

OutcomeOf(provider, e) ==
  CASE provider = "paypal" -> planFromPayPalEvent(e)
    [] provider = "stripe" -> planFromStripeEvent(e)
    [] provider = "paystack" -> planFromPaystackEvent(e)

-----------------------------------------------------------------------------
(* The providers (external): the events of a customer c, who pays for plan p *)
(* of tenant t.                                                             *)

Started(provider, c, t, p) ==
  CASE provider = "paypal" -> {Event("CREATED", "APPROVAL_PENDING", c, t, p),
                               Event("ACTIVATED", "ACTIVE", c, t, p)}
    [] provider = "stripe" -> {Event("checkout.session.completed", None, c, t, p),
                               Event("customer.subscription.created", "active", c, None, p)}
    [] provider = "paystack" -> {Event("charge.success", "success", c, t, p),
                                 Event("subscription.create", None, c, None, p)}

Changed(provider, c, t, p) ==
  CASE provider = "paypal" -> {Event("UPDATED", "ACTIVE", c, t, p)}
    [] provider = "stripe" -> {Event("customer.subscription.updated", "active", c, None, p)}
    [] provider = "paystack" -> {Event("charge.success", "success", c, t, p)}

Failed(provider, c) ==
  CASE provider = "paypal" -> {Event("PAYMENT.FAILED", "SUSPENDED", c, None, None)}
    [] OTHER -> {Event("invoice.payment_failed", None, c, None, None)}

Ended(provider, c, p) ==
  CASE provider = "paypal" -> {Event("CANCELLED", "CANCELLED", c, None, p)}
    [] provider = "stripe" -> {Event("customer.subscription.deleted", "canceled", c, None, p)}
    [] provider = "paystack" -> {Event("subscription.disable", None, c, None, p)}
===============================================================================
