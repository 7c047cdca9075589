-------------------------------- MODULE Commerce --------------------------------
(***************************************************************************)
(* Tenants of capkit, what they may use and what they pay for: tenancy.ts,  *)
(* the limiter of rate-limit.ts, the plans of billing.ts, and the middle-   *)
(* ware, webhooks and admin routes of server.ts.                            *)
(*                                                                         *)
(* A request is two steps: resolveTenant() reads the row and the limiter    *)
(* lets it pass; then the guard awaits whether its token is revoked, and    *)
(* enforceQuota() goes by the row that was read.  A webhook is one step     *)
(* after its signature is checked.  Providers deliver late, again and in    *)
(* any order, or not at all.                                                *)
(*                                                                         *)
(* One metric stands for each of the four.  API keys, callers without one,  *)
(* the throttle of /signup and the audit log are left out.                  *)
(***************************************************************************)
EXTENDS Integers, FiniteSets, Billing

CONSTANTS Tenants, Customers,
          Plans,       \* plan -> [limit, rate]: per month, per minute; -1: none
          Providers,   \* what a deployment may have configured, none for nothing
          Busy,        \* bound: in which of these deployments requests are made
          References,  \* what an administrator may bind a tenant to
          Slots,       \* requests that can wait for the guard at a time
          Callers,     \* the tenants whose requests are modelled
          Minute,      \* how many steps of the clock a minute is
          MaxTime,     \* bound: how far the clock goes
          MaxSteps,    \* bound: how often something happens to a subscription
          MaxFaults    \* bound: how many crashes

PlanIds == DOMAIN Plans

ASSUME PlansAssumption == /\ Plans \in [PlanIds -> [limit : Int, rate : Int \ {0}]]
                          /\ "free" \in PlanIds
ASSUME SidesAssumption == /\ Providers \subseteq {None, "paypal", "stripe", "paystack"}
                          /\ Busy \subseteq Providers
                          /\ References \subseteq Customers
                          /\ Callers \subseteq Tenants
                          /\ Customers \cap {None, "signup", "admin"} = {}
ASSUME CommerceBounds == /\ {MaxTime, MaxSteps, MaxFaults} \subseteq Nat
                         /\ Minute \in Nat \ {0}

VARIABLES
  provider,  \* the payment provider that is configured
  tenants,   \* table tenants: tenant -> [plan, status, ref]
  used,      \* table usage: what the tenant used in this period
  buckets,   \* TenantRateLimiter.buckets
  waiting,   \* slot -> the request that waits in the guard
  now,       \* the clock
  sent,      \* every event a provider has sent: it may deliver any, again
  heard,     \* customer -> the newest event that reached its tenant and was
             \* answered, and whether an older was applied after it (not stored)
  steps,     \* how often something happened to a subscription
  faults,    \* how many crashes
  held,      \* tenant -> plans a request of this period may go by (not stored)
  origin,    \* tenant -> who set its plan last (not stored)
  passed     \* tenant -> [since, count]: what its bucket let pass (not stored)

money == <<sent, steps>>
notes == <<origin, heard>>
traffic == <<used, buckets, waiting, held, passed>>
vars == <<provider, tenants, traffic, now, money, faults, notes>>

Rows == DOMAIN tenants

Row(plan, status, ref) == [plan |-> plan, status |-> status, ref |-> ref]

NoRequest == [tenant |-> None, row |-> Row("free", "active", None)]

Put(f, x, y) == [z \in DOMAIN f \cup {x} |-> IF z = x THEN y ELSE f[z]]

Init ==
  /\ provider \in Providers
  /\ tenants = << >> /\ used = << >> /\ buckets = << >>
  /\ waiting = [s \in Slots |-> NoRequest]
  /\ now = 0 /\ sent = {} /\ steps = 0 /\ faults = 0
  /\ held = << >> /\ origin = << >> /\ heard = << >> /\ passed = << >>

-----------------------------------------------------------------------------
(* Tenants.                                                                *)

\* TenantStore.create(): the row, and in the limiter and the meters nothing.
Create(t, plan, ref, who) ==
  /\ t \notin Rows
  /\ tenants' = Put(tenants, t, Row(plan, "active", ref))
  /\ used' = Put(used, t, 0)
  /\ held' = Put(held, t, {plan})
  /\ origin' = Put(origin, t, who)
  /\ UNCHANGED <<provider, buckets, waiting, passed, now, money, heard, faults>>

\* POST /signup, on the plan everybody starts with.
Signup(t) == Create(t, "free", "signup", "signup")

\* POST /admin/tenants, which takes any reference there is.
AdminCreate(t, plan, ref) == Create(t, plan, ref, "admin")

\* The row of t with another plan, or another status.
WithPlan(t, plan) ==
  /\ tenants' = Put(tenants, t, Row(plan, tenants[t].status, tenants[t].ref))
  /\ held' = Put(held, t, held[t] \cup {plan})

WithStatus(t, status) ==
  tenants' = Put(tenants, t, Row(tenants[t].plan, status, tenants[t].ref))

\* POST /admin/tenants/:id/plan and /status
AdminPlan(t, plan) ==
  /\ WithPlan(t, plan)
  /\ origin' = Put(origin, t, "admin")
  /\ UNCHANGED <<provider, used, buckets, waiting, passed, now, money, heard, faults>>

AdminStatus(t, status) ==
  /\ WithStatus(t, status)
  /\ UNCHANGED <<provider, traffic, now, money, faults, notes>>

-----------------------------------------------------------------------------
(* Webhooks.                                                               *)

\* Mutant of Holders: who has no customer yet is taken for anybody's.
HoldersAndNew(ref) == {t \in Rows : tenants[t].ref \in {ref, "signup"}}

\* byExternalRef()
Holders(ref) == {t \in Rows : tenants[t].ref = ref}

\* The column holds a payment reference, not what /signup leaves there.
Occupied(t) == tenants[t].ref \notin {None, "signup"}

\* Mutant of Bindable: a customer may have two tenants.
BindableTwice(t, c) == t \in Rows /\ (Occupied(t) => tenants[t].ref = c)

\* bindExternalRef() does not refuse.  (byExternalRef() finds one of several.)
Bindable(t, c) ==
  /\ t \in Rows
  /\ Occupied(t) => tenants[t].ref = c
  /\ Holders(c) = {} \/ t \in Holders(c)

\* A plan event m that reached the customer's tenant was answered.
Heard(m) ==
  LET c == m.event.customer
      late == c \in DOMAIN heard /\ heard[c].step > m.step
      newest == IF late THEN heard[c] ELSE m
  IN heard' = Put(heard, c, [step |-> newest.step, paid |-> newest.paid, late |-> late])

\* Mutant of DeliverBind: the plan first, and then the binding.
DeliverBindAfter(o, m) ==
  /\ Bindable(o.tenant, o.customer)
  /\ held' = Put(held, o.tenant, held[o.tenant] \cup {o.plan})
  /\ origin' = Put(origin, o.tenant, o.customer)
  /\ LET row == tenants[o.tenant]
     IN \/ /\ tenants' = Put(tenants, o.tenant, Row(o.plan, row.status, o.customer))
           /\ Heard(m)
           /\ UNCHANGED faults
        \/ /\ faults < MaxFaults /\ faults' = faults + 1
           /\ tenants' = Put(tenants, o.tenant, Row(o.plan, row.status, row.ref))
           /\ UNCHANGED heard

\* Bound, and then the plan: no transaction, so the process may stop between.
DeliverBind(o, m) ==
  /\ Bindable(o.tenant, o.customer)
  /\ LET row == tenants[o.tenant]
     IN \/ /\ tenants' = Put(tenants, o.tenant, Row(o.plan, row.status, o.customer))
           /\ held' = Put(held, o.tenant, held[o.tenant] \cup {o.plan})
           /\ origin' = Put(origin, o.tenant, o.customer)
           /\ Heard(m)
           /\ UNCHANGED faults
        \/ /\ faults < MaxFaults /\ faults' = faults + 1
           /\ tenants' = Put(tenants, o.tenant, Row(row.plan, row.status, o.customer))
           /\ UNCHANGED <<held, notes>>

\* The tenant is found by its customer; with several, the table names one.
DeliverSetPlan(o, m) ==
  \E t \in Holders(o.customer) :
    /\ WithPlan(t, o.plan)
    /\ origin' = Put(origin, t, o.customer)
    /\ Heard(m)
    /\ UNCHANGED faults

DeliverSuspend(o) ==
  \E t \in Holders(o.customer) :
    /\ WithStatus(t, "suspended")
    /\ UNCHANGED <<held, notes, faults>>

\* POST /billing/webhook, /billing/paypal/webhook and /billing/paystack/webhook;
\* what is ignored or refused is answered and changes nothing.
Deliver(m) ==
  LET o == OutcomeOf(provider, m.event)
  IN /\ \/ o.action = "bind" /\ DeliverBind(o, m)
        \/ o.action = "set-plan" /\ DeliverSetPlan(o, m)
        \/ o.action = "suspend" /\ DeliverSuspend(o)
     /\ UNCHANGED <<provider, used, buckets, waiting, passed, now, money>>

\* The provider (external): what a customer does, and the events of it, each with
\* the place it has among all and the plan that is paid for from then on.
Send(events, plan) ==
  /\ provider # None /\ steps < MaxSteps
  /\ steps' = steps + 1
  /\ sent' = sent \cup {[event |-> e, step |-> steps, paid |-> plan] : e \in events}
  /\ UNCHANGED <<provider, tenants, traffic, now, faults, notes>>

Subscriptions(c) == {e \in {m.event : m \in sent} : e.customer = c /\ e.tenant # None}

\* A customer opens one subscription, for the tenant the checkout names.
Subscribe(c, t, plan) == /\ t \in Rows /\ Subscriptions(c) = {}
                         /\ Send(Started(provider, c, t, plan), plan)

ChangePlan(c, plan) ==
  \E e \in Subscriptions(c) : Send(Changed(provider, c, e.tenant, plan), plan)

Fail(c) == Subscriptions(c) # {} /\ Send(Failed(provider, c), None)

End(c) == \E e \in Subscriptions(c) : Send(Ended(provider, c, e.plan), "free")

-----------------------------------------------------------------------------
(* Requests.                                                               *)

\* TokenBucket, its tokens in parts: a minute of steps makes one.
Bucket(limit, tokens, at) == [limit |-> limit, tokens |-> tokens, at |-> at]

Least(a, b) == IF a < b THEN a ELSE b

\* Mutant of Refill: the time of the last refill is not kept.
RefillAgain(b) ==
  Bucket(b.limit, Least(b.limit * Minute, b.tokens + (now - b.at) * b.limit), b.at)

Refill(b) ==
  Bucket(b.limit, Least(b.limit * Minute, b.tokens + (now - b.at) * b.limit), now)

\* The bucket of t; a plan with another rate starts a full one.
Known(t, rate) == t \in DOMAIN buckets /\ buckets[t].limit = rate
BucketOf(t, rate) ==
  IF Known(t, rate) THEN Refill(buckets[t]) ELSE Bucket(rate, rate * Minute, now)

\* Mutant of Limited: a part of a token lets a request pass.
LimitedLate(t, rate) == rate > 0 /\ BucketOf(t, rate).tokens = 0

\* TenantRateLimiter.consume(): refused or not, the bucket is refilled.
Limited(t, rate) == rate > 0 /\ BucketOf(t, rate).tokens < Minute

Consume(t, rate) ==
  IF rate < 0 THEN UNCHANGED <<buckets, passed>>
  ELSE LET b == BucketOf(t, rate)
           took == IF Limited(t, rate) THEN 0 ELSE 1
           life == IF Known(t, rate) THEN passed[t] ELSE [since |-> now, count |-> 0]
       IN /\ buckets' = Put(buckets, t, Bucket(b.limit, b.tokens - took * Minute, b.at))
          /\ passed' = Put(passed, t, [since |-> life.since, count |-> life.count + took])

\* resolveTenant() and enforceRateLimit(): 429, or on to the guard.
Arrive(s, t) ==
  LET row == tenants[t]
      rate == Plans[row.plan].rate
  IN /\ waiting[s] = NoRequest
     /\ Consume(t, rate)
     /\ waiting' = [waiting EXCEPT ![s] =
                      IF Limited(t, rate) THEN NoRequest ELSE [tenant |-> t, row |-> row]]
     /\ UNCHANGED <<provider, tenants, used, held, now, money, faults, notes>>

\* checkQuota()
Allowed(plan, n) == Plans[plan].limit < 0 \/ n < Plans[plan].limit

\* Mutant of MayUse: what was checked is one less than what is used.
MayUseLast(r) == r.row.status = "active" /\ (Allowed(r.row.plan, used[r.tenant] - 1))

\* authorise(): by the row that was read when the request arrived.
MayUse(r) == r.row.status = "active" /\ Allowed(r.row.plan, used[r.tenant])

Finished(s) ==
  /\ waiting[s] # NoRequest
  /\ waiting' = [waiting EXCEPT ![s] = NoRequest]
  /\ UNCHANGED <<provider, tenants, buckets, held, passed, now, money, faults, notes>>

\* enforceQuota(): counted and served, in one step.
Serve(s) ==
  /\ Finished(s)
  /\ MayUse(waiting[s])
  /\ used' = [used EXCEPT ![waiting[s].tenant] = used[waiting[s].tenant] + 1]

\* 402 or 403, or the guard refuses the token.
Refuse(s) == Finished(s) /\ UNCHANGED used

-----------------------------------------------------------------------------
Tick == /\ now < MaxTime
        /\ now' = now + 1
        /\ UNCHANGED <<provider, tenants, traffic, money, faults, notes>>

\* currentPeriod() is another month: usage is counted from zero.
Waits(t) == {waiting[s].row.plan : s \in {r \in Slots : waiting[r].tenant = t}}

NewPeriod ==
  /\ used' = [t \in Rows |-> 0]
  /\ held' = [t \in Rows |-> {tenants[t].plan} \cup Waits(t)]
  /\ UNCHANGED <<provider, tenants, buckets, waiting, passed, now, money, faults, notes>>

\* The process stops and starts: its buckets and what waited are gone.
Restart ==
  /\ faults < MaxFaults /\ faults' = faults + 1
  /\ buckets' = << >> /\ passed' = << >>
  /\ waiting' = [s \in Slots |-> NoRequest]
  /\ UNCHANGED <<provider, tenants, used, held, now, money, notes>>

Next ==
  \/ \E t \in Tenants : \/ Signup(t)
                        \/ \E p \in PlanIds, r \in References \cup {None} : AdminCreate(t, p, r)
  \/ \E t \in Rows : \/ \E p \in PlanIds : AdminPlan(t, p)
                     \/ \E s \in {"active", "suspended"} : AdminStatus(t, s)
  \/ \E m \in sent : Deliver(m)
  \/ \E c \in Customers : \/ \E t \in Rows, p \in PlanIds : Subscribe(c, t, p)
                          \/ \E p \in PlanIds : ChangePlan(c, p)
                          \/ Fail(c) \/ End(c)
  \/ /\ provider \in Busy
     /\ \/ \E s \in Slots : \/ \E t \in Callers \cap Rows : Arrive(s, t)
                            \/ Serve(s) \/ Refuse(s)
        \/ Tick \/ NewPeriod \/ Restart

Spec == Init /\ [][Next]_vars

-----------------------------------------------------------------------------
(* Properties.                                                             *)

References_ == Customers \cup {None, "signup"}

RowType(row) == /\ row.plan \in PlanIds
                /\ row.status \in {"active", "suspended"}
                /\ row.ref \in References_

\* Tables, buckets and requests have their types, and no bucket holds more
\* than its limit or less than nothing.
TypeOK ==
  /\ provider \in Providers
  /\ Rows \subseteq Tenants /\ \A t \in Rows : RowType(tenants[t])
  /\ DOMAIN used = Rows /\ \A t \in Rows : used[t] \in Nat
  /\ DOMAIN held = Rows /\ \A t \in Rows : held[t] \subseteq PlanIds
  /\ DOMAIN origin = Rows
  /\ \A t \in Rows : origin[t] \in Customers \cup {"signup", "admin"}
  /\ DOMAIN heard \subseteq Customers
  /\ DOMAIN buckets \subseteq Rows /\ DOMAIN passed = DOMAIN buckets
  /\ \A t \in DOMAIN buckets :
       /\ buckets[t].limit \in Nat \ {0}
       /\ buckets[t].tokens \in 0..(buckets[t].limit * Minute)
       /\ buckets[t].at \in 0..now
       /\ passed[t].since \in 0..now /\ passed[t].count \in Nat
  /\ DOMAIN waiting = Slots
  /\ \A s \in Slots : waiting[s].tenant \in Rows \cup {None} /\ RowType(waiting[s].row)
  /\ now \in 0..MaxTime /\ steps \in 0..MaxSteps /\ faults \in 0..MaxFaults

\* However many requests wait at a time, and whatever happens to the plan in
\* the meantime, a tenant never uses more in a month than the largest of the
\* plans it held in it allows (enforceQuota, resolveTenant).
QuotaHolds ==
  \A t \in Rows : \E p \in held[t] : Plans[p].limit < 0 \/ used[t] <= Plans[p].limit

\* A bucket never lets more pass than it held at first and what time has added
\* since (TokenBucket, consume).
RateHolds ==
  \A t \in DOMAIN buckets :
    Minute * passed[t].count <= buckets[t].limit * (Minute + now - passed[t].since)

\* No event of a customer sets the plan of a tenant that is not its own.  And once
\* one of a customer's events has reached its tenant and been answered, the tenant
\* has the plan that is paid for as of the newest event that did, whatever was
\* lost, repeated or cut off by a crash: unless an administrator has set another
\* plan, or has given the customer a second tenant, or an older event was applied
\* after the newest, which the code cannot tell from a new one (bindExternalRef,
\* byExternalRef, planFromStripeEvent, planFromPayPalEvent, planFromPaystackEvent).
PlanOfItsCustomer ==
  \A t \in Rows, c \in Customers :
    /\ origin[t] = c => tenants[t].ref = c
    /\ (c \in DOMAIN heard /\ Holders(c) = {t} /\ origin[t] # "admin")
         => heard[c].late \/ tenants[t].plan = heard[c].paid

\* A tenant that belongs to a customer belongs to it for good, and no event
\* gives a customer a second tenant (bindExternalRef).
BindingsHold ==
  [][/\ \A t \in Rows : Occupied(t) => tenants'[t].ref = tenants[t].ref
     /\ \A t, u \in Rows : (t # u /\ tenants'[t].ref = tenants'[u].ref /\ Occupied(t)')
                             => tenants[t].ref = tenants[u].ref]_vars
===============================================================================
