----------------------------- MODULE CommerceProofs -----------------------------
(***************************************************************************)
(* Proofs about Commerce, for any number of tenants, customers, plans and   *)
(* requests that wait at a time.                                            *)
(*                                                                          *)
(* A request is served by a row that may be stale: QuotaHolds is carried by *)
(* the plan of whoever waits being among those its tenant held in this      *)
(* period (WaitInv, HeldInv).  RateHolds is carried by the tokens that are  *)
(* left: what passed and what is left are together no more than what the    *)
(* bucket held at first and what time has added (TokensInv).  And a plan is *)
(* what its customer pays for because that is what its events make of it    *)
(* (SentInv), because an event reaches a tenant by what it was bound to, and *)
(* because whom one event has reached every later one does (HeardInv).      *)
(***************************************************************************)
EXTENDS Commerce, TLAPS

WaitInv == \A s \in Slots : \/ waiting[s] = NoRequest
                            \/ /\ waiting[s].tenant \in Rows
                               /\ waiting[s].row.plan \in held[waiting[s].tenant]

HeldInv == \A t \in Rows : tenants[t].plan \in held[t]

TokensInv ==
  \A t \in DOMAIN buckets :
    Minute * passed[t].count + buckets[t].tokens
      <= buckets[t].limit * (Minute + (buckets[t].at - passed[t].since))

\* What an event makes of a plan is what is paid for from then on.
SentInv ==
  /\ provider = None => sent = {}
  /\ \A m \in sent :
       /\ m.event.customer \in Customers
       /\ m.event.tenant # None => m.event.plan \in PlanIds
       /\ LET o == OutcomeOf(provider, m.event)
          IN /\ o.customer = m.event.customer
             /\ o.action \in {"bind", "set-plan"} => o.plan = m.paid /\ m.paid \in PlanIds

HeardInv == \A c \in DOMAIN heard : Holders(c) # {}

MoneyInv == SentInv /\ HeardInv /\ PlanOfItsCustomer

IInv == TypeOK /\ WaitInv /\ HeldInv /\ QuotaHolds /\ TokensInv /\ MoneyInv

-----------------------------------------------------------------------------
(* Numbers and plans.                                                      *)

LEMMA NumbersAre == TypeOK => /\ now \in Nat /\ faults \in Nat /\ Minute \in Nat \ {0}
                              /\ MaxTime \in Nat /\ MaxSteps \in Nat /\ MaxFaults \in Nat
BY CommerceBounds DEF TypeOK

LEMMA PlansAre == \A p \in PlanIds : Plans[p].limit \in Int /\ Plans[p].rate \in Int \ {0}
BY PlansAssumption

LEMMA NamesAre == /\ None \notin Customers /\ "signup" \notin Customers /\ "admin" \notin Customers
                  /\ None # "signup" /\ "free" \in PlanIds
BY SidesAssumption, PlansAssumption DEF None

\* What time adds to a bucket of a limit is no less than nothing.
LEMMA GrowsOK == \A l, d \in Nat : l * d \in Nat
OBVIOUS

LEMMA SplitOK == \A l, a, b \in Int : l * a + l * b = l * (a + b)
OBVIOUS

LEMMA StretchOK == \A l \in Nat : \A a, b \in Int : a <= b => l * a <= l * b
OBVIOUS

\* A bucket that held its inequality holds it when it is refilled.
LEMMA RefillOK ==
  ASSUME NEW b \in [limit : Nat \ {0}, tokens : Nat, at : Nat], NEW since \in Nat, NEW count \in Nat,
         now \in Nat, Minute \in Nat \ {0}, b.at <= now, b.tokens <= b.limit * Minute,
         Minute * count + b.tokens <= b.limit * (Minute + (b.at - since))
  PROVE  /\ Refill(b).limit = b.limit /\ Refill(b).at = now
         /\ Refill(b).tokens \in 0..(b.limit * Minute)
         /\ Minute * count + Refill(b).tokens <= b.limit * (Minute + (now - since))
<1>. DEFINE grown == b.tokens + (now - b.at) * b.limit
<1>1. Refill(b).limit = b.limit /\ Refill(b).at = now /\ Refill(b).tokens = Least(b.limit * Minute, grown)
  BY DEF Refill, Bucket
<1>2. now - b.at \in Nat /\ b.limit \in Nat /\ b.at \in Int
  OBVIOUS
<1>3. (now - b.at) * b.limit \in Nat /\ b.limit * Minute \in Nat
  BY <1>2, GrowsOK
<1>4. (now - b.at) * b.limit = b.limit * (now - b.at)
  BY <1>2
<1>5. b.limit * (Minute + (b.at - since)) + b.limit * (now - b.at) = b.limit * (Minute + (now - since))
  <2>1. Minute + (b.at - since) \in Int /\ now - b.at \in Int
    BY <1>2
  <2>2. (Minute + (b.at - since)) + (now - b.at) = Minute + (now - since)
    BY <1>2
  <2>. QED  BY <1>2, <2>1, <2>2, SplitOK
<1>6. grown \in Nat
  BY <1>3
<1>7. Least(b.limit * Minute, grown) \in 0..(b.limit * Minute) /\ Least(b.limit * Minute, grown) <= grown
  BY <1>3, <1>6 DEF Least
<1>8. Minute * count \in Int /\ b.limit * (Minute + (b.at - since)) \in Int /\ b.limit * (now - b.at) \in Int
  BY <1>2
<1>9. Minute * count + grown <= b.limit * (Minute + (now - since))
  BY <1>3, <1>4, <1>5, <1>8
<1>10. b.limit * (Minute + (now - since)) \in Int
  BY <1>2
<1>. QED  BY <1>1, <1>3, <1>6, <1>7, <1>8, <1>9, <1>10

-----------------------------------------------------------------------------
(* Steps that touch a tenant.                                              *)

\* Where no event is sent or reaches a tenant, and no row changes.
LEMMA MoneySame ==
  ASSUME MoneyInv, UNCHANGED <<provider, tenants, origin, heard, sent>>
  PROVE  MoneyInv'
<1>1. Rows' = Rows /\ \A c : Holders(c)' = Holders(c)
  BY DEF Rows, Holders
<1>2. SentInv'
  BY DEF MoneyInv, SentInv
<1>. QED  BY <1>1, <1>2 DEF MoneyInv, HeardInv, PlanOfItsCustomer

\* One column of one row changes, to x.
Changes(g, f, t, x) ==
  DOMAIN g = DOMAIN f /\ g[t] = x /\ \A u \in DOMAIN f \ {t} : g[u] = f[u]

LEMMA ChangesOK == \A f, x : \A t \in DOMAIN f : Changes(Put(f, t, x), f, t, x) /\ Changes(f, f, t, f[t])
BY DEF Changes, Put

\* A tenant's row changes, and perhaps one event of its customer was answered:
\* the new plan is one it holds, its customer stays, and the plan is what the
\* newest event says, or an administrator's.
LEMMA RowOK ==
  ASSUME IInv, NEW t \in Rows, NEW row, RowType(row), NEW plans \in SUBSET PlanIds, NEW who,
         tenants' = Put(tenants, t, row),
         Changes(held', held, t, plans), held[t] \subseteq plans, row.plan \in plans,
         Changes(origin', origin, t, who), who \in Customers \cup {"signup", "admin"},
         who \in Customers => row.ref = who,
         \A c \in Customers : tenants[t].ref = c => row.ref = c,
         DOMAIN heard' \subseteq DOMAIN heard \cup ({row.ref} \cap Customers),
         \A c \in DOMAIN heard : c # row.ref => heard'[c] = heard[c],
         row.ref \in DOMAIN heard' /\ Holders(row.ref) \subseteq {t} /\ who # "admin"
           => heard'[row.ref].late \/ row.plan = heard'[row.ref].paid,
         faults' \in 0..MaxFaults,
         UNCHANGED <<provider, used, buckets, waiting, passed, now, money>>
  PROVE  IInv'
<1>. USE DEF IInv
<1>1. /\ Rows' = Rows /\ DOMAIN held' = DOMAIN held /\ DOMAIN origin' = DOMAIN origin
      /\ tenants'[t] = row /\ held'[t] = plans /\ origin'[t] = who
      /\ \A u \in Rows \ {t} : /\ tenants'[u] = tenants[u] /\ held'[u] = held[u]
                               /\ origin'[u] = origin[u]
  BY DEF Put, Rows, TypeOK, Changes
<1>2. UNCHANGED <<provider, used, buckets, waiting, passed, now, sent, steps>>
  BY DEF money
<1>3. TypeOK'
  <2>1. Rows' \subseteq Tenants /\ (\A u \in Rows' : RowType(tenants'[u]))
    BY <1>1 DEF TypeOK
  <2>2. \A u \in Rows' : held'[u] \subseteq PlanIds /\ origin'[u] \in Customers \cup {"signup", "admin"}
    BY <1>1 DEF TypeOK
  <2>3. DOMAIN heard' \subseteq Customers
    BY DEF TypeOK
  <2>. QED  BY <1>1, <1>2, <2>1, <2>2, <2>3 DEF TypeOK, RowType
<1>4. WaitInv'
  BY <1>1, <1>2 DEF WaitInv, NoRequest
<1>5. HeldInv'
  BY <1>1 DEF HeldInv
<1>6. QuotaHolds'
  BY <1>1, <1>2 DEF QuotaHolds
<1>7. TokensInv'
  BY <1>2 DEF TokensInv
<1>8. SentInv'
  BY <1>2 DEF MoneyInv, SentInv
<1>9. /\ t \in Holders(row.ref)'
      /\ \A c : c # row.ref /\ c \in Customers => Holders(c)' = Holders(c)
      /\ Holders(row.ref) \subseteq Holders(row.ref)'
  BY <1>1 DEF Holders
<1>10. HeardInv'
  <2>. SUFFICES ASSUME NEW c \in DOMAIN heard' PROVE Holders(c)' # {}
    BY DEF HeardInv
  <2>. QED  BY <1>9 DEF MoneyInv, HeardInv, TypeOK
<1>11. ASSUME NEW u \in Rows, NEW c \in Customers PROVE origin'[u] = c => tenants'[u].ref = c
  BY <1>1 DEF MoneyInv, PlanOfItsCustomer
<1>12. ASSUME NEW u \in Rows, NEW c \in Customers,
              c \in DOMAIN heard', Holders(c)' = {u}, origin'[u] # "admin"
       PROVE  heard'[c].late \/ tenants'[u].plan = heard'[c].paid
  <2>1. CASE c = row.ref
    <3>1. u = t /\ Holders(row.ref) \subseteq {t}
      BY <1>9, <1>12, <2>1
    <3>. QED  BY <1>1, <1>12, <2>1, <3>1
  <2>2. CASE c # row.ref
    <3>1. Holders(c) = {u} /\ c \in DOMAIN heard /\ heard'[c] = heard[c]
      BY <1>9, <1>12, <2>2
    <3>2. u # t
      BY <1>1, <2>2, <3>1 DEF Holders
    <3>. QED  BY <1>1, <1>12, <3>1, <3>2 DEF MoneyInv, PlanOfItsCustomer
  <2>. QED  BY <2>1, <2>2
<1>13. PlanOfItsCustomer'
  BY <1>1, <1>11, <1>12 DEF PlanOfItsCustomer
<1>. QED  BY <1>3, <1>4, <1>5, <1>6, <1>7, <1>8, <1>10, <1>13 DEF MoneyInv

\* A tenant is created.
LEMMA CreateOK ==
  ASSUME IInv, NEW t \in Tenants, NEW plan \in PlanIds, NEW ref \in References_,
         NEW who \in {"signup", "admin"}, Create(t, plan, ref, who)
  PROVE  IInv'
<1>. USE DEF IInv
<1>1. /\ t \notin Rows
      /\ tenants' = Put(tenants, t, Row(plan, "active", ref))
      /\ used' = Put(used, t, 0)
      /\ held' = Put(held, t, {plan})
      /\ origin' = Put(origin, t, who)
      /\ UNCHANGED <<provider, buckets, waiting, passed, now, sent, steps, heard, faults>>
  BY DEF Create, money
<1>2. /\ Rows' = Rows \cup {t} /\ DOMAIN used' = Rows' /\ DOMAIN held' = Rows' /\ DOMAIN origin' = Rows'
      /\ tenants'[t] = Row(plan, "active", ref) /\ used'[t] = 0 /\ held'[t] = {plan} /\ origin'[t] = who
      /\ \A u \in Rows : /\ tenants'[u] = tenants[u] /\ held'[u] = held[u]
                         /\ used'[u] = used[u] /\ origin'[u] = origin[u]
  BY <1>1 DEF Put, Rows, TypeOK
<1>3. RowType(tenants'[t])
  BY <1>2 DEF RowType, Row
<1>4. TypeOK'
  <2>1. Rows' \subseteq Tenants /\ (\A u \in Rows' : RowType(tenants'[u]))
    BY <1>2, <1>3 DEF TypeOK
  <2>2. \A u \in Rows' : /\ held'[u] \subseteq PlanIds /\ used'[u] \in Nat
                         /\ origin'[u] \in Customers \cup {"signup", "admin"}
    BY <1>2 DEF TypeOK
  <2>. QED  BY <1>1, <1>2, <2>1, <2>2 DEF TypeOK, RowType
<1>5. WaitInv'
  BY <1>1, <1>2 DEF WaitInv, NoRequest
<1>6. HeldInv'
  BY <1>2 DEF HeldInv, Row
<1>7. QuotaHolds'
  BY <1>2, PlansAre DEF QuotaHolds
<1>8. TokensInv' /\ SentInv'
  BY <1>1 DEF TokensInv, SentInv, MoneyInv
<1>9. \A c : Holders(c)' = IF ref = c THEN Holders(c) \cup {t} ELSE Holders(c)
  BY <1>2 DEF Holders, Row
<1>10. HeardInv'
  BY <1>1, <1>9 DEF HeardInv, MoneyInv
<1>11. PlanOfItsCustomer'
  <2>1. ASSUME NEW u \in Rows', NEW c \in Customers PROVE origin'[u] = c => tenants'[u].ref = c
    BY <1>2, NamesAre DEF PlanOfItsCustomer, MoneyInv
  <2>2. ASSUME NEW u \in Rows', NEW c \in Customers,
               c \in DOMAIN heard', Holders(c)' = {u}, origin'[u] # "admin"
        PROVE  heard'[c].late \/ tenants'[u].plan = heard'[c].paid
    <3>1. Holders(c) # {} /\ Holders(c) \subseteq Rows /\ heard' = heard
      BY <1>1, <2>2 DEF HeardInv, MoneyInv, Holders
    <3>2. Holders(c) = {u} /\ u \in Rows
      BY <1>1, <1>9, <2>2, <3>1
    <3>. QED  BY <1>2, <2>2, <3>1, <3>2 DEF PlanOfItsCustomer, MoneyInv
  <2>. QED  BY <2>1, <2>2 DEF PlanOfItsCustomer
<1>. QED  BY <1>4, <1>5, <1>6, <1>7, <1>8, <1>10, <1>11 DEF MoneyInv

\* An event that reached its tenant is the newest, or an older one came late.
LEMMA HeardOK ==
  ASSUME NEW m, Heard(m), NEW c, c = m.event.customer
  PROVE  /\ DOMAIN heard' = DOMAIN heard \cup {c}
         /\ \A d \in DOMAIN heard : d # c => heard'[d] = heard[d]
         /\ heard'[c].late \/ heard'[c].paid = m.paid
<1>. DEFINE late == c \in DOMAIN heard /\ heard[c].step > m.step
            newest == IF late THEN heard[c] ELSE m
            h == [step |-> newest.step, paid |-> newest.paid, late |-> late]
<1>1. heard' = Put(heard, c, h)
  BY DEF Heard
<1>2. h.late \/ h.paid = m.paid
  OBVIOUS
<1>. HIDE DEF h
<1>. QED  BY <1>1, <1>2 DEF Put

\* What an administrator or an event makes of a row, each time.
LEMMA TenantStepOK ==
  ASSUME IInv,
         \/ \E t \in Rows : \/ \E p \in PlanIds : AdminPlan(t, p)
                           \/ \E s \in {"active", "suspended"} : AdminStatus(t, s)
         \/ \E m \in sent : Deliver(m)
  PROVE  IInv'
<1>. USE DEF IInv
<1>t. \A t \in Rows : /\ RowType(tenants[t]) /\ tenants[t].plan \in held[t]
                     /\ held[t] \in SUBSET PlanIds
                     /\ origin[t] \in Customers \cup {"signup", "admin"}
                     /\ t \in DOMAIN held /\ t \in DOMAIN origin
  BY DEF TypeOK, HeldInv
<1>f. faults \in 0..MaxFaults
  BY DEF TypeOK
<1>p. \A t \in Rows, c \in Customers :
        /\ origin[t] = c => tenants[t].ref = c
        /\ (c \in DOMAIN heard /\ Holders(c) = {t} /\ origin[t] # "admin")
             => heard[c].late \/ tenants[t].plan = heard[c].paid
  BY DEF PlanOfItsCustomer, MoneyInv
<1>h. DOMAIN heard \subseteq Customers /\ \A c \in DOMAIN heard : Holders(c) # {}
  BY DEF TypeOK, MoneyInv, HeardInv
<1>1. ASSUME NEW t \in Rows, NEW p \in PlanIds, AdminPlan(t, p) PROVE IInv'
  <2>. DEFINE row == Row(p, tenants[t].status, tenants[t].ref)
              plans == held[t] \cup {p}
  <2>1. /\ RowType(row) /\ row.plan \in plans /\ plans \in SUBSET PlanIds /\ held[t] \subseteq plans
        /\ row.ref = tenants[t].ref
    BY <1>t DEF RowType, Row
  <2>2. /\ tenants' = Put(tenants, t, row)
        /\ Changes(held', held, t, plans) /\ Changes(origin', origin, t, "admin")
        /\ UNCHANGED <<provider, used, buckets, waiting, passed, now, money, heard, faults>>
    BY <1>1, <1>t, ChangesOK DEF AdminPlan, WithPlan
  <2>. HIDE DEF row, plans
  <2>. QED  BY <1>f, <2>1, <2>2, NamesAre, RowOK
<1>2. ASSUME NEW t \in Rows, NEW s \in {"active", "suspended"}, WithStatus(t, s),
             UNCHANGED <<provider, used, buckets, waiting, passed, now, money, held, origin, heard, faults>>
      PROVE IInv'
  <2>. DEFINE row == Row(tenants[t].plan, s, tenants[t].ref)
  <2>1. RowType(row) /\ row.plan = tenants[t].plan /\ row.ref = tenants[t].ref
    BY <1>t DEF RowType, Row
  <2>2. /\ tenants' = Put(tenants, t, row)
        /\ Changes(held', held, t, held[t]) /\ Changes(origin', origin, t, origin[t])
    BY <1>2, <1>t, ChangesOK DEF WithStatus
  <2>. HIDE DEF row
  <2>3. row.ref \in DOMAIN heard /\ Holders(row.ref) \subseteq {t} /\ origin[t] # "admin"
          => heard[row.ref].late \/ row.plan = heard[row.ref].paid
    <3>1. t \in Holders(row.ref)
      BY <2>1 DEF Holders
    <3>. QED  BY <1>p, <1>h, <2>1, <3>1
  <2>4. origin[t] \in Customers => row.ref = origin[t]
    BY <1>p, <2>1
  <2>. QED  BY <1>f, <1>t, <1>2, <2>1, <2>2, <2>3, <2>4, RowOK
<1>3. ASSUME NEW t \in Rows, NEW s \in {"active", "suspended"}, AdminStatus(t, s) PROVE IInv'
  BY <1>2, <1>3 DEF AdminStatus, traffic, notes
<1>4. ASSUME NEW m \in sent, Deliver(m) PROVE IInv'
  <2>. DEFINE o == OutcomeOf(provider, m.event)
  <2>1. /\ o.customer = m.event.customer /\ o.customer \in Customers
        /\ o.action \in {"bind", "set-plan"} => o.plan \in PlanIds /\ o.plan = m.paid
    BY DEF MoneyInv, SentInv
  <2>2. /\ \/ o.action = "bind" /\ DeliverBind(o, m)
           \/ o.action = "set-plan" /\ DeliverSetPlan(o, m)
           \/ o.action = "suspend" /\ DeliverSuspend(o)
        /\ UNCHANGED <<provider, used, buckets, waiting, passed, now, money>>
    BY <1>4 DEF Deliver
  <2>. HIDE DEF o
  <2>3. ASSUME NEW t \in Rows, o.action \in {"bind", "set-plan"}, Heard(m), UNCHANGED faults,
               Occupied(t) => tenants[t].ref = o.customer,
               tenants' = Put(tenants, t, Row(o.plan, tenants[t].status, o.customer)),
               held' = Put(held, t, held[t] \cup {o.plan}),
               origin' = Put(origin, t, o.customer)
        PROVE  IInv'
    <3>. DEFINE row == Row(o.plan, tenants[t].status, o.customer)
                plans == held[t] \cup {o.plan}
    <3>1. /\ RowType(row) /\ row.plan \in plans /\ plans \in SUBSET PlanIds /\ held[t] \subseteq plans
          /\ row.ref = o.customer /\ row.plan = m.paid
      BY <1>t, <2>1, <2>3 DEF RowType, Row, References_
    <3>2. /\ tenants' = Put(tenants, t, row)
          /\ Changes(held', held, t, plans) /\ Changes(origin', origin, t, o.customer)
      BY <2>3, <1>t, ChangesOK
    <3>. HIDE DEF row, plans
    <3>3. /\ DOMAIN heard' = DOMAIN heard \cup {row.ref}
          /\ \A d \in DOMAIN heard : d # row.ref => heard'[d] = heard[d]
          /\ heard'[row.ref].late \/ heard'[row.ref].paid = m.paid
      BY <2>1, <2>3, <3>1, HeardOK
    <3>4. \A c \in Customers : tenants[t].ref = c => row.ref = c
      BY <2>3, <3>1, NamesAre DEF Occupied
    <3>5. /\ DOMAIN heard' \subseteq DOMAIN heard \cup ({row.ref} \cap Customers)
          /\ heard'[row.ref].late \/ row.plan = heard'[row.ref].paid
          /\ faults' \in 0..MaxFaults
      BY <1>f, <2>1, <2>3, <3>1, <3>3
    <3>. QED  BY <2>1, <2>2, <3>1, <3>2, <3>3, <3>4, <3>5, RowOK
  <2>4. ASSUME Bindable(o.tenant, o.customer),
               faults < MaxFaults, faults' = faults + 1,
               tenants' = Put(tenants, o.tenant,
                              Row(tenants[o.tenant].plan, tenants[o.tenant].status, o.customer)),
               UNCHANGED <<held, notes>>
        PROVE  IInv'
    <3>. DEFINE row == Row(tenants[o.tenant].plan, tenants[o.tenant].status, o.customer)
    <3>1. /\ o.tenant \in Rows /\ (Occupied(o.tenant) => tenants[o.tenant].ref = o.customer)
          /\ Holders(o.customer) = {} \/ o.tenant \in Holders(o.customer)
      BY <2>4 DEF Bindable
    <3>2. RowType(row) /\ row.plan = tenants[o.tenant].plan /\ row.ref = o.customer
      BY <1>t, <2>1, <3>1 DEF RowType, Row, References_
    <3>3. tenants' = Put(tenants, o.tenant, row) /\ UNCHANGED <<origin, heard>>
      BY <2>4 DEF notes
    <3>4. /\ Changes(held', held, o.tenant, held[o.tenant])
          /\ Changes(origin', origin, o.tenant, origin[o.tenant])
      BY <1>t, <2>4, <3>1, <3>3, ChangesOK
    <3>5. faults' \in 0..MaxFaults
      BY <1>f, <2>4, NumbersAre
    <3>6. /\ origin[o.tenant] \in Customers => row.ref = origin[o.tenant]
          /\ \A c \in Customers : tenants[o.tenant].ref = c => row.ref = c
      BY <1>p, <3>1, <3>2, NamesAre DEF Occupied
    <3>. HIDE DEF row
    <3>7. row.ref \in DOMAIN heard /\ Holders(row.ref) \subseteq {o.tenant} /\ origin[o.tenant] # "admin"
            => heard[row.ref].late \/ row.plan = heard[row.ref].paid
      BY <1>p, <1>h, <2>1, <3>1, <3>2
    <3>. QED  BY <1>t, <2>2, <3>1, <3>2, <3>3, <3>4, <3>5, <3>6, <3>7, RowOK
  <2>5. CASE o.action = "bind" /\ DeliverBind(o, m)
    <3>1. Bindable(o.tenant, o.customer)
      BY <2>5 DEF DeliverBind
    <3>2. o.tenant \in Rows /\ (Occupied(o.tenant) => tenants[o.tenant].ref = o.customer)
      BY <3>1 DEF Bindable
    <3>. QED  BY <2>3, <2>4, <2>5, <3>1, <3>2 DEF DeliverBind
  <2>6. CASE o.action = "set-plan" /\ DeliverSetPlan(o, m)
    <3>1. PICK t \in Holders(o.customer) :
            WithPlan(t, o.plan) /\ origin' = Put(origin, t, o.customer) /\ Heard(m) /\ UNCHANGED faults
      BY <2>6 DEF DeliverSetPlan
    <3>2. t \in Rows /\ tenants[t].ref = o.customer
      BY DEF Holders
    <3>. QED  BY <2>3, <2>6, <3>1, <3>2 DEF WithPlan
  <2>7. CASE o.action = "suspend" /\ DeliverSuspend(o)
    <3>1. PICK t \in Holders(o.customer) :
            WithStatus(t, "suspended") /\ UNCHANGED <<held, notes, faults>>
      BY <2>7 DEF DeliverSuspend
    <3>2. t \in Rows
      BY DEF Holders
    <3>. QED  BY <1>2, <2>2, <3>1, <3>2 DEF notes
  <2>. QED  BY <2>2, <2>5, <2>6, <2>7
<1>. QED  BY <1>1, <1>3, <1>4

-----------------------------------------------------------------------------
(* Subscriptions.                                                          *)

\* An event of a customer that makes of a plan what is paid for from then on.
EventOK(e, c, plan) ==
  /\ e.customer = c
  /\ e.tenant # None => e.plan \in PlanIds
  /\ LET o == OutcomeOf(provider, e)
     IN o.customer = c /\ (o.action \in {"bind", "set-plan"} => o.plan = plan /\ plan \in PlanIds)

LEMMA SendOK ==
  ASSUME IInv, NEW events, NEW plan, NEW c \in Customers, Send(events, plan),
         \A e \in events : EventOK(e, c, plan)
  PROVE  IInv'
<1>. USE DEF IInv
<1>1. /\ provider # None /\ steps < MaxSteps /\ steps' = steps + 1
      /\ sent' = sent \cup {[event |-> e, step |-> steps, paid |-> plan] : e \in events}
      /\ UNCHANGED <<provider, tenants, used, buckets, waiting, held, passed, now, faults, origin, heard>>
  BY DEF Send, traffic, notes
<1>2. TypeOK'
  BY <1>1, NumbersAre DEF TypeOK, RowType, Rows
<1>3. WaitInv' /\ HeldInv' /\ QuotaHolds' /\ TokensInv'
  BY <1>1 DEF WaitInv, HeldInv, QuotaHolds, TokensInv, NoRequest, Rows
<1>4. ASSUME NEW m \in sent'
      PROVE  /\ m.event.customer \in Customers
             /\ m.event.tenant # None => m.event.plan \in PlanIds
             /\ LET o == OutcomeOf(provider, m.event)
                IN /\ o.customer = m.event.customer
                   /\ o.action \in {"bind", "set-plan"} => o.plan = m.paid /\ m.paid \in PlanIds
  <2>1. CASE m \in sent
    BY <2>1 DEF MoneyInv, SentInv
  <2>2. CASE m \notin sent
    <3>1. EventOK(m.event, c, m.paid)
      BY <1>1, <1>4, <2>2
    <3>. QED  BY <3>1 DEF EventOK
  <2>. QED  BY <2>1, <2>2
<1>5. SentInv'
  BY <1>1, <1>4 DEF SentInv
<1>6. HeardInv' /\ PlanOfItsCustomer'
  <2>1. Rows' = Rows /\ \A d : Holders(d)' = Holders(d)
    BY <1>1 DEF Rows, Holders
  <2>. QED  BY <1>1, <2>1 DEF MoneyInv, HeardInv, PlanOfItsCustomer
<1>. QED  BY <1>2, <1>3, <1>5, <1>6 DEF MoneyInv

LEMMA SubscriptionOK ==
  ASSUME IInv, NEW c \in Customers,
         \/ \E t \in Rows, p \in PlanIds : Subscribe(c, t, p)
         \/ \E p \in PlanIds : ChangePlan(c, p)
         \/ Fail(c)
         \/ End(c)
  PROVE  IInv'
<1>p. provider \in {None, "paypal", "stripe", "paystack"}
  BY SidesAssumption DEF IInv, TypeOK
<1>. USE DEF EventOK, Event, Outcome, Bind, SetPlan, Downgrade, Suspend, Ignore, None
<1>1. \A t, p : provider # None /\ p \in PlanIds =>
        \A e \in Started(provider, c, t, p) \cup Changed(provider, c, t, p) : EventOK(e, c, p)
  <2>. SUFFICES ASSUME NEW t, NEW p \in PlanIds, provider # None,
                       NEW e \in Started(provider, c, t, p) \cup Changed(provider, c, t, p)
                PROVE  EventOK(e, c, p)
    OBVIOUS
  <2>1. CASE provider = "paypal"
    BY <2>1 DEF Started, Changed, OutcomeOf, planFromPayPalEvent
  <2>2. CASE provider = "stripe"
    BY <2>2 DEF Started, Changed, OutcomeOf, planFromStripeEvent
  <2>3. CASE provider = "paystack"
    BY <2>3 DEF Started, Changed, OutcomeOf, planFromPaystackEvent
  <2>. QED  BY <1>p, <2>1, <2>2, <2>3
<1>2. provider # None => \A e \in Failed(provider, c) : EventOK(e, c, None)
  BY <1>p DEF Failed, OutcomeOf, planFromPayPalEvent, planFromStripeEvent, planFromPaystackEvent
<1>3. \A p : provider # None /\ p \in PlanIds => \A e \in Ended(provider, c, p) : EventOK(e, c, "free")
  BY <1>p, NamesAre
     DEF Ended, OutcomeOf, planFromPayPalEvent, planFromStripeEvent, planFromPaystackEvent
<1>4. \A events, plan : Send(events, plan) => provider # None
  BY DEF Send
<1>. HIDE DEF EventOK, None
<1>5. \A events, plan : Send(events, plan) /\ (\A e \in events : EventOK(e, c, plan)) => IInv'
  BY SendOK
<1>6. ASSUME NEW t \in Rows, NEW p \in PlanIds, Subscribe(c, t, p) PROVE IInv'
  BY <1>1, <1>4, <1>5, <1>6 DEF Subscribe
<1>7. ASSUME NEW p \in PlanIds, ChangePlan(c, p) PROVE IInv'
  BY <1>1, <1>4, <1>5, <1>7 DEF ChangePlan
<1>8. CASE Fail(c)
  BY <1>2, <1>4, <1>5, <1>8 DEF Fail
<1>9. CASE End(c)
  <2>1. PICK e \in Subscriptions(c) : Send(Ended(provider, c, e.plan), "free")
    BY <1>9 DEF End
  <2>2. e.plan \in PlanIds
    BY DEF Subscriptions, IInv, MoneyInv, SentInv
  <2>. QED  BY <1>3, <1>4, <1>5, <2>1, <2>2
<1>. QED  BY <1>6, <1>7, <1>8, <1>9

-----------------------------------------------------------------------------
(* Requests and time.                                                      *)

LEMMA InitOK == Init => IInv
<1>. SUFFICES ASSUME Init PROVE IInv
  OBVIOUS
<1>1. Rows = {} /\ DOMAIN used = {} /\ DOMAIN held = {} /\ DOMAIN origin = {}
      /\ DOMAIN buckets = {} /\ DOMAIN passed = {} /\ DOMAIN heard = {} /\ sent = {}
  BY DEF Init, Rows
<1>2. RowType(NoRequest.row) /\ NoRequest.tenant = None
  BY PlansAssumption DEF NoRequest, RowType, Row, References_
<1>3. DOMAIN waiting = Slots /\ \A s \in Slots : waiting[s] = NoRequest
  BY DEF Init
<1>4. provider \in Providers /\ now \in 0..MaxTime /\ steps \in 0..MaxSteps /\ faults \in 0..MaxFaults
  BY CommerceBounds DEF Init
<1>5. TypeOK
  BY <1>1, <1>2, <1>3, <1>4 DEF TypeOK
<1>6. WaitInv /\ HeldInv /\ QuotaHolds /\ TokensInv /\ MoneyInv
  BY <1>1, <1>3
     DEF WaitInv, HeldInv, QuotaHolds, TokensInv, MoneyInv, SentInv, HeardInv, PlanOfItsCustomer
<1>. QED  BY <1>5, <1>6 DEF IInv

\* What the bucket of t holds when a request of it arrives, and what it has let
\* pass, are together what time allows.
Life(t, rate) == IF Known(t, rate) THEN passed[t] ELSE [since |-> now, count |-> 0]

LEMMA BucketOK ==
  ASSUME TypeOK, TokensInv, NEW t, NEW rate \in Nat \ {0}
  PROVE  LET b == BucketOf(t, rate)
         IN /\ b.limit = rate /\ b.at = now /\ b.tokens \in 0..(rate * Minute)
            /\ Life(t, rate).since \in 0..now /\ Life(t, rate).count \in Nat
            /\ Minute * Life(t, rate).count + b.tokens
                 <= rate * (Minute + (now - Life(t, rate).since))
<1>n. now \in Nat /\ Minute \in Nat \ {0}
  BY NumbersAre
<1>1. CASE Known(t, rate)
  <2>1. t \in DOMAIN buckets /\ buckets[t].limit = rate
    BY <1>1 DEF Known
  <2>2. /\ buckets[t].tokens \in 0..(rate * Minute) /\ buckets[t].at \in 0..now
        /\ passed[t].since \in 0..now /\ passed[t].count \in Nat
        /\ Minute * passed[t].count + buckets[t].tokens
             <= rate * (Minute + (buckets[t].at - passed[t].since))
    BY <2>1 DEF TypeOK, TokensInv
  <2>. DEFINE b == [limit |-> rate, tokens |-> buckets[t].tokens, at |-> buckets[t].at]
  <2>3. rate * Minute \in Nat
    BY <1>n, GrowsOK
  <2>4. /\ b \in [limit : Nat \ {0}, tokens : Nat, at : Nat]
        /\ b.limit = rate /\ b.tokens = buckets[t].tokens /\ b.at = buckets[t].at
        /\ b.tokens <= rate * Minute /\ b.at <= now
    BY <1>n, <2>2, <2>3
  <2>5. Refill(b) = Refill(buckets[t])
    BY <2>1 DEF Refill
  <2>. HIDE DEF b
  <2>6. /\ Refill(b).limit = b.limit /\ Refill(b).at = now
        /\ Refill(b).tokens \in 0..(b.limit * Minute)
        /\ Minute * passed[t].count + Refill(b).tokens <= b.limit * (Minute + (now - passed[t].since))
    <3>1. passed[t].since \in Nat
      BY <1>n, <2>2
    <3>2. Minute * passed[t].count + b.tokens <= b.limit * (Minute + (b.at - passed[t].since))
      BY <2>2, <2>4
    <3>. QED  BY <1>n, <2>2, <2>4, <3>1, <3>2, RefillOK
  <2>. QED  BY <1>1, <2>2, <2>4, <2>5, <2>6 DEF BucketOf, Life
<1>2. CASE ~Known(t, rate)
  <2>1. BucketOf(t, rate) = Bucket(rate, rate * Minute, now) /\ Life(t, rate) = [since |-> now, count |-> 0]
    BY <1>2 DEF BucketOf, Life
  <2>2. rate * Minute \in Nat
    BY <1>n, GrowsOK
  <2>3. Minute * 0 + rate * Minute <= rate * (Minute + (now - now))
    BY <1>n, <2>2
  <2>. QED  BY <1>n, <2>1, <2>2, <2>3 DEF Bucket
<1>. QED  BY <1>1, <1>2

\* A request takes a token or none.
LEMMA ConsumeOK ==
  ASSUME TypeOK, TokensInv, NEW t \in Rows, NEW rate \in Int \ {0}, Consume(t, rate)
  PROVE  /\ DOMAIN buckets' \subseteq Rows /\ DOMAIN passed' = DOMAIN buckets'
         /\ \A u \in DOMAIN buckets' :
              /\ buckets'[u].limit \in Nat \ {0}
              /\ buckets'[u].tokens \in 0..(buckets'[u].limit * Minute)
              /\ buckets'[u].at \in 0..now
              /\ passed'[u].since \in 0..now /\ passed'[u].count \in Nat
              /\ Minute * passed'[u].count + buckets'[u].tokens
                   <= buckets'[u].limit * (Minute + (buckets'[u].at - passed'[u].since))
<1>1. CASE rate < 0
  BY <1>1 DEF Consume, TypeOK, TokensInv
<1>2. CASE ~(rate < 0)
  <2>. DEFINE b == BucketOf(t, rate)
              life == Life(t, rate)
              took == IF Limited(t, rate) THEN 0 ELSE 1
  <2>n. now \in Nat /\ Minute \in Nat \ {0} /\ rate \in Nat \ {0}
    BY <1>2, NumbersAre
  <2>1. /\ b.limit = rate /\ b.at = now /\ b.tokens \in 0..(rate * Minute)
        /\ life.since \in 0..now /\ life.count \in Nat
        /\ Minute * life.count + b.tokens <= rate * (Minute + (now - life.since))
    BY <2>n, BucketOK
  <2>2. /\ buckets' = Put(buckets, t, Bucket(b.limit, b.tokens - took * Minute, b.at))
        /\ passed' = Put(passed, t, [since |-> life.since, count |-> life.count + took])
    BY <1>2 DEF Consume, Life
  <2>3. took = 0 \/ (took = 1 /\ b.tokens >= Minute)
    BY <2>n, <2>1 DEF Limited
  <2>. HIDE DEF b, life, took
  <2>4. rate * Minute \in Nat /\ Minute * life.count \in Nat /\ rate * (Minute + (now - life.since)) \in Int
    BY <2>n, <2>1, GrowsOK
  <2>5. Minute * (life.count + took) + (b.tokens - took * Minute) = Minute * life.count + b.tokens
    BY <2>n, <2>1, <2>3
  <2>6. b.tokens - took * Minute \in 0..(rate * Minute)
    BY <2>n, <2>1, <2>3, <2>4
  <2>7. /\ DOMAIN buckets' = DOMAIN buckets \cup {t} /\ DOMAIN passed' = DOMAIN passed \cup {t}
        /\ buckets'[t].limit = rate /\ buckets'[t].tokens = b.tokens - took * Minute /\ buckets'[t].at = now
        /\ passed'[t].since = life.since /\ passed'[t].count = life.count + took
        /\ \A u \in DOMAIN buckets \ {t} : buckets'[u] = buckets[u]
        /\ \A u \in DOMAIN passed \ {t} : passed'[u] = passed[u]
    BY <2>1, <2>2 DEF Put, Bucket
  <2>8. /\ DOMAIN buckets \subseteq Rows /\ DOMAIN passed = DOMAIN buckets
        /\ \A u \in DOMAIN buckets :
             /\ buckets[u].limit \in Nat \ {0}
             /\ buckets[u].tokens \in 0..(buckets[u].limit * Minute)
             /\ buckets[u].at \in 0..now
             /\ passed[u].since \in 0..now /\ passed[u].count \in Nat
             /\ Minute * passed[u].count + buckets[u].tokens
                  <= buckets[u].limit * (Minute + (buckets[u].at - passed[u].since))
    BY DEF TypeOK, TokensInv
  <2>9. /\ passed'[t].count \in Nat /\ passed'[t].since \in 0..now
        /\ Minute * passed'[t].count + buckets'[t].tokens
             <= buckets'[t].limit * (Minute + (buckets'[t].at - passed'[t].since))
    BY <2>1, <2>3, <2>5, <2>7
  <2>. QED  BY <2>n, <2>6, <2>7, <2>8, <2>9
<1>. QED  BY <1>1, <1>2

LEMMA ArriveOK ==
  ASSUME IInv, NEW s \in Slots, NEW t \in Rows, Arrive(s, t)
  PROVE  IInv'
<1>. USE DEF IInv
<1>. DEFINE row == tenants[t]
            rate == Plans[row.plan].rate
<1>1. RowType(row) /\ row.plan \in held[t] /\ rate \in Int \ {0}
  BY PlansAre DEF TypeOK, RowType, HeldInv
<1>2. /\ Consume(t, rate)
      /\ waiting' = [waiting EXCEPT ![s] =
                       IF Limited(t, rate) THEN NoRequest ELSE [tenant |-> t, row |-> row]]
      /\ UNCHANGED <<provider, tenants, used, held, now, sent, steps, faults, origin, heard>>
  BY DEF Arrive, money, notes
<1>3. Rows' = Rows
  BY <1>2 DEF Rows
<1>. HIDE DEF row, rate
<1>4. /\ DOMAIN buckets' \subseteq Rows /\ DOMAIN passed' = DOMAIN buckets'
      /\ \A u \in DOMAIN buckets' :
           /\ buckets'[u].limit \in Nat \ {0}
           /\ buckets'[u].tokens \in 0..(buckets'[u].limit * Minute)
           /\ buckets'[u].at \in 0..now
           /\ passed'[u].since \in 0..now /\ passed'[u].count \in Nat
           /\ Minute * passed'[u].count + buckets'[u].tokens
                <= buckets'[u].limit * (Minute + (buckets'[u].at - passed'[u].since))
  BY <1>1, <1>2, ConsumeOK
<1>5. /\ DOMAIN waiting' = Slots
      /\ \A r \in Slots : \/ waiting'[r] = waiting[r]
                          \/ waiting'[r] = NoRequest
                          \/ waiting'[r].tenant = t /\ waiting'[r].row = row
  BY <1>2 DEF TypeOK
<1>6. NoRequest.tenant = None /\ RowType(NoRequest.row)
  BY PlansAssumption DEF NoRequest, RowType, Row, References_
<1>7. \A r \in Slots : waiting'[r].tenant \in Rows \cup {None} /\ RowType(waiting'[r].row)
  BY <1>1, <1>5, <1>6 DEF TypeOK
<1>8. TypeOK'
  <2>1. Rows' \subseteq Tenants /\ \A u \in Rows' : RowType(tenants'[u])
    BY <1>2, <1>3 DEF TypeOK
  <2>2. \A r \in Slots : waiting'[r].tenant \in Rows' \cup {None} /\ RowType(waiting'[r].row)
    BY <1>3, <1>7
  <2>3. /\ DOMAIN used' = Rows' /\ (\A u \in Rows' : used'[u] \in Nat)
        /\ DOMAIN held' = Rows' /\ (\A u \in Rows' : held'[u] \subseteq PlanIds)
        /\ DOMAIN origin' = Rows' /\ (\A u \in Rows' : origin'[u] \in Customers \cup {"signup", "admin"})
        /\ provider' \in Providers /\ DOMAIN heard' \subseteq Customers
        /\ now' \in 0..MaxTime /\ steps' \in 0..MaxSteps /\ faults' \in 0..MaxFaults
    BY <1>2, <1>3 DEF TypeOK
  <2>4. now' = now
    BY <1>2
  <2>. QED  BY <1>3, <1>4, <1>5, <2>1, <2>2, <2>3, <2>4 DEF TypeOK, RowType
<1>9. WaitInv'
  BY <1>1, <1>2, <1>3, <1>5 DEF WaitInv, NoRequest, row
<1>10. HeldInv' /\ QuotaHolds' /\ MoneyInv'
  BY <1>2, <1>3, MoneySame DEF HeldInv, QuotaHolds
<1>11. TokensInv'
  BY <1>4 DEF TokensInv
<1>. QED  BY <1>8, <1>9, <1>10, <1>11

LEMMA FinishedOK ==
  ASSUME IInv, NEW s \in Slots, Serve(s) \/ Refuse(s)
  PROVE  IInv'
<1>. USE DEF IInv
<1>1. /\ waiting[s] # NoRequest
      /\ waiting' = [waiting EXCEPT ![s] = NoRequest]
      /\ UNCHANGED <<provider, tenants, buckets, held, passed, now, sent, steps, faults, origin, heard>>
  BY DEF Serve, Refuse, Finished, money, notes
<1>2. Rows' = Rows
  BY <1>1 DEF Rows
<1>3. /\ waiting[s].tenant \in Rows /\ waiting[s].row.plan \in held[waiting[s].tenant]
      /\ waiting[s].row.plan \in PlanIds
  BY <1>1 DEF WaitInv, TypeOK, RowType
<1>. DEFINE t == waiting[s].tenant
            p == waiting[s].row.plan
<1>4. \/ UNCHANGED used
      \/ /\ used' = [used EXCEPT ![t] = used[t] + 1]
         /\ Plans[p].limit < 0 \/ used[t] < Plans[p].limit
  BY DEF Serve, Refuse, MayUse, Allowed
<1>5. /\ DOMAIN used' = Rows /\ \A u \in Rows : used'[u] \in Nat
      /\ \A u \in Rows : \/ used'[u] = used[u]
                         \/ /\ u = t /\ used'[u] = used[u] + 1
                            /\ Plans[p].limit < 0 \/ used[u] < Plans[p].limit
  BY <1>4 DEF TypeOK
<1>6. /\ DOMAIN waiting' = Slots
      /\ \A r \in Slots : waiting'[r] = waiting[r] \/ waiting'[r] = NoRequest
  BY <1>1 DEF TypeOK
<1>7. NoRequest.tenant = None /\ RowType(NoRequest.row)
  BY PlansAssumption DEF NoRequest, RowType, Row, References_
<1>8. TypeOK'
  <2>1. \A r \in Slots : waiting'[r].tenant \in Rows' \cup {None} /\ RowType(waiting'[r].row)
    BY <1>2, <1>6, <1>7 DEF TypeOK
  <2>. QED  BY <1>1, <1>2, <1>5, <1>6, <2>1 DEF TypeOK, RowType
<1>9. WaitInv'
  BY <1>1, <1>2, <1>6 DEF WaitInv, NoRequest
<1>10. QuotaHolds'
  <2>. SUFFICES ASSUME NEW u \in Rows
                PROVE  \E q \in held[u] : Plans[q].limit < 0 \/ used'[u] <= Plans[q].limit
    BY <1>1, <1>2 DEF QuotaHolds
  <2>1. CASE used'[u] = used[u]
    BY <2>1 DEF QuotaHolds
  <2>2. CASE u = t /\ used'[u] = used[u] + 1 /\ (Plans[p].limit < 0 \/ used[u] < Plans[p].limit)
    <3>1. used[u] \in Nat /\ Plans[p].limit \in Int /\ p \in held[u]
      BY <1>3, <2>2, PlansAre DEF TypeOK
    <3>2. Plans[p].limit < 0 \/ used'[u] <= Plans[p].limit
      BY <2>2, <3>1
    <3>. QED  BY <3>1, <3>2
  <2>. QED  BY <1>5, <2>1, <2>2
<1>11. HeldInv' /\ TokensInv' /\ MoneyInv'
  BY <1>1, <1>2, MoneySame DEF HeldInv, TokensInv
<1>. QED  BY <1>8, <1>9, <1>10, <1>11

LEMMA TickOK == IInv /\ Tick => IInv'
<1>. SUFFICES ASSUME IInv, Tick PROVE IInv'
  OBVIOUS
<1>. USE DEF IInv
<1>1. /\ now < MaxTime /\ now' = now + 1
      /\ UNCHANGED <<provider, tenants, used, buckets, waiting, held, passed, sent, steps, faults, origin, heard>>
  BY DEF Tick, traffic, money, notes
<1>2. Rows' = Rows
  BY <1>1 DEF Rows
<1>3. now' \in 0..MaxTime /\ 0..now \subseteq 0..now'
  BY <1>1, NumbersAre
<1>4. TypeOK'
  BY <1>1, <1>2, <1>3 DEF TypeOK, RowType
<1>5. WaitInv' /\ HeldInv' /\ QuotaHolds' /\ TokensInv' /\ MoneyInv'
  BY <1>1, <1>2, MoneySame DEF WaitInv, HeldInv, QuotaHolds, TokensInv, NoRequest
<1>. QED  BY <1>4, <1>5

LEMMA NewPeriodOK == IInv /\ NewPeriod => IInv'
<1>. SUFFICES ASSUME IInv, NewPeriod PROVE IInv'
  OBVIOUS
<1>. USE DEF IInv
<1>1. /\ used' = [t \in Rows |-> 0]
      /\ held' = [t \in Rows |-> {tenants[t].plan} \cup Waits(t)]
      /\ UNCHANGED <<provider, tenants, buckets, waiting, passed, now, sent, steps, faults, origin, heard>>
  BY DEF NewPeriod, money, notes
<1>2. Rows' = Rows
  BY <1>1 DEF Rows
<1>3. \A t \in Rows : Waits(t) \subseteq PlanIds /\ tenants[t].plan \in PlanIds
  BY DEF Waits, TypeOK, RowType
<1>4. TypeOK'
  BY <1>1, <1>2, <1>3 DEF TypeOK, RowType
<1>5. WaitInv'
  BY <1>1, <1>2 DEF WaitInv, Waits, NoRequest
<1>6. HeldInv'
  BY <1>1, <1>2 DEF HeldInv
<1>7. QuotaHolds'
  <2>1. \A t \in Rows : tenants[t].plan \in held'[t] /\ used'[t] = 0 /\ Plans[tenants[t].plan].limit \in Int
    BY <1>1, <1>3, PlansAre
  <2>. QED  BY <1>2, <2>1 DEF QuotaHolds
<1>8. TokensInv' /\ MoneyInv'
  BY <1>1, <1>2, MoneySame DEF TokensInv
<1>. QED  BY <1>4, <1>5, <1>6, <1>7, <1>8

LEMMA RestartOK == IInv /\ Restart => IInv'
<1>. SUFFICES ASSUME IInv, Restart PROVE IInv'
  OBVIOUS
<1>. USE DEF IInv
<1>1. /\ faults < MaxFaults /\ faults' = faults + 1
      /\ buckets' = << >> /\ passed' = << >>
      /\ waiting' = [s \in Slots |-> NoRequest]
      /\ UNCHANGED <<provider, tenants, used, held, now, sent, steps, origin, heard>>
  BY DEF Restart, money, notes
<1>2. Rows' = Rows /\ DOMAIN buckets' = {} /\ DOMAIN passed' = {}
  BY <1>1 DEF Rows
<1>3. NoRequest.tenant = None /\ RowType(NoRequest.row)
  BY PlansAssumption DEF NoRequest, RowType, Row, References_
<1>4. DOMAIN waiting' = Slots /\ \A s \in Slots : waiting'[s] = NoRequest
  BY <1>1
<1>5. faults' \in 0..MaxFaults
  BY <1>1, NumbersAre DEF TypeOK
<1>6. TypeOK'
  BY <1>1, <1>2, <1>3, <1>4, <1>5 DEF TypeOK, RowType
<1>7. WaitInv' /\ TokensInv'
  BY <1>2, <1>4 DEF WaitInv, TokensInv, NoRequest
<1>8. HeldInv' /\ QuotaHolds' /\ MoneyInv'
  BY <1>1, <1>2, MoneySame DEF HeldInv, QuotaHolds
<1>. QED  BY <1>6, <1>7, <1>8

LEMMA StepOK == IInv /\ [Next]_vars => IInv'
<1>. SUFFICES ASSUME IInv, [Next]_vars PROVE IInv'
  OBVIOUS
<1>1. ASSUME NEW t \in Tenants, Signup(t) PROVE IInv'
  <2>1. Create(t, "free", "signup", "signup")
    BY <1>1 DEF Signup
  <2>2. "free" \in PlanIds /\ "signup" \in References_
    BY NamesAre DEF References_
  <2>. QED  BY <2>1, <2>2, CreateOK
<1>2. ASSUME NEW t \in Tenants, NEW p \in PlanIds, NEW r \in References \cup {None}, AdminCreate(t, p, r)
      PROVE IInv'
  <2>1. Create(t, p, r, "admin")
    BY <1>2 DEF AdminCreate
  <2>2. r \in References_
    BY SidesAssumption DEF References_
  <2>. QED  BY <2>1, <2>2, CreateOK
<1>3. CASE \/ \E t \in Rows : \/ \E p \in PlanIds : AdminPlan(t, p)
                              \/ \E s \in {"active", "suspended"} : AdminStatus(t, s)
           \/ \E m \in sent : Deliver(m)
  BY <1>3, TenantStepOK
<1>4. ASSUME NEW c \in Customers,
             \/ \E t \in Rows, p \in PlanIds : Subscribe(c, t, p)
             \/ \E p \in PlanIds : ChangePlan(c, p)
             \/ Fail(c)
             \/ End(c)
      PROVE  IInv'
  BY <1>4, SubscriptionOK
<1>5. CASE \E s \in Slots : \/ \E t \in Callers \cap Rows : Arrive(s, t)
                            \/ Serve(s) \/ Refuse(s)
  BY <1>5, ArriveOK, FinishedOK
<1>6. CASE Tick \/ NewPeriod \/ Restart
  BY <1>6, TickOK, NewPeriodOK, RestartOK
<1>7. CASE UNCHANGED vars
  <2>1. UNCHANGED <<provider, tenants, used, buckets, waiting, held, passed, now, sent, steps, faults, origin, heard>>
    BY <1>7 DEF vars, traffic, money, notes
  <2>2. Rows' = Rows
    BY <2>1 DEF Rows
  <2>3. TypeOK'
    BY <2>1, <2>2 DEF IInv, TypeOK, RowType
  <2>4. WaitInv' /\ HeldInv' /\ QuotaHolds' /\ TokensInv' /\ MoneyInv'
    BY <2>1, <2>2, MoneySame DEF IInv, WaitInv, HeldInv, QuotaHolds, TokensInv, NoRequest
  <2>. QED  BY <2>3, <2>4 DEF IInv
<1>. QED  BY <1>1, <1>2, <1>3, <1>4, <1>5, <1>6, <1>7 DEF Next

-----------------------------------------------------------------------------
(* Theorems.                                                               *)

\* What the tables, the limiter and the requests that wait have in common, in
\* every state (TenantStore, MeterStore, TenantRateLimiter).
THEOREM CommerceInvariant == Spec => []IInv
BY InitOK, StepOK, PTL DEF Spec

\* Tables, buckets and requests have their types, and no bucket holds more
\* than its limit or less than nothing (TenantStore, TokenBucket).
THEOREM CommerceTypeOK == Spec => []TypeOK
<1>1. IInv => TypeOK
  BY DEF IInv
<1>. QED  BY <1>1, CommerceInvariant, PTL

\* No tenant uses more in a month than the largest of the plans it held in it
\* allows, however many of its requests wait at a time (enforceQuota).
THEOREM CommerceQuotaHolds == Spec => []QuotaHolds
<1>1. IInv => QuotaHolds
  BY DEF IInv
<1>. QED  BY <1>1, CommerceInvariant, PTL

\* A bucket never lets more pass than it held at first and what time has added
\* since, for every rate and however fine the clock (TokenBucket, consume).
THEOREM CommerceRateHolds == Spec => []RateHolds
<1>1. IInv => RateHolds
  <2>. SUFFICES ASSUME IInv, NEW t \in DOMAIN buckets
                PROVE  Minute * passed[t].count <= buckets[t].limit * (Minute + now - passed[t].since)
    BY DEF RateHolds
  <2>n. now \in Nat /\ Minute \in Nat \ {0}
    BY NumbersAre DEF IInv
  <2>1. /\ buckets[t].limit \in Nat /\ buckets[t].tokens \in 0..(buckets[t].limit * Minute)
        /\ buckets[t].at \in 0..now /\ passed[t].since \in 0..now /\ passed[t].count \in Nat
        /\ Minute * passed[t].count + buckets[t].tokens
             <= buckets[t].limit * (Minute + (buckets[t].at - passed[t].since))
    BY DEF IInv, TypeOK, TokensInv
  <2>2. buckets[t].limit * Minute \in Nat /\ Minute * passed[t].count \in Nat
    BY <2>n, <2>1, GrowsOK
  <2>3. /\ Minute + (buckets[t].at - passed[t].since) \in Int /\ Minute + now - passed[t].since \in Int
        /\ Minute + (buckets[t].at - passed[t].since) <= Minute + now - passed[t].since
    BY <2>n, <2>1
  <2>4. buckets[t].limit * (Minute + (buckets[t].at - passed[t].since))
          <= buckets[t].limit * (Minute + now - passed[t].since)
    BY <2>1, <2>3, StretchOK
  <2>5. /\ buckets[t].limit * (Minute + (buckets[t].at - passed[t].since)) \in Int
        /\ buckets[t].limit * (Minute + now - passed[t].since) \in Int
    BY <2>1, <2>3
  <2>. QED  BY <2>1, <2>2, <2>4, <2>5
<1>. QED  BY <1>1, CommerceInvariant, PTL

\* No event sets the plan of a tenant that is not its customer's, and one that
\* events have reached has what is paid for as of the newest, unless an older was
\* applied after it, whatever is lost, repeated or cut off by a crash
\* (planFromStripeEvent, planFromPayPalEvent, planFromPaystackEvent, bindExternalRef).
THEOREM CommercePlanOfItsCustomer == Spec => []PlanOfItsCustomer
<1>1. IInv => PlanOfItsCustomer
  BY DEF IInv, MoneyInv
<1>. QED  BY <1>1, CommerceInvariant, PTL

\* What BindingsHold says of a step.
Bindings ==
  /\ \A t \in Rows : Occupied(t) => tenants'[t].ref = tenants[t].ref
  /\ \A t, u \in Rows : (t # u /\ tenants'[t].ref = tenants'[u].ref /\ Occupied(t)')
                          => tenants[t].ref = tenants[u].ref

LEMMA BindingsStep == IInv /\ [Next]_vars => Bindings
<1>. SUFFICES ASSUME IInv, [Next]_vars PROVE Bindings
  OBVIOUS
<1>. DEFINE Kept == \A t \in Rows : tenants'[t].ref = tenants[t].ref
<1>1. ASSUME Kept PROVE Bindings
  BY <1>1 DEF Bindings
<1>2. ASSUME NEW t \in Rows, NEW plan, NEW status, tenants' = Put(tenants, t, Row(plan, status, tenants[t].ref))
      PROVE  Kept
  BY <1>2 DEF Put, Row, Rows
<1>3. ASSUME NEW t \in Tenants, NEW plan, NEW ref, NEW who, Create(t, plan, ref, who) PROVE Kept
  BY <1>3 DEF Create, Put, Rows
<1>4. ASSUME tenants' = tenants PROVE Kept
  BY <1>4
<1>5. ASSUME NEW t \in Rows, NEW c, Bindable(t, c), NEW plan, NEW status,
             tenants' = Put(tenants, t, Row(plan, status, c))
      PROVE  Bindings
  <2>1. tenants'[t].ref = c /\ \A u \in Rows \ {t} : tenants'[u] = tenants[u]
    BY <1>5 DEF Put, Row, Rows
  <2>2. \A u \in Rows : tenants[u].ref = c => tenants[t].ref = c
    BY <1>5 DEF Bindable, Holders
  <2>3. Occupied(t) => tenants[t].ref = c
    BY <1>5 DEF Bindable
  <2>. QED  BY <2>1, <2>2, <2>3 DEF Bindings
<1>6. ASSUME NEW m \in sent, Deliver(m) PROVE Bindings
  <2>. DEFINE o == OutcomeOf(provider, m.event)
  <2>1. DeliverBind(o, m) \/ DeliverSetPlan(o, m) \/ DeliverSuspend(o)
    BY <1>6 DEF Deliver
  <2>. HIDE DEF o
  <2>2. CASE DeliverBind(o, m)
    <3>1. Bindable(o.tenant, o.customer) /\ o.tenant \in Rows
      BY <2>2 DEF DeliverBind, Bindable
    <3>2. \E plan : tenants' = Put(tenants, o.tenant, Row(plan, tenants[o.tenant].status, o.customer))
      BY <2>2 DEF DeliverBind
    <3>. QED  BY <1>5, <3>1, <3>2
  <2>3. CASE DeliverSetPlan(o, m) \/ DeliverSuspend(o)
    <3>1. PICK t \in Rows : WithPlan(t, o.plan) \/ WithStatus(t, "suspended")
      BY <2>3 DEF DeliverSetPlan, DeliverSuspend, Holders
    <3>. QED  BY <1>1, <1>2, <3>1 DEF WithPlan, WithStatus
  <2>. QED  BY <2>1, <2>2, <2>3
<1>7. CASE \E t \in Tenants : \/ Signup(t)
                              \/ \E p \in PlanIds, r \in References \cup {None} : AdminCreate(t, p, r)
  BY <1>1, <1>3, <1>7 DEF Signup, AdminCreate
<1>8. CASE \E t \in Rows : \/ \E p \in PlanIds : AdminPlan(t, p)
                           \/ \E s \in {"active", "suspended"} : AdminStatus(t, s)
  BY <1>1, <1>2, <1>8 DEF AdminPlan, AdminStatus, WithPlan, WithStatus
<1>9. CASE \E c \in Customers : \/ \E t \in Rows, p \in PlanIds : Subscribe(c, t, p)
                                \/ \E p \in PlanIds : ChangePlan(c, p)
                                \/ Fail(c) \/ End(c)
  BY <1>1, <1>4, <1>9 DEF Subscribe, ChangePlan, Fail, End, Send
<1>10. CASE \/ \E s \in Slots : \/ \E t \in Callers \cap Rows : Arrive(s, t)
                                \/ Serve(s) \/ Refuse(s)
            \/ Tick \/ NewPeriod \/ Restart
  BY <1>1, <1>4, <1>10 DEF Arrive, Serve, Refuse, Finished, Tick, NewPeriod, Restart
<1>11. CASE UNCHANGED vars
  BY <1>1, <1>4, <1>11 DEF vars
<1>. QED  BY <1>6, <1>7, <1>8, <1>9, <1>10, <1>11 DEF Next

\* A tenant that belongs to a customer belongs to it for good, and no event
\* gives a customer a second tenant (bindExternalRef).
THEOREM CommerceBindingsHold == Spec => BindingsHold
<1>1. IInv /\ [Next]_vars => [Bindings]_vars
  BY BindingsStep
<1>2. BindingsHold <=> [][Bindings]_vars
  BY PTL DEF BindingsHold, Bindings
<1>. QED  BY <1>1, <1>2, CommerceInvariant, PTL DEF Spec
===============================================================================
