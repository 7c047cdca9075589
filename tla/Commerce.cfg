CONSTANTS
  acme = acme
  bell = bell
  cus1 = cus1
  cus2 = cus2
  slot1 = slot1
  slot2 = slot2
  Tenants = {acme, bell}
  Customers = {cus1, cus2}
  Plans <- TwoPlans
  Providers = {"none", "paypal", "stripe", "paystack"}
  Busy = {"none"}
  References = {cus1}
  Slots = {slot1, slot2}
  Callers = {acme}
  Minute = 2
  MaxTime = 2
  MaxSteps = 2
  MaxFaults = 1
SPECIFICATION Spec
INVARIANTS TypeOK QuotaHolds RateHolds PlanOfItsCustomer
PROPERTY BindingsHold
SYMMETRY Symmetry
