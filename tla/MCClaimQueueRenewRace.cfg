CONSTANTS
  m1 = m1
  m2 = m2
  c1 = c1
  c2 = c2
  Malformed = Malformed
  None = None
  Msg = {m1}
  Worker = {w1}
  Claim = {c1}
  ClaimOf <- OneMessage
  Receipt = {r1, r2, r3, r4, r5, r6}
  MaxAttempts = 2
SPECIFICATION Spec
INVARIANT
  FirstDeliveryDeletes
