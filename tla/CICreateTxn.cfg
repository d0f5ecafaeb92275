\* Transactions on: two attempts of one operation, whose key outlives the
\* retries, and two of another, whose key may expire at any time.
CONSTANTS
  r1 = r1  r2 = r2  r3 = r3  r4 = r4  k1 = k1  k2 = k2
  None = None  Pending = Pending
  Req = {r1, r2, r3, r4}
  Key = {k1, k2}
  KeyOf <- MCKeyOf
  TxnEnabled = TRUE
  Expiring = {k2}
SPECIFICATION FairSpec
INVARIANTS AtMostOneCi ReplayIsFaithful DoneIsDurable ClaimsAreHeld
PROPERTIES ClaimsEnd
