SPECIFICATION CloneSpec
CONSTANTS
  Clients = {c1, c2, c3}
  Jobs = {j1, j2}
  None = None
INVARIANTS Tracked OneAtWork
PROPERTIES CheckoutIsKept CallsReturn
