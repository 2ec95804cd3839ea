CONSTANTS
  WorkOrders = {w1, w2}
  NegativeCases <- MCNegativeCases
  Bundles <- MCBundles
  Requests <- MCRequests
SPECIFICATION Spec
INVARIANTS OrdersArePromoted 
PROPERTIES OrdersEnd 
CHECK_DEADLOCK FALSE
