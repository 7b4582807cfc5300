SPECIFICATION PortalSpec
CONSTANTS
  Stock = 3
  MaxPackets = 5
  MaxOrders = 5
CHECK_DEADLOCK FALSE
INVARIANT PortalInv
PROPERTY HeldPacketsStable
INVARIANT CompletionRoom
INVARIANT NoLostWakeup
INVARIANT WireNeverStale
PROPERTY OrderLeaves
