SPECIFICATION PortalSafety
CONSTANTS
  Stock = 3
  MaxPackets = 5
  MaxOrders = 5
CHECK_DEADLOCK FALSE
INVARIANT TemplateKept
