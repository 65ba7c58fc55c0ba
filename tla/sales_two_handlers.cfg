SPECIFICATION Spec
CONSTANTS
  Slots = {h1, h2}
  NoSlot = none
  MaxSales = 2
  MaxAppts = 1
  Ops = {"inbound", "inbound_ad", "business", "booking", "charge", "person"}
SYMMETRY Symmetry
PROPERTIES ContactSpec HeardIsReopened
