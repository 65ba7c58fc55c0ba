SPECIFICATION FairSpec
CONSTANTS
  Slots = {h1}
  NoSlot = none
  MaxSales = 2
  MaxAppts = 1
  Ops = {"inbound", "inbound_ad", "repeat", "plain", "business", "bot", "booking", "walkin", "status", "charge", "payment", "person", "crash"}
 
PROPERTIES UnansweredIsLost
