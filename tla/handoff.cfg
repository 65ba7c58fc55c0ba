SPECIFICATION FairSpec
CONSTANTS
  Convs = {c1}
  Agents = {a1}
  Supervisors = {a1}
  Messages = {m1}
  Handlers = {h1, h2}
  Sweeper = sweeper
  NoAgent = nobody
  NoConv = noconv
  NoMessage = nomessage
INVARIANTS  EscalationNeedsInbox PostedByOne
PROPERTIES ModesSpec SentStays  
