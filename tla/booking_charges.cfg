SPECIFICATION FairSpec
CONSTANTS
  Ids = {a1}
  Staff = {"s1", "s2"}
  Services = {"short", "long"}
  Duration <- DurationDef
  MaxTime = 1
  Requests <- ChargedRequestsDef
  Edits = {"move", "service", "confirm", "charge"}
  Handlers = {h1, h2}
  Cap = 1
INVARIANTS PaidIsCompleted
PROPERTIES PaidStaysAsCharged RequestEnds
