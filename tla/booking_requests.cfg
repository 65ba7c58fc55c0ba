SPECIFICATION Spec
CONSTANTS
  Ids = {a1, a2}
  Staff = {"s1", "s2"}
  Services = {"short", "long"}
  Duration <- DurationDef
  MaxTime = 1
  Requests <- RequestsDef
  Edits = {"move", "service", "confirm"}
  Handlers = {h1, h2}
  Cap = 1
INVARIANTS PastWalkInsApart CapHolds LockedWritersDoNotDeadlock
PROPERTIES AgendaSpec
SYMMETRY Sym
