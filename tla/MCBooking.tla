----------------------------- MODULE MCBooking -----------------------------
EXTENDS Booking, TLC
Sym == Permutations(Ids) \cup Permutations(Handlers)
Q(key, origin, staff, start, service) ==
  [key |-> key, origin |-> origin, staff |-> staff, start |-> start, service |-> service]
RequestsDef == { Q("k1", "public", "s1", 1, "short"), Q("none", "public", "s2", 1, "short"),
                 Q("k1", "agent", "s2", 0, "long"), Q("none", "past", "s1", 0, "short") }
ChargedRequestsDef == { Q("none", "agent", "s1", 0, "short") }
DurationDef == [v \in {"short", "long"} |-> IF v = "short" THEN 1 ELSE 2]
=============================================================================
