---------------------------- MODULE ContactSales ----------------------------
(***************************************************************************)
(* What the sales pipeline promises of one contact, whatever messages,     *)
(* bookings, payments, people and jobs do at the same time: at most one    *)
(* sale is open, a sale advances while it is open, a lost one comes back   *)
(* where it was, a won one stays won, and an appointment belongs to a sale *)
(* that was open, or just paid, when it was linked.                        *)
(***************************************************************************)
EXTENDS Naturals

CONSTANTS SaleIds, VisitIds, NoSale

VARIABLES phase,   \* "none", "open", "won" or "lost"
          stage,   \* where the sale is in the funnel
          owner    \* the sale each appointment belongs to, or NoSale

contact == <<phase, stage, owner>>

Early == {"lead", "qualified"}

ContactInit ==
  /\ phase = [o \in SaleIds |-> "none"]
  /\ stage = [o \in SaleIds |-> "lead"]
  /\ owner = [v \in VisitIds |-> NoSale]

\* An open sale, one that is opened, and one that comes back.
Opens(o) ==
  /\ phase'[o] = "open"
  /\ \/ phase[o] = "none" /\ stage'[o] \in {"lead", "qualified", "booked"}
     \/ phase[o] = "lost" /\ stage'[o] = stage[o]
     \/ phase[o] \in {"open", "lost"} /\ stage[o] = "lead" /\ stage'[o] = "qualified"
     \/ phase[o] \in {"open", "lost"} /\ stage[o] \in Early /\ stage'[o] = "booked"
     \/ phase[o] = "open" /\ stage[o] = "qualified" /\ stage'[o] = "lead"
     \/ phase[o] = "open" /\ stage[o] = "booked" /\ stage'[o] = "qualified"

Loses(o) == phase[o] = "open" /\ phase'[o] = "lost" /\ stage'[o] = stage[o]

Attends(o) == phase[o] = "open" /\ phase'[o] = "won" /\ stage'[o] = "attended"

\* A payment wins any sale, one that did not exist included.
Pays(o) == stage[o] # "paid" /\ phase'[o] = "won" /\ stage'[o] = "paid"

\* Only a voided payment moves a won sale back, and it stays won.
Voids(o) ==
  phase[o] = "won" /\ stage[o] = "paid" /\ phase'[o] = "won" /\ stage'[o] = "attended"

Stays(o) == phase'[o] = phase[o] /\ stage'[o] = stage[o]

\* One sale moves at a time.
SaleMoves ==
  \E o \in SaleIds :
     /\ Opens(o) \/ Loses(o) \/ Attends(o) \/ Pays(o) \/ Voids(o) \/ Stays(o)
     /\ \A p \in SaleIds \ {o} : Stays(p)

OwnersFollow ==
  \A v \in VisitIds : owner'[v] # owner[v] =>
     /\ owner'[v] \in SaleIds
     /\ phase'[owner'[v]] = "open" \/ stage'[owner'[v]] = "paid"

OneOpen == \A o, p \in SaleIds : phase'[o] = "open" /\ phase'[p] = "open" => o = p

ContactSpec == ContactInit /\ [][SaleMoves /\ OwnersFollow /\ OneOpen]_contact
=============================================================================
