---------------------------- MODULE BookingProofs ----------------------------
(***************************************************************************)
(* Theorems about Booking for every number of appointments, professionals, *)
(* services and requests in flight.                                        *)
(*                                                                         *)
(* Every step either moves one request (RequestStep), writes one row       *)
(* (RowStep) or leaves both alone; the invariant is shown for each form.   *)
(***************************************************************************)
EXTENDS Booking, FiniteSetTheorems, TLAPS, WellFoundedInduction

Holding(t) == t.pc \in {"write", "written"}
Open(t) == t.pc \in {"insert", "key", "write", "written"}
Creating(t) == t.op = "create"

\* What a row may become under an edit begun on row r.
EditOf(r, s) ==
  /\ r.status \notin {"none", "cancelled"}
  /\ s.key = r.key /\ s.origin = r.origin
  /\ \/ s.status = r.status /\ ~s.asBooked
     \/ r.status = "scheduled" /\ s = [r EXCEPT !.status = "confirmed"]

\* What a request in flight may rely on, by the step it is at.
Shape(t) ==
  /\ t.pc \in {"idle", "plan", "begin", "insert", "key", "replay", "refused"} => t.id = "none"
  /\ t.pc \in {"plan", "begin", "insert", "key", "replay", "refused"} => Creating(t)
  /\ Creating(t) => t.row.status = "scheduled" /\ t.row.asBooked
  /\ t.pc # "idle" => t.row.staff \in Staff /\ t.row.service \in Services
  /\ t.pc \in {"write", "written", "draft"} => t.id \in Ids
  /\ t.pc = "draft" => t.op \in {"charge", "late"} /\ appts[t.id].status # "none"
  /\ t.pc = "draft" /\ t.op = "late" => appts[t.id].status = "completed"
  /\ Holding(t) => t.op \in {"create", "move", "service", "confirm"}
  /\ t.pc = "write" => ~Creating(t)
  /\ t.pc = "written" => t.row.status \in Active
Owns(t) ==
  /\ Holding(t) /\ ~Creating(t) => EditOf(appts[t.id], t.row)
  /\ Holding(t) /\ ~Creating(t) /\ charge[t.id] # NoCharge
       => t.row.staff = appts[t.id].staff /\ t.row.service = appts[t.id].service
  /\ Holding(t) /\ Creating(t) => appts[t.id].status = "none" /\ WithKey(t.row.key) = {}
  /\ Creating(t) /\ Open(t) /\ t.row.origin = "past"
       => \A a \in Ids : Registered(a) => ~Overlap(appts[a], t.row)
  /\ Open(t) => enabled
Fits(t) == Shape(t) /\ Owns(t)

\* What two requests in flight never share: a row, the past-walk-in lock, a key being inserted.
Distinct(t, u) ==
  /\ Holding(t) /\ Holding(u) => t.id # u.id
  /\ Creating(t) /\ Open(t) /\ Creating(u) /\ Open(u) /\ t.row.origin = "past" /\ u.row.origin = "past"
       => t.row.staff # u.row.staff
  /\ Creating(t) /\ Holding(t) /\ Creating(u) /\ Holding(u) /\ t.row.key # "none" => t.row.key # u.row.key

Requesting ==
  /\ \A h \in Handlers : Fits(txn[h])
  /\ \A g, h \in Handlers : g # h => Distinct(txn[g], txn[h])

PastAreDone == \A a \in Ids : appts[a].origin = "past" => appts[a].status = "completed"
ActiveApart == \A a, b \in Ids :
  a # b /\ appts[a].status \in Active /\ appts[b].status \in Active => ~Overlap(appts[a], appts[b])
OneKeyEach == \A a, b \in Ids :
  a # b /\ appts[a].status # "none" /\ appts[b].status # "none" /\ appts[a].key = appts[b].key
    => appts[a].key = "none"

Agreed == PastAreDone /\ ActiveApart /\ OneKeyEach /\ PastWalkInsApart /\ PaidIsCompleted

IInv == TypeOK /\ Requesting /\ Agreed

-----------------------------------------------------------------------------
(* The forms of a step. *)

RequestStep(h, t) ==
  /\ t \in Txns /\ Fits(t)
  /\ \A g \in Handlers \ {h} : Distinct(t, txn[g]) /\ Distinct(txn[g], t)
  /\ txn' = [txn EXCEPT ![h] = t]
  /\ UNCHANGED <<appts, charge, enabled>>

\* Row a becomes r: nobody else holds it, and r keeps clear of the others.
RowChanges(r, s) ==
  \/ r.status = "none" /\ s.status \in {"scheduled", "completed"} /\ s.asBooked
  \/ EditOf(r, s)
  \/ r.status \in Active /\ s.status \in {"completed", "cancelled", "no_show"} /\ s = [r EXCEPT !.status = s.status]

KeepsClear(a, r) ==
  /\ r.status \in Active => \A b \in Ids \ {a} : appts[b].status \in Active => ~Overlap(appts[b], r)
  /\ appts[a].status = "none" /\ r.origin = "past" => \A b \in Ids : Registered(b) => ~Overlap(appts[b], r)
  /\ appts[a].status = "none" => WithKey(r.key) = {}
  /\ r.origin = "past" => r.status = "completed"

LeavesRow(g, a, r) ==
  /\ Holding(txn[g]) => txn[g].id # a
  /\ appts[a].status = "none" /\ r.origin = "past" /\ Creating(txn[g]) /\ Open(txn[g]) /\ txn[g].row.origin = "past"
       => r.staff # txn[g].row.staff
  /\ appts[a].status = "none" /\ Creating(txn[g]) /\ Holding(txn[g]) /\ r.key # "none" => r.key # txn[g].row.key

RowStep(a, r) ==
  /\ a \in Ids /\ r \in Rows /\ r.staff \in Staff /\ r.service \in Services /\ enabled
  /\ RowChanges(appts[a], r)
  /\ KeepsClear(a, r)
  /\ appts' = [appts EXCEPT ![a] = r]
  /\ \A g \in Handlers : LeavesRow(g, a, r) \/ txn'[g] = Idle
  /\ \/ UNCHANGED txn
     \/ \E h \in Handlers : txn' = [txn EXCEPT ![h] = Idle]
  /\ \/ UNCHANGED charge /\ (charge[a] # NoCharge => r.staff = appts[a].staff /\ r.service = appts[a].service)
     \/ r.status = "completed" /\ appts[a].status \in Active
        /\ \E c \in [service : Services \cup {"none"}, staff : Staff \cup {"none"}] : charge' = [charge EXCEPT ![a] = c]
  /\ UNCHANGED enabled

ChargeStep(a, c) ==
  /\ a \in Ids /\ c \in [service : Services \cup {"none"}, staff : Staff \cup {"none"}]
  /\ c # NoCharge => appts[a].status = "completed" /\ \A g \in Handlers : Holding(txn[g]) => txn[g].id # a
  /\ charge' = [charge EXCEPT ![a] = c]
  /\ UNCHANGED <<appts, enabled>>
  /\ \/ UNCHANGED txn
     \/ \E h \in Handlers : txn' = [txn EXCEPT ![h] = Idle]

SwitchStep ==
  /\ \A g \in Handlers : ~InTx(g)
  /\ enabled' \in BOOLEAN
  /\ UNCHANGED <<appts, charge, txn>>

Steps ==
  /\ now' \in Times
  /\ \/ \E h \in Handlers : \E t : RequestStep(h, t)
     \/ \E a, r : RowStep(a, r)
     \/ \E a, c : ChargeStep(a, c)
     \/ SwitchStep
     \/ UNCHANGED <<appts, charge, txn, enabled>>

-----------------------------------------------------------------------------
LEMMA OverlapIsMutual == ASSUME NEW r, NEW s PROVE Overlap(r, s) <=> Overlap(s, r)
  BY DEF Overlap

\* A row that exists keeps its key, its origin and, if it is completed, its end; it is never again as booked.
LEMMA ChangeKeeps ==
  ASSUME NEW r \in Rows, NEW s \in Rows, RowChanges(r, s), r.status # "none"
  PROVE  /\ s.key = r.key /\ s.origin = r.origin /\ s.status # "none"
         /\ r.status = "completed" => s.status = "completed" /\ ~s.asBooked
<1>1. CASE EditOf(r, s)
  BY <1>1 DEF EditOf, Rows
<1>2. CASE ~EditOf(r, s)
  BY <1>2 DEF RowChanges, Rows, Active
<1> QED BY <1>1, <1>2

LEMMA IdleIsFit ==
  /\ Idle \in Txns /\ Fits(Idle)
  /\ \A t : Distinct(Idle, t) /\ Distinct(t, Idle)
<1>1. NoRow \in Rows
  BY BoundsAssumption DEF NoRow, Rows, Times
<1>2. Idle \in Txns
  BY <1>1 DEF Idle, Txns
<1>3. Fits(Idle)
  BY DEF Fits, Shape, Owns, Idle, Holding, Open, Creating
<1>4. \A t : Distinct(Idle, t) /\ Distinct(t, Idle)
  BY DEF Distinct, Idle, Holding, Open, Creating
<1> QED BY <1>2, <1>3, <1>4

LEMMA RequestKeeps ==
  ASSUME IInv, NEW h \in Handlers, NEW t, RequestStep(h, t), now' \in Times
  PROVE  IInv'
<1>1. /\ txn' = [txn EXCEPT ![h] = t] /\ t \in Txns /\ Fits(t) /\ UNCHANGED <<appts, charge, enabled>>
      /\ txn \in [Handlers -> Txns]
      /\ \A g \in Handlers \ {h} : Distinct(t, txn[g]) /\ Distinct(txn[g], t)
  BY DEF RequestStep, IInv, TypeOK
<1>2. txn'[h] = t /\ \A g \in Handlers \ {h} : txn'[g] = txn[g]
  BY <1>1
<1>3. TypeOK'
  BY <1>1 DEF IInv, TypeOK
<1>4. \A g \in Handlers : Fits(txn[g])'
  <2> SUFFICES ASSUME NEW g \in Handlers PROVE Fits(txn[g])'
    OBVIOUS
  <2>1. PICK u : u = txn'[g] /\ Fits(u)
    BY <1>1, <1>2 DEF IInv, Requesting
  <2>2. Fits(u)'
    BY <2>1, <1>1 DEF Fits, Shape, Owns, Holding, Open, Creating, EditOf, WithKey, Registered, Overlap, Blocked
  <2> QED BY <2>1, <2>2 DEF Fits, Shape, Owns, Holding, Open, Creating, EditOf, WithKey, Registered, Overlap, Blocked
<1>5. \A g, k \in Handlers : g # k => Distinct(txn'[g], txn'[k])
  BY <1>1, <1>2 DEF IInv, Requesting
<1>6. Agreed'
  BY <1>1 DEF IInv, Agreed, PastAreDone, ActiveApart, OneKeyEach, PastWalkInsApart, PaidIsCompleted, Registered, Overlap, Blocked
<1> QED BY <1>3, <1>4, <1>5, <1>6 DEF IInv, Requesting, Distinct, Holding, Open, Creating

\* After the write of a row, who is left in flight is as before or idle.
LEMMA OthersStay ==
  ASSUME IInv, UNCHANGED txn \/ \E h \in Handlers : txn' = [txn EXCEPT ![h] = Idle]
  PROVE  /\ txn' \in [Handlers -> Txns]
         /\ \A g \in Handlers : txn'[g] = txn[g] \/ txn'[g] = Idle
         /\ \A g, k \in Handlers : g # k => Distinct(txn'[g], txn'[k])
<1>1. txn \in [Handlers -> Txns] /\ Idle \in Txns
  BY IdleIsFit DEF IInv, TypeOK
<1>2. \A g \in Handlers : txn'[g] = txn[g] \/ txn'[g] = Idle
  BY <1>1
<1>3. \A g, k \in Handlers : g # k => Distinct(txn'[g], txn'[k])
  BY <1>2, IdleIsFit DEF IInv, Requesting
<1> QED BY <1>1, <1>2, <1>3

LEMMA RowKeepsAgreed ==
  ASSUME IInv, NEW a, NEW r, RowStep(a, r)
  PROVE  Agreed'
<1>1. /\ a \in Ids /\ r \in Rows /\ RowChanges(appts[a], r) /\ KeepsClear(a, r)
      /\ appts \in [Ids -> Rows] /\ charge \in [Ids -> [service : Services \cup {"none"}, staff : Staff \cup {"none"}]]
      /\ appts' = [appts EXCEPT ![a] = r] /\ Agreed
  BY DEF RowStep, IInv, TypeOK
<1>2. appts'[a] = r /\ \A b \in Ids \ {a} : appts'[b] = appts[b]
  BY <1>1
<1>3. PastAreDone'
  BY <1>1, <1>2 DEF Agreed, PastAreDone, KeepsClear
<1>4. ActiveApart'
  BY <1>1, <1>2, OverlapIsMutual DEF Agreed, ActiveApart, KeepsClear
<1>5. OneKeyEach'
  <2> SUFFICES ASSUME NEW b \in Ids, NEW c \in Ids, b # c, appts'[b].status # "none", appts'[c].status # "none",
                      appts'[b].key = appts'[c].key, appts'[b].key # "none"
               PROVE FALSE
    BY DEF OneKeyEach
  <2>1. CASE appts[a].status = "none"
    BY <1>1, <1>2, <2>1 DEF Agreed, OneKeyEach, KeepsClear, WithKey
  <2>2. CASE appts[a].status # "none"
    <3>1. r.key = appts[a].key
      BY <1>1, <2>2, ChangeKeeps
    <3> QED BY <1>1, <1>2, <2>2, <3>1 DEF Agreed, OneKeyEach
  <2> QED BY <2>1, <2>2
<1>6. PastWalkInsApart'
  <2>1. CASE appts[a].status = "none"
    <3>1. r.origin = "past" => \A b \in Ids : Registered(b) => ~Overlap(appts[b], r) /\ ~Overlap(r, appts[b])
      BY <1>1, <2>1, OverlapIsMutual DEF KeepsClear
    <3> SUFFICES ASSUME NEW b \in Ids, NEW c \in Ids, b # c, Registered(b)', Registered(c)'
                 PROVE ~Overlap(appts'[b], appts'[c])
      BY DEF PastWalkInsApart, Overlap, Blocked
    <3> QED BY <1>1, <1>2, <3>1 DEF Agreed, PastWalkInsApart, Registered
  <2>2. CASE appts[a].status # "none"
    <3>1. ~Registered(a)'
      BY <1>1, <1>2, <2>2, ChangeKeeps DEF Registered, Agreed, PastAreDone
    <3> SUFFICES ASSUME NEW b \in Ids, NEW c \in Ids, b # c, Registered(b)', Registered(c)'
                 PROVE ~Overlap(appts'[b], appts'[c])
      BY DEF PastWalkInsApart, Overlap, Blocked
    <3> QED BY <1>1, <1>2, <3>1 DEF Agreed, PastWalkInsApart, Registered
  <2> QED BY <2>1, <2>2
<1>7. PaidIsCompleted'
  <2>1. CASE UNCHANGED charge
    <3>1. charge[a] # NoCharge => r.status = "completed"
      BY <1>1 DEF Agreed, PaidIsCompleted, RowChanges, EditOf, Active
    <3> QED BY <1>1, <1>2, <2>1, <3>1 DEF Agreed, PaidIsCompleted
  <2>2. CASE charge' # charge
    <3>1. r.status = "completed" /\ \A b \in Ids \ {a} : charge'[b] = charge[b]
      BY <1>1, <2>2 DEF RowStep
    <3> QED BY <1>1, <1>2, <3>1 DEF Agreed, PaidIsCompleted
  <2> QED BY <2>1, <2>2
<1> QED BY <1>3, <1>4, <1>5, <1>6, <1>7 DEF Agreed

LEMMA RowKeepsFit ==
  ASSUME IInv, NEW a, NEW r, RowStep(a, r), NEW g \in Handlers
  PROVE  Fits(txn[g])'
<1>1. /\ a \in Ids /\ r \in Rows /\ RowChanges(appts[a], r) /\ r.staff \in Staff /\ r.service \in Services
      /\ appts \in [Ids -> Rows] /\ charge \in [Ids -> [service : Services \cup {"none"}, staff : Staff \cup {"none"}]]
      /\ appts' = [appts EXCEPT ![a] = r] /\ Agreed /\ enabled' = enabled
  BY DEF RowStep, IInv, TypeOK
<1>2. appts'[a] = r /\ \A b \in Ids \ {a} : appts'[b] = appts[b]
  BY <1>1
<1>3. txn'[g] = txn[g] \/ txn'[g] = Idle
  BY OthersStay DEF RowStep
<1>4. CASE txn'[g] = Idle
  BY <1>4 DEF Fits, Shape, Owns, Idle, Holding, Open, Creating
<1>5. CASE txn'[g] = txn[g] /\ txn[g] # Idle
  <2> DEFINE t == txn[g]
  <2>1. Fits(t) /\ t \in Txns
    BY DEF IInv, Requesting, TypeOK
  <2>2. LeavesRow(g, a, r)
    BY <1>5 DEF RowStep
  <2>3. Shape(txn[g])'
    <3>1. t.pc = "draft" => appts'[t.id].status # "none" /\ (t.op = "late" => appts'[t.id].status = "completed")
      BY <1>1, <1>2, <2>1, ChangeKeeps DEF Fits, Shape
    <3> QED BY <1>5, <2>1, <3>1 DEF Fits, Shape, Holding, Creating
  <2>4. Holding(t) => appts'[t.id] = appts[t.id] /\ charge'[t.id] = charge[t.id] /\ t.id \in Ids /\ t.id # a
    BY <1>1, <1>2, <2>1, <2>2 DEF LeavesRow, Fits, Shape, Holding, RowStep
  <2>5. Holding(t) /\ ~Creating(t) => EditOf(appts'[t.id], t.row)
    BY <2>1, <2>4 DEF Fits, Owns
  <2>6. Holding(t) /\ ~Creating(t) /\ charge'[t.id] # NoCharge
          => t.row.staff = appts'[t.id].staff /\ t.row.service = appts'[t.id].service
    BY <2>1, <2>4 DEF Fits, Owns
  <2>7. Holding(t) /\ Creating(t) => appts'[t.id].status = "none" /\ WithKey(t.row.key)' = {}
    <3> SUFFICES ASSUME Holding(t), Creating(t), NEW b \in Ids,
                        t.row.key # "none", appts'[b].status # "none", appts'[b].key = t.row.key
                 PROVE FALSE
      BY <1>5, <2>1, <2>4 DEF Fits, Owns, WithKey
    <3>1. ~(appts[b].status # "none" /\ appts[b].key = t.row.key)
      BY <2>1 DEF Fits, Owns, WithKey
    <3>2. b = a
      BY <1>2, <3>1
    <3>3. r.key = t.row.key
      BY <1>2, <3>2
    <3>4. CASE appts[a].status = "none"
      BY <2>2, <3>3, <3>4 DEF LeavesRow
    <3>5. CASE appts[a].status # "none"
      BY <1>1, <3>1, <3>2, <3>3, <3>5, ChangeKeeps
    <3> QED BY <3>4, <3>5
  <2>8. Creating(t) /\ Open(t) /\ t.row.origin = "past"
          => \A b \in Ids : Registered(b)' => ~Overlap(appts'[b], t.row)
    <3> SUFFICES ASSUME Creating(t), Open(t), t.row.origin = "past", NEW b \in Ids, Registered(b)'
                 PROVE ~Overlap(appts'[b], t.row)
      OBVIOUS
    <3>1. CASE b # a
      BY <1>2, <2>1, <3>1 DEF Fits, Owns, Registered
    <3>2. CASE b = a /\ appts[a].status = "none"
      BY <1>2, <2>2, <3>2 DEF LeavesRow, Registered, Overlap
    <3>3. CASE b = a /\ appts[a].status # "none"
      BY <1>1, <1>2, <3>3, ChangeKeeps DEF Registered, Agreed, PastAreDone
    <3> QED BY <3>1, <3>2, <3>3
  <2>9. Open(t) => enabled'
    BY <1>1, <2>1 DEF Fits, Owns
  <2>10. Owns(txn[g])'
    BY <1>5, <2>5, <2>6, <2>7, <2>8, <2>9 DEF Owns, Holding, Creating, Open, EditOf, Overlap, Blocked
  <2> QED BY <2>3, <2>10 DEF Fits
<1> QED BY <1>3, <1>4, <1>5

LEMMA RowKeeps ==
  ASSUME IInv, NEW a, NEW r, RowStep(a, r), now' \in Times
  PROVE  IInv'
<1>1. \A g \in Handlers : Fits(txn[g])'
  BY RowKeepsFit
<1>2. txn' \in [Handlers -> Txns] /\ \A g, k \in Handlers : g # k => Distinct(txn'[g], txn'[k])
  BY OthersStay DEF RowStep
<1>3. TypeOK'
  <2>1. appts' \in [Ids -> Rows] /\ enabled' \in BOOLEAN
    BY DEF RowStep, IInv, TypeOK
  <2>2. charge' \in [Ids -> [service : Services \cup {"none"}, staff : Staff \cup {"none"}]]
    BY DEF RowStep, IInv, TypeOK
  <2>3. \A b \in Ids : appts'[b].status # "none" => appts'[b].staff \in Staff /\ appts'[b].service \in Services
    BY DEF RowStep, IInv, TypeOK
  <2> QED BY <1>2, <2>1, <2>2, <2>3 DEF TypeOK
<1>4. Agreed'
  BY RowKeepsAgreed
<1> QED BY <1>1, <1>2, <1>3, <1>4 DEF IInv, Requesting, Distinct, Holding, Open, Creating

LEMMA ChargeKeeps ==
  ASSUME IInv, NEW a, NEW c, ChargeStep(a, c), now' \in Times
  PROVE  IInv'
<1>1. /\ UNCHANGED <<appts, enabled>> /\ charge' = [charge EXCEPT ![a] = c]
      /\ charge' \in [Ids -> [service : Services \cup {"none"}, staff : Staff \cup {"none"}]]
      /\ \A b \in Ids : charge'[b] # NoCharge /\ charge'[b] # charge[b]
           => b = a /\ appts[a].status = "completed" /\ \A g \in Handlers : Holding(txn[g]) => txn[g].id # a
  BY DEF ChargeStep, IInv, TypeOK
<1>2. /\ txn' \in [Handlers -> Txns] /\ \A g, k \in Handlers : g # k => Distinct(txn'[g], txn'[k])
      /\ \A g \in Handlers : txn'[g] = txn[g] \/ txn'[g] = Idle
  BY OthersStay DEF ChargeStep
<1>3. TypeOK'
  BY <1>1, <1>2 DEF IInv, TypeOK
<1>4. Agreed'
  BY <1>1 DEF IInv, Agreed, PastAreDone, ActiveApart, OneKeyEach, PastWalkInsApart, PaidIsCompleted, Registered, Overlap, Blocked
<1>5. \A g \in Handlers : Fits(txn[g])'
  <2> SUFFICES ASSUME NEW g \in Handlers PROVE Fits(txn[g])'
    OBVIOUS
  <2>1. CASE txn'[g] = Idle
    BY <2>1 DEF Fits, Shape, Owns, Idle, Holding, Open, Creating
  <2>2. CASE txn'[g] = txn[g]
    <3>1. Fits(txn[g])
      BY DEF IInv, Requesting
    <3>2. Shape(txn[g])'
      BY <1>1, <2>2, <3>1 DEF Fits, Shape, Holding, Creating
    <3>3. Holding(txn[g]) => txn[g].id \in Ids /\ (charge'[txn[g].id] = charge[txn[g].id] \/ charge'[txn[g].id] = NoCharge)
      BY <1>1, <3>1 DEF Fits, Shape, Holding
    <3>4. Owns(txn[g])'
      BY <1>1, <2>2, <3>1, <3>3 DEF Fits, Owns, Holding, Open, Creating, EditOf, WithKey, Registered, Overlap, Blocked
    <3> QED BY <3>2, <3>4 DEF Fits
  <2> QED BY <1>2, <2>1, <2>2
<1> QED BY <1>2, <1>3, <1>4, <1>5 DEF IInv, Requesting, Distinct, Holding, Open, Creating

LEMMA SwitchKeeps ==
  ASSUME IInv, SwitchStep, now' \in Times
  PROVE  IInv'
<1>1. TypeOK'
  BY DEF SwitchStep, IInv, TypeOK
<1>2. Agreed'
  BY DEF SwitchStep, IInv, Agreed, PastAreDone, ActiveApart, OneKeyEach, PastWalkInsApart, PaidIsCompleted, Registered, Overlap, Blocked
<1>3. ASSUME NEW g \in Handlers PROVE Fits(txn[g])'
  <2>1. Fits(txn[g]) /\ ~Open(txn[g]) /\ txn'[g] = txn[g]
    BY DEF SwitchStep, InTx, Open, IInv, Requesting
  <2>2. Shape(txn[g])'
    BY <2>1 DEF SwitchStep, Fits, Shape, Holding, Creating
  <2> QED BY <2>1, <2>2 DEF Fits, Owns, Open, Holding
<1> QED BY <1>1, <1>2, <1>3 DEF SwitchStep, IInv, Requesting, Distinct, Holding, Open, Creating

LEMMA StepsKeep == IInv /\ Steps => IInv'
<1>1. IInv /\ now' \in Times /\ UNCHANGED <<appts, charge, txn, enabled>> => IInv'
  BY DEF IInv, TypeOK, Requesting, Fits, Shape, Owns, Distinct, Holding, Open, Creating, EditOf, WithKey,
         Agreed, PastAreDone, ActiveApart, OneKeyEach, PastWalkInsApart, PaidIsCompleted, Registered, Overlap, Blocked
<1> QED BY <1>1, RequestKeeps, RowKeeps, ChargeKeeps, SwitchKeeps DEF Steps

-----------------------------------------------------------------------------
(* How a request takes its steps. *)

LEMMA InitHolds == Init => IInv
<1> SUFFICES ASSUME Init PROVE IInv
  OBVIOUS
<1>1. NoRow \in Rows /\ NoCharge \in [service : Services \cup {"none"}, staff : Staff \cup {"none"}]
  BY BoundsAssumption DEF NoRow, NoCharge, Rows, Times
<1>2. TypeOK
  <2>1. NoRow.status = "none" /\ 0 \in Times
    BY BoundsAssumption DEF NoRow, Times
  <2> QED BY <1>1, <2>1, IdleIsFit DEF Init, TypeOK
<1>3. \A h \in Handlers : txn[h] = Idle
  BY DEF Init
<1>4. Requesting
  BY <1>3, IdleIsFit DEF Requesting
<1>5. Agreed
  BY DEF Init, Agreed, PastAreDone, ActiveApart, OneKeyEach, PastWalkInsApart, PaidIsCompleted, Registered, NoRow, Active
<1> QED BY <1>2, <1>4, <1>5 DEF IInv

LEMMA ClosedStep ==
  ASSUME IInv, NEW h \in Handlers, NEW t \in Txns, Fits(t), ~Open(t),
         txn' = [txn EXCEPT ![h] = t], UNCHANGED <<appts, charge, enabled>>
  PROVE  RequestStep(h, t)
BY DEF RequestStep, Distinct, Open, Holding

LEMMA EndsStep ==
  ASSUME IInv, NEW h \in Handlers, Ends(h), UNCHANGED <<appts, charge, enabled>>
  PROVE  \E t : RequestStep(h, t)
BY IdleIsFit, ClosedStep DEF Ends, Open, Idle

Asked(r) == r \in Rows /\ r.status = "scheduled" /\ r.asBooked /\ r.staff \in Staff /\ r.service \in Services

LEMMA WaitingStep ==
  ASSUME IInv, NEW h \in Handlers, NEW r, Asked(r), NEW pc \in {"plan", "begin", "replay", "refused"},
         txn' = [txn EXCEPT ![h] = [op |-> "create", pc |-> pc, id |-> "none", row |-> r]],
         UNCHANGED <<appts, charge, enabled>>
  PROVE  \E t : RequestStep(h, t)
<1> DEFINE t == [op |-> "create", pc |-> pc, id |-> "none", row |-> r]
<1>1. t \in Txns
  BY DEF Txns, Asked
<1>2. Shape(t)
  BY DEF Shape, Holding, Creating, Asked
<1>3. Owns(t) /\ ~Open(t)
  BY DEF Owns, Holding, Open
<1> QED BY <1>1, <1>2, <1>3, ClosedStep DEF Fits

LEMMA RefusesStep ==
  ASSUME IInv, NEW h \in Handlers, NEW r, Asked(r), Refuses(h, r), UNCHANGED <<appts, charge, enabled>>
  PROVE  \E t : RequestStep(h, t)
BY EndsStep, WaitingStep DEF Refuses, Becomes

LEMMA ReplayStep ==
  ASSUME IInv, NEW h \in Handlers, NEW r, Asked(r), ReplayOrConflict(h, r), UNCHANGED <<appts, charge, enabled>>
  PROVE  \E t : RequestStep(h, t)
BY EndsStep, RefusesStep DEF ReplayOrConflict

\* A creation in flight is a request somebody made, and one that goes on is the same request.
LEMMA CreationIsAsked ==
  ASSUME IInv, NEW h \in Handlers, txn[h].pc \in {"plan", "begin", "insert", "key", "replay", "refused"}
  PROVE  Asked(txn[h].row) /\ txn[h].op = "create" /\ txn[h].id = "none"
<1>1. txn[h] \in Txns /\ Shape(txn[h])
  BY DEF IInv, TypeOK, Requesting, Fits
<1> QED BY <1>1 DEF Shape, Creating, Asked, Txns

LEMMA GoesOn ==
  ASSUME IInv, NEW h \in Handlers, NEW pc, Goes(h, pc)
  PROVE  txn' = [txn EXCEPT ![h] = [op |-> txn[h].op, pc |-> pc, id |-> txn[h].id, row |-> txn[h].row]]
<1>1. txn \in [Handlers -> Txns] /\ txn' = [txn EXCEPT ![h].pc = pc]
  BY DEF IInv, TypeOK, Goes
<1>2. txn' = [txn EXCEPT ![h] = [txn[h] EXCEPT !.pc = pc]]
  BY <1>1
<1>3. [txn[h] EXCEPT !.pc = pc] = [op |-> txn[h].op, pc |-> pc, id |-> txn[h].id, row |-> txn[h].row]
  <2>1. txn[h] \in Txns
    BY <1>1
  <2> QED BY <2>1 DEF Txns
<1> QED BY <1>2, <1>3

LEMMA PlanSteps ==
  ASSUME IInv, NEW h \in Handlers,
         (\E q \in Requests : CheckKey(h, q)) \/ Plan(h) \/ BeginOff(h) \/ Refuse(h) \/ Dies(h) \/ ReplayAfterRace(h)
  PROVE  \E t : RequestStep(h, t)
<1>1. CASE \E q \in Requests : CheckKey(h, q)
  <2>1. PICK q \in Requests : CheckKey(h, q)
    BY <1>1
  <2>2. Asked(RowOf(q))
    BY RequestsAssumption DEF Asked, RowOf, Rows, Active
  <2>3. UNCHANGED <<appts, charge, enabled>>
    BY <2>1 DEF CheckKey
  <2>4. CASE ReplayOrConflict(h, RowOf(q))
    BY <2>2, <2>3, <2>4, ReplayStep
  <2>5. CASE ~ReplayOrConflict(h, RowOf(q))
    BY <2>1, <2>2, <2>3, <2>5, WaitingStep DEF CheckKey, Becomes
  <2> QED BY <2>4, <2>5
<1>2. CASE Plan(h)
  <2>1. Asked(txn[h].row) /\ txn[h].id = "none" /\ UNCHANGED <<appts, charge, enabled>>
    BY <1>2, CreationIsAsked DEF Plan
  <2>2. CASE Refuses(h, txn[h].row)
    BY <2>1, <2>2, RefusesStep
  <2>3. CASE Goes(h, "begin")
    <3>1. txn' = [txn EXCEPT ![h] = [op |-> "create", pc |-> "begin", id |-> "none", row |-> txn[h].row]]
      BY <1>2, <2>3, CreationIsAsked, GoesOn DEF Plan
    <3> QED BY <2>1, <3>1, WaitingStep
  <2> QED BY <1>2, <2>2, <2>3 DEF Plan
<1>3. CASE BeginOff(h)
  BY <1>3, EndsStep DEF BeginOff
<1>4. CASE Refuse(h)
  BY <1>4, EndsStep DEF Refuse
<1>5. CASE Dies(h)
  BY <1>5, EndsStep DEF Dies
<1>6. CASE ReplayAfterRace(h)
  BY <1>6, CreationIsAsked, ReplayStep DEF ReplayAfterRace
<1> QED BY <1>1, <1>2, <1>3, <1>4, <1>5, <1>6

\* A transaction of a creation begins: the lock of its past professional is its own.
LEMMA OpensStep ==
  ASSUME IInv, NEW h \in Handlers, txn[h].pc = "begin", enabled, Goes(h, "insert"), UNCHANGED <<appts, charge, enabled>>,
         txn[h].row.origin = "past" => ~BlocksPast(txn[h].row) /\ PastLockFree(txn[h].row.staff)
  PROVE  \E t : RequestStep(h, t)
<1> DEFINE r == txn[h].row
           t == [op |-> "create", pc |-> "insert", id |-> "none", row |-> r]
<1>1. Asked(r) /\ txn' = [txn EXCEPT ![h] = t]
  BY CreationIsAsked, GoesOn
<1>2. t \in Txns /\ Shape(t)
  BY <1>1 DEF Txns, Shape, Holding, Creating, Asked
<1>3. r.origin = "past" => \A a \in Ids : Registered(a) => ~Overlap(appts[a], r)
  BY DEF BlocksPast, Registered, IInv, Agreed, PastAreDone
<1>4. Fits(t)
  BY <1>2, <1>3 DEF Fits, Owns, Holding, Open, Creating
<1>5. ASSUME NEW g \in Handlers \ {h} PROVE Distinct(t, txn[g]) /\ Distinct(txn[g], t)
  BY DEF Distinct, Holding, Open, Creating, PastLockFree, CreatesAs, InTx
<1> HIDE DEF t
<1> QED BY <1>1, <1>2, <1>4, <1>5 DEF RequestStep

LEMMA BeginSteps ==
  ASSUME IInv, NEW h \in Handlers, BeginPast(h) \/ BeginPublic(h) \/ BeginAgent(h)
  PROVE  \E t : RequestStep(h, t)
<1>1. Asked(txn[h].row) /\ txn[h].pc = "begin" /\ enabled /\ UNCHANGED <<appts, charge, enabled>>
  BY CreationIsAsked DEF BeginPast, BeginPublic, BeginAgent
<1>2. CASE Goes(h, "insert") /\ (txn[h].row.origin = "past" => ~BlocksPast(txn[h].row) /\ PastLockFree(txn[h].row.staff))
  BY <1>1, <1>2, OpensStep
<1>3. CASE Refuses(h, txn[h].row) \/ ReplayOrConflict(h, txn[h].row)
  BY <1>1, <1>3, RefusesStep, ReplayStep
<1>4. \/ Goes(h, "insert") /\ (txn[h].row.origin = "past" => ~BlocksPast(txn[h].row) /\ PastLockFree(txn[h].row.staff))
      \/ Refuses(h, txn[h].row) \/ ReplayOrConflict(h, txn[h].row)
  BY DEF BeginPast, BeginPublic, BeginAgent
<1> QED BY <1>2, <1>3, <1>4

LEMMA InsertSteps ==
  ASSUME IInv, NEW h \in Handlers, InsertAppointment(h)
  PROVE  \E t : RequestStep(h, t)
<1> DEFINE r == txn[h].row
<1>1. Asked(r) /\ txn[h].pc \in {"insert", "key"} /\ txn[h].id = "none" /\ UNCHANGED <<appts, charge, enabled>>
  BY CreationIsAsked DEF InsertAppointment
<1>2. CASE Goes(h, "replay")
  <2>1. txn' = [txn EXCEPT ![h] = [op |-> "create", pc |-> "replay", id |-> "none", row |-> r]]
    BY <1>1, <1>2, CreationIsAsked, GoesOn
  <2> QED BY <1>1, <2>1, WaitingStep
<1>3. CASE Goes(h, "key") /\ txn[h].pc = "insert"
  <2> DEFINE t == [op |-> "create", pc |-> "key", id |-> "none", row |-> r]
  <2>1. txn' = [txn EXCEPT ![h] = t]
    BY <1>1, <1>3, CreationIsAsked, GoesOn
  <2>2. t \in Txns /\ Shape(t)
    BY <1>1 DEF Txns, Shape, Holding, Creating, Asked
  <2>3. Owns(txn[h]) /\ Creating(txn[h]) /\ Open(txn[h])
    BY <1>1, <1>3, CreationIsAsked DEF IInv, Requesting, Fits, Open, Creating
  <2>4. Fits(t)
    BY <2>2, <2>3 DEF Fits, Owns, Holding, Open, Creating
  <2>5. ASSUME NEW g \in Handlers \ {h} PROVE Distinct(t, txn[g]) /\ Distinct(txn[g], t)
    <3>1. Distinct(txn[h], txn[g]) /\ Distinct(txn[g], txn[h])
      BY DEF IInv, Requesting
    <3> QED BY <2>3, <3>1 DEF Distinct, Holding, Open, Creating
  <2> HIDE DEF t
  <2> QED BY <1>1, <2>1, <2>2, <2>4, <2>5 DEF RequestStep
<1>4. CASE ~Goes(h, "replay") /\ ~(Goes(h, "key") /\ txn[h].pc = "insert")
  <2>1. PICK a \in Ids : Unused(a) /\ Becomes(h, "create", "written", a, r)
    BY <1>4 DEF InsertAppointment
  <2> DEFINE t == [op |-> "create", pc |-> "written", id |-> a, row |-> r]
  <2>2. txn' = [txn EXCEPT ![h] = t]
    BY <2>1 DEF Becomes
  <2>3. t \in Txns /\ Shape(t)
    BY <1>1 DEF Txns, Shape, Holding, Creating, Asked, Active
  <2>4. Owns(txn[h]) /\ Creating(txn[h]) /\ Open(txn[h])
    BY <1>1, CreationIsAsked DEF IInv, Requesting, Fits, Open, Creating
  <2>5. WithKey(r.key) = {} /\ ~KeyPending(h, r.key)
    BY <1>4 DEF InsertAppointment
  <2>6. Fits(t)
    BY <2>1, <2>3, <2>4, <2>5 DEF Fits, Owns, Holding, Open, Creating, Unused
  <2>7. ASSUME NEW g \in Handlers \ {h} PROVE Distinct(t, txn[g]) /\ Distinct(txn[g], t)
    <3>1. Distinct(txn[h], txn[g]) /\ Distinct(txn[g], txn[h]) /\ Shape(txn[g]) /\ txn[g].id # a
      BY <2>1 DEF IInv, Requesting, Fits, Unused
    <3>2. Creating(txn[g]) /\ Holding(txn[g]) /\ r.key # "none" => txn[g].row.key # r.key
      BY <2>5, <3>1 DEF KeyPending, Shape, Holding, Writing, Creating
    <3> QED BY <2>4, <3>1, <3>2 DEF Distinct, Holding, Open, Creating
  <2> HIDE DEF t
  <2> QED BY <1>1, <2>2, <2>3, <2>6, <2>7 DEF RequestStep
<1> QED BY <1>2, <1>3, <1>4

\* An edit is begun: under the lock of its row, on what a payment of it allows.
LEMMA EditBegins ==
  ASSUME IInv, NEW h \in Handlers, NEW a \in Ids, NEW r \in Rows, NEW op \in {"move", "service", "confirm"},
         NEW pc \in {"write", "written"}, Becomes(h, op, pc, a, r), RowFree(a), enabled, UNCHANGED <<appts, charge, enabled>>,
         EditOf(appts[a], r), r.staff \in Staff, r.service \in Services, pc = "written" => r.status \in Active,
         charge[a] # NoCharge => r.staff = appts[a].staff /\ r.service = appts[a].service
  PROVE  \E t : RequestStep(h, t)
<1> DEFINE t == [op |-> op, pc |-> pc, id |-> a, row |-> r]
<1>1. t \in Txns /\ Fits(t)
  BY DEF Txns, Fits, Shape, Owns, Holding, Open, Creating
<1>2. ASSUME NEW g \in Handlers \ {h} PROVE Distinct(t, txn[g]) /\ Distinct(txn[g], t)
  BY DEF Distinct, Holding, Creating, RowFree
<1>3. txn' = [txn EXCEPT ![h] = t]
  BY DEF Becomes
<1> HIDE DEF t
<1> QED BY <1>1, <1>2, <1>3 DEF RequestStep

LEMMA MovedIsEdit ==
  ASSUME IInv, NEW a \in Ids, NEW s \in Staff, NEW u \in Times, appts[a].status \notin {"none", "cancelled"}
  PROVE  /\ Moved(a, s, u) \in Rows /\ EditOf(appts[a], Moved(a, s, u))
         /\ Moved(a, s, u).staff = s /\ Moved(a, s, u).service = appts[a].service /\ appts[a].service \in Services
<1>1. appts[a] \in Rows /\ appts[a].service \in Services
  BY DEF IInv, TypeOK
<1> QED BY <1>1 DEF Moved, Rows, EditOf

LEMMA EditSteps ==
  ASSUME IInv, NEW h \in Handlers, NEW a \in Ids,
         \/ \E s \in Staff, u \in Times : Reschedule(h, a, s, u) \/ CorrectTime(h, a, s, u)
         \/ \E v \in Services : ChangeService(h, a, v)
         \/ Confirm(h, a)
  PROVE  \E t : RequestStep(h, t)
<1>1. appts[a] \in Rows /\ (appts[a].status # "none" => appts[a].staff \in Staff /\ appts[a].service \in Services)
      /\ (charge[a] # NoCharge => appts[a].status = "completed")
  BY DEF IInv, TypeOK, Agreed, PaidIsCompleted
<1>2. ASSUME NEW s \in Staff, NEW u \in Times, Reschedule(h, a, s, u) \/ CorrectTime(h, a, s, u)
      PROVE \E t : RequestStep(h, t)
  <2>1. /\ RowFree(a) /\ enabled /\ UNCHANGED <<appts, charge, enabled>> /\ appts[a].status \notin {"none", "cancelled"}
        /\ Becomes(h, "move", "write", a, Moved(a, s, u)) /\ (charge[a] # NoCharge => s = appts[a].staff)
    BY <1>1, <1>2 DEF Reschedule, CorrectTime, Active
  <2> QED BY <2>1, MovedIsEdit, EditBegins
<1>3. ASSUME NEW v \in Services, ChangeService(h, a, v)
      PROVE \E t : RequestStep(h, t)
  <2> DEFINE r == [appts[a] EXCEPT !.service = v, !.asBooked = FALSE]
  <2>1. /\ RowFree(a) /\ enabled /\ UNCHANGED <<appts, charge, enabled>> /\ appts[a].status \in Active \cup {"completed"}
        /\ Becomes(h, "service", "write", a, r) /\ charge[a] = NoCharge
    BY <1>1, <1>3 DEF ChangeService, Active
  <2>2. r \in Rows /\ EditOf(appts[a], r) /\ r.staff \in Staff /\ r.service \in Services
    BY <1>1, <2>1 DEF Rows, EditOf, Active
  <2> HIDE DEF r
  <2> QED BY <2>1, <2>2, EditBegins
<1>4. CASE Confirm(h, a)
  <2> DEFINE r == [appts[a] EXCEPT !.status = "confirmed"]
  <2>1. /\ RowFree(a) /\ enabled /\ UNCHANGED <<appts, charge, enabled>> /\ appts[a].status = "scheduled"
        /\ Becomes(h, "confirm", "written", a, r)
    BY <1>4 DEF Confirm
  <2>2. r \in Rows /\ EditOf(appts[a], r) /\ r.staff = appts[a].staff /\ r.service = appts[a].service /\ r.status \in Active
    BY <1>1, <2>1 DEF Rows, EditOf, Active
  <2> HIDE DEF r
  <2> QED BY <1>1, <2>1, <2>2, EditBegins
<1> QED BY <1>2, <1>3, <1>4

LEMMA DraftSteps ==
  ASSUME IInv, NEW h \in Handlers, NEW a \in Ids, ReadForCharge(h, a)
  PROVE  \E t : RequestStep(h, t)
<1>1. appts[a] \in Rows /\ (appts[a].status # "none" => appts[a].staff \in Staff /\ appts[a].service \in Services)
  BY DEF IInv, TypeOK
<1>2. PICK op \in {"charge", "late"} :
        /\ appts[a].status \in Active \cup {"completed"} /\ (op = "late" => appts[a].status = "completed")
        /\ Becomes(h, op, "draft", a, appts[a]) /\ UNCHANGED <<appts, charge, enabled>>
  BY DEF ReadForCharge
<1> DEFINE t == [op |-> op, pc |-> "draft", id |-> a, row |-> appts[a]]
<1>3. t \in Txns /\ ~Open(t)
  BY <1>1 DEF Txns, Open
<1>4. Fits(t)
  BY <1>1, <1>2 DEF Fits, Shape, Owns, Holding, Open, Creating, Active
<1>5. txn' = [txn EXCEPT ![h] = t]
  BY <1>2 DEF Becomes
<1> HIDE DEF t
<1> QED BY <1>2, <1>3, <1>4, <1>5, ClosedStep

-----------------------------------------------------------------------------
(* How a row is written. *)

\* Nobody else holds the row a request holds.
LEMMA HeldIsLeft ==
  ASSUME IInv, NEW h \in Handlers, Holding(txn[h]), NEW g \in Handlers, g # h, NEW r,
         r.staff = txn[h].row.staff, r.key = txn[h].row.key, r.origin = txn[h].row.origin,
         appts[txn[h].id].status = "none" => Creating(txn[h])
  PROVE  LeavesRow(g, txn[h].id, r)
BY DEF IInv, Requesting, Distinct, LeavesRow, Holding, Open

LEMMA LockedIsLeft ==
  ASSUME IInv, NEW a \in Ids, RowFree(a), appts[a].status # "none", NEW g \in Handlers, NEW r
  PROVE  LeavesRow(g, a, r)
BY DEF RowFree, LeavesRow, Holding

\* A written version that is not excluded, and waits for no other, keeps clear of every committed row.
LEMMA FreeIsClear ==
  ASSUME IInv, NEW h \in Handlers, Writing(h), ~Excluded(h), \A g \in Handlers : ~WaitsFor(h, g),
         NEW b \in Ids \ {txn[h].id}, appts[b].status \in Active
  PROVE  ~Overlap(appts[b], txn[h].row)
<1>1. CASE Settled(b)
  BY <1>1 DEF Excluded
<1>2. CASE ~Settled(b)
  <2>1. PICK g \in Handlers : Writing(g) /\ txn[g].id = b
    BY <1>2 DEF Settled
  <2>2. appts[b] \in Versions(g) /\ g # h
    BY <2>1 DEF Versions
  <2> QED BY <2>1, <2>2 DEF WaitsFor
<1> QED BY <1>1, <1>2

LEMMA CommitSteps ==
  ASSUME IInv, NEW h \in Handlers, Commit(h)
  PROVE  \E a, r : RowStep(a, r)
<1> DEFINE a == txn[h].id
           r == txn[h].row
           c == Committed(r)
<1>1. /\ txn[h] \in Txns /\ r \in Rows /\ Fits(txn[h]) /\ Holding(txn[h]) /\ a \in Ids /\ appts[a] \in Rows
      /\ r.staff \in Staff /\ r.service \in Services /\ enabled /\ r.status \in Active
  BY DEF Commit, Writing, IInv, TypeOK, Requesting, Fits, Shape, Owns, Holding, Open, Txns
<1>2. /\ c \in Rows /\ c.staff = r.staff /\ c.service = r.service /\ c.start = r.start /\ c.key = r.key
      /\ c.origin = r.origin /\ c.asBooked = r.asBooked
      /\ c.status = IF r.origin = "past" /\ r.status = "scheduled" THEN "completed" ELSE r.status
  BY <1>1 DEF Committed, Rows, Terminal
<1>3. CASE Creating(txn[h])
  <2>1. appts[a].status = "none" /\ WithKey(r.key) = {} /\ r.status = "scheduled" /\ r.asBooked
        /\ (r.origin = "past" => \A b \in Ids : Registered(b) => ~Overlap(appts[b], r))
    BY <1>1, <1>3 DEF Fits, Shape, Owns, Open, Holding
  <2>2. RowChanges(appts[a], c)
    BY <1>2, <2>1 DEF RowChanges
  <2>3. KeepsClear(a, c)
    BY <1>2, <2>1, FreeIsClear DEF KeepsClear, Commit, Active, Overlap, Blocked
  <2>4. charge[a] = NoCharge
    BY <1>1, <2>1 DEF IInv, Agreed, PaidIsCompleted
  <2>5. \A g \in Handlers : LeavesRow(g, a, c) \/ txn'[g] = Idle
    BY <1>1, <1>2, <1>3, HeldIsLeft DEF Commit, Ends, IInv, TypeOK
  <2>6. appts' = [appts EXCEPT ![a] = c]
    BY DEF Commit
  <2> HIDE DEF c
  <2> QED BY <1>1, <1>2, <2>2, <2>3, <2>4, <2>5, <2>6 DEF RowStep, Commit, Ends
<1>4. CASE ~Creating(txn[h])
  <2>1. EditOf(appts[a], r) /\ (charge[a] # NoCharge => r.staff = appts[a].staff /\ r.service = appts[a].service)
    BY <1>1, <1>4 DEF Fits, Owns
  <2>2. r.origin # "past"
    BY <1>1, <2>1 DEF EditOf, IInv, Agreed, PastAreDone, Active
  <2>3. c = r
    BY <2>2 DEF Committed
  <2>4. RowChanges(appts[a], r) /\ appts[a].status # "none"
    BY <2>1 DEF RowChanges, EditOf
  <2>5. KeepsClear(a, r)
    BY <2>2, <2>4, FreeIsClear DEF KeepsClear, Commit
  <2>6. \A g \in Handlers : LeavesRow(g, a, r) \/ txn'[g] = Idle
    BY <1>1, <2>4, HeldIsLeft DEF Commit, Ends, IInv, TypeOK
  <2>7. appts' = [appts EXCEPT ![a] = r]
    BY <2>3 DEF Commit
  <2> HIDE DEF c
  <2> QED BY <1>1, <2>1, <2>4, <2>5, <2>6, <2>7 DEF RowStep, Commit, Ends
<1> QED BY <1>3, <1>4

LEMMA CloseSteps ==
  ASSUME IInv, NEW a \in Ids, NEW s \in Terminal, Close(a, s)
  PROVE  RowStep(a, [appts[a] EXCEPT !.status = s])
<1> DEFINE r == [appts[a] EXCEPT !.status = s]
<1>1. /\ appts[a] \in Rows /\ appts[a].status \in Active /\ appts[a].origin # "past" /\ charge[a] = NoCharge
      /\ appts[a].staff \in Staff /\ appts[a].service \in Services
  BY DEF Close, IInv, TypeOK, Agreed, PastAreDone, PaidIsCompleted, Active
<1>2. /\ r \in Rows /\ r.staff = appts[a].staff /\ r.service = appts[a].service /\ r.origin # "past"
      /\ r.status = s /\ s \notin Active
  BY <1>1 DEF Rows, Terminal, Active
<1>3. RowChanges(appts[a], r) /\ KeepsClear(a, r)
  BY <1>1, <1>2 DEF RowChanges, KeepsClear, Terminal, Active
<1>4. appts' = [appts EXCEPT ![a] = r] /\ UNCHANGED <<charge, txn, enabled>> /\ RowFree(a) /\ enabled
  <2>1. appts \in [Ids -> Rows]
    BY DEF IInv, TypeOK
  <2> QED BY <2>1 DEF Close
<1>5. \A g \in Handlers : LeavesRow(g, a, r)
  BY <1>1, <1>4, LockedIsLeft DEF Active
<1> HIDE DEF r
<1>6. RowStep(a, r)
  BY <1>1, <1>2, <1>3, <1>4, <1>5 DEF RowStep
<1> QED BY <1>6 DEF r

LEMMA WriteSteps ==
  ASSUME IInv, NEW h \in Handlers, WriteEdit(h)
  PROVE  (\E t : RequestStep(h, t)) \/ \E a, r : RowStep(a, r)
<1> DEFINE a == txn[h].id
           r == txn[h].row
<1>1. /\ txn[h] \in Txns /\ r \in Rows /\ Fits(txn[h]) /\ Holding(txn[h]) /\ ~Creating(txn[h]) /\ a \in Ids
      /\ r.staff \in Staff /\ r.service \in Services /\ enabled /\ EditOf(appts[a], r)
      /\ (charge[a] # NoCharge => r.staff = appts[a].staff /\ r.service = appts[a].service)
  BY DEF WriteEdit, IInv, TypeOK, Requesting, Fits, Shape, Owns, Holding, Open, Txns
<1>2. CASE r.status \in Active
  <2> DEFINE t == [op |-> txn[h].op, pc |-> "written", id |-> a, row |-> r]
  <2>1. txn' = [txn EXCEPT ![h] = t] /\ UNCHANGED <<appts, charge, enabled>>
    BY <1>2, GoesOn DEF WriteEdit
  <2>2. t \in Txns /\ Fits(t)
    BY <1>1, <1>2 DEF Txns, Fits, Shape, Owns, Holding, Open, Creating
  <2>3. \A g \in Handlers \ {h} : Distinct(t, txn[g]) /\ Distinct(txn[g], t)
    BY <1>1 DEF IInv, Requesting, Distinct, Holding, Open, Creating
  <2> HIDE DEF t
  <2> QED BY <2>1, <2>2, <2>3 DEF RequestStep
<1>3. CASE r.status \notin Active
  <2>1. appts' = [appts EXCEPT ![a] = r] /\ txn' = [txn EXCEPT ![h] = Idle] /\ UNCHANGED <<charge, enabled>>
    BY <1>3 DEF WriteEdit, Ends
  <2>2. RowChanges(appts[a], r) /\ appts[a].status # "none"
    BY <1>1 DEF RowChanges, EditOf
  <2>3. r.origin = "past" => r.status = "completed"
    BY <1>1 DEF EditOf, IInv, Agreed, PastAreDone
  <2>4. KeepsClear(a, r)
    BY <1>3, <2>2, <2>3 DEF KeepsClear
  <2>5. \A g \in Handlers : LeavesRow(g, a, r) \/ txn'[g] = Idle
    BY <1>1, <2>1, <2>2, HeldIsLeft DEF IInv, TypeOK
  <2> QED BY <1>1, <2>1, <2>2, <2>4, <2>5 DEF RowStep
<1> QED BY <1>2, <1>3

LEMMA ConflictSteps ==
  ASSUME IInv, NEW h \in Handlers, ConflictSlot(h) \/ DeadlockVictim(h)
  PROVE  \E t : RequestStep(h, t)
<1>1. Writing(h) /\ ConflictAnswer(h) /\ UNCHANGED <<appts, charge, enabled>>
  BY DEF ConflictSlot, DeadlockVictim, InCycle, WaitInCircle, WaitsFor
<1>2. txn[h].op = "create" => Asked(txn[h].row)
  BY <1>1 DEF IInv, TypeOK, Requesting, Fits, Shape, Creating, Asked, Txns, Writing
<1> QED BY <1>1, <1>2, EndsStep, RefusesStep DEF ConflictAnswer

LEMMA ChargeSteps ==
  ASSUME IInv, NEW h \in Handlers, CompleteWithPayment(h) \/ RecordPaymentForCompleted(h)
  PROVE  \/ \E t : RequestStep(h, t)
         \/ \E a, r : RowStep(a, r)
         \/ \E a, c : ChargeStep(a, c)
<1> DEFINE a == txn[h].id
           c == [service |-> txn[h].row.service, staff |-> txn[h].row.staff]
<1>1. /\ txn[h] \in Txns /\ Fits(txn[h]) /\ a \in Ids /\ RowFree(a) /\ appts[a].status # "none"
      /\ c \in [service : Services \cup {"none"}, staff : Staff \cup {"none"}]
      /\ appts[a] \in Rows /\ appts[a].staff \in Staff /\ appts[a].service \in Services
      /\ (txn[h].op = "late" => appts[a].status = "completed") /\ txn' = [txn EXCEPT ![h] = Idle]
  BY DEF CompleteWithPayment, RecordPaymentForCompleted, IInv, TypeOK, Requesting, Fits, Shape, Txns, Rows, Ends
<1>2. CASE CompleteWithPayment(h) /\ appts' # appts
  <2> DEFINE r == [appts[a] EXCEPT !.status = "completed"]
  <2>1. appts' = [appts EXCEPT ![a] = r] /\ charge' = [charge EXCEPT ![a] = c]
        /\ enabled /\ UNCHANGED enabled /\ appts[a].status \in Active
    <3>1. appts \in [Ids -> Rows]
      BY DEF IInv, TypeOK
    <3> QED BY <1>2, <3>1 DEF CompleteWithPayment, Charged
  <2>2. /\ r \in Rows /\ r.staff = appts[a].staff /\ r.service = appts[a].service /\ r.origin = appts[a].origin
        /\ r.status = "completed"
    BY <1>1 DEF Rows, Terminal
  <2>3. RowChanges(appts[a], r) /\ KeepsClear(a, r)
    BY <1>1, <2>1, <2>2 DEF RowChanges, KeepsClear, Active
  <2>4. \A g \in Handlers : LeavesRow(g, a, r)
    BY <1>1, LockedIsLeft
  <2> HIDE DEF r, c
  <2> QED BY <1>1, <2>1, <2>2, <2>3, <2>4 DEF RowStep
<1>3. CASE RecordPaymentForCompleted(h) /\ charge' # charge
  <2>1. charge' = [charge EXCEPT ![a] = c] /\ UNCHANGED <<appts, enabled>> /\ txn[h].op = "late"
    BY <1>3 DEF RecordPaymentForCompleted, Charged
  <2>2. \A g \in Handlers : Holding(txn[g]) => txn[g].id # a
    BY <1>1 DEF RowFree, Holding
  <2> HIDE DEF c
  <2> QED BY <1>1, <2>1, <2>2 DEF ChargeStep
<1>4. CASE (CompleteWithPayment(h) /\ appts' = appts) \/ (RecordPaymentForCompleted(h) /\ charge' = charge)
  <2>1. Ends(h) /\ UNCHANGED <<appts, charge, enabled>>
    <3>1. CASE CompleteWithPayment(h) /\ appts' = appts
      <4>1. CASE UNCHANGED charge
        BY <3>1, <4>1 DEF CompleteWithPayment
      <4>2. CASE charge' # charge
        <5>1. appts[a].status \in Active /\ appts'[a].status = "completed"
          BY <1>1, <3>1, <4>2 DEF CompleteWithPayment, IInv, TypeOK, Rows
        <5> QED BY <3>1, <5>1 DEF Active
      <4> QED BY <4>1, <4>2
    <3>2. CASE RecordPaymentForCompleted(h) /\ charge' = charge
      BY <3>2 DEF RecordPaymentForCompleted
    <3> QED BY <1>4, <3>1, <3>2
  <2> QED BY <2>1, EndsStep
<1> QED BY <1>2, <1>3, <1>4

LEMMA NextSteps == IInv /\ Next => Steps
<1> SUFFICES ASSUME IInv, Next PROVE Steps
  OBVIOUS
<1>1. ASSUME NEW h \in Handlers, Starts(h) PROVE now' \in Times /\ \E t : RequestStep(h, t)
  <2>1. now' = now
    BY <1>1 DEF Starts, CheckKey, Reschedule, CorrectTime, ChangeService, Confirm, ReadForCharge
  <2> QED BY <1>1, <2>1, PlanSteps, EditSteps, DraftSteps DEF Starts, IInv, TypeOK
<1>2. ASSUME NEW h \in Handlers, Continue(h) \/ Dies(h) PROVE Steps
  <2>1. now' = now
    BY <1>2 DEF Continue, Plan, Begin, BeginOff, BeginPast, BeginPublic, BeginAgent, InsertAppointment, ReplayAfterRace, Refuse,
                WriteEdit, Finish, Commit, ConflictSlot, DeadlockVictim, CompleteWithPayment, RecordPaymentForCompleted, Dies
  <2>2. CASE Plan(h) \/ BeginOff(h) \/ ReplayAfterRace(h) \/ Refuse(h) \/ Dies(h)
    BY <2>1, <2>2, PlanSteps DEF Steps, IInv, TypeOK
  <2>3. CASE BeginPast(h) \/ BeginPublic(h) \/ BeginAgent(h)
    BY <2>1, <2>3, BeginSteps DEF Steps, IInv, TypeOK
  <2>4. CASE InsertAppointment(h)
    BY <2>1, <2>4, InsertSteps DEF Steps, IInv, TypeOK
  <2>5. CASE WriteEdit(h)
    BY <2>1, <2>5, WriteSteps DEF Steps, IInv, TypeOK
  <2>6. CASE Commit(h)
    BY <2>1, <2>6, CommitSteps DEF Steps, IInv, TypeOK
  <2>7. CASE ConflictSlot(h) \/ DeadlockVictim(h)
    BY <2>1, <2>7, ConflictSteps DEF Steps, IInv, TypeOK
  <2>8. CASE CompleteWithPayment(h) \/ RecordPaymentForCompleted(h)
    BY <2>1, <2>8, ChargeSteps DEF Steps, IInv, TypeOK
  <2> QED BY <1>2, <2>2, <2>3, <2>4, <2>5, <2>6, <2>7, <2>8 DEF Continue, Begin, Finish
<1>3. ASSUME NEW a \in Ids, NEW s \in Terminal, Close(a, s) PROVE Steps
  <2>1. \E r : RowStep(a, r)
    BY <1>3, CloseSteps
  <2> QED BY <1>3, <2>1 DEF Steps, Close, IInv, TypeOK
<1>4. ASSUME NEW a \in Ids, VoidPayment(a) PROVE Steps
  <2>1. ChargeStep(a, NoCharge)
    BY <1>4 DEF VoidPayment, ChargeStep, NoCharge
  <2> QED BY <1>4, <2>1 DEF Steps, VoidPayment, IInv, TypeOK
<1>5. CASE SwitchModule
  BY <1>5 DEF SwitchModule, Steps, SwitchStep, IInv, TypeOK
<1>6. CASE Tick
  BY <1>6, BoundsAssumption DEF Tick, Steps, IInv, TypeOK, Times
<1> QED BY <1>1, <1>2, <1>3, <1>4, <1>5, <1>6 DEF Next, Steps

LEMMA StutterSteps == IInv /\ UNCHANGED vars => Steps
  BY DEF vars, Steps, IInv, TypeOK

LEMMA Invariance == Spec => []IInv
<1>1. Init => IInv
  BY InitHolds
<1>2. IInv /\ [Next]_vars => IInv'
  BY NextSteps, StutterSteps, StepsKeep
<1> QED BY <1>1, <1>2, PTL DEF Spec

-----------------------------------------------------------------------------
(* Every table keeps to its columns. *)
THEOREM TypesHold == Spec => []TypeOK
BY Invariance, PTL DEF IInv

(* Attendances written down afterwards for one professional stay apart: of two   *)
(* registrations only one is past the lock of the professional, and the second   *)
(* reads what the first committed (booking.ts:340-356).                          *)
THEOREM PastWalkInsStayApart == Spec => []PastWalkInsApart
BY Invariance, PTL DEF IInv, Agreed

(* Only a completed appointment carries a payment (payments.ts:246, :304). *)
THEOREM PaidOnlyCompleted == Spec => []PaidIsCompleted
BY Invariance, PTL DEF IInv, Agreed

\* What an edit in flight may write on a charged row is what it was charged for.
LEMMA StepKeepsCharged ==
  ASSUME IInv, Steps, NEW a \in Ids, charge[a] # NoCharge, charge'[a] = charge[a]
  PROVE  appts'[a].service = appts[a].service /\ appts'[a].staff = appts[a].staff
<1>1. ASSUME NEW b, NEW r, RowStep(b, r)
      PROVE appts'[a].service = appts[a].service /\ appts'[a].staff = appts[a].staff
  <2>1. b \in Ids /\ appts' = [appts EXCEPT ![b] = r] /\ appts \in [Ids -> Rows] /\ appts[a].status = "completed"
    BY <1>1 DEF RowStep, IInv, TypeOK, Agreed, PaidIsCompleted
  <2>2. CASE b # a
    BY <2>1, <2>2
  <2>3. CASE b = a
    BY <1>1, <2>1, <2>3 DEF RowStep, Active
  <2> QED BY <2>2, <2>3
<1>2. CASE UNCHANGED appts
  BY <1>2
<1> QED BY <1>1, <1>2 DEF Steps, RequestStep, ChargeStep, SwitchStep

(* While its payment stands, an appointment keeps the service and the professional *)
(* it was charged for (booking.ts:1013, :1127).                                    *)
THEOREM PaidStays == Spec => PaidStaysAsCharged
<1>1. IInv /\ [Next]_vars
        => [\A a \in Ids : charge[a] # NoCharge /\ charge'[a] = charge[a]
              => appts'[a].service = appts[a].service /\ appts'[a].staff = appts[a].staff]_vars
  BY NextSteps, StutterSteps, StepKeepsCharged
<1> QED BY <1>1, Invariance, PTL DEF Spec, PaidStaysAsCharged

\* The written row, seen by the agenda.
LEMMA RowIsAgendaStep ==
  ASSUME IInv, IInv', NEW a, NEW r, RowStep(a, r)
  PROVE  AbstractAgenda!AgendaStep
<1>1. /\ a \in Ids /\ r \in Rows /\ appts \in [Ids -> Rows] /\ appts' = [appts EXCEPT ![a] = r] /\ enabled
      /\ enabled' = enabled /\ RowChanges(appts[a], r)
  BY DEF RowStep, IInv, TypeOK
<1>2. appts'[a] = r /\ \A b \in Ids \ {a} : appts'[b] = appts[b]
  BY <1>1
<1>3. appts[a] \in Rows
  BY <1>1
<1>4. AbstractAgenda!Books(appts[a], r) \/ AbstractAgenda!Follows(appts[a], r) \/ AbstractAgenda!Moves(appts[a], r)
  <2>1. CASE appts[a].status = "none"
    BY <1>1, <2>1 DEF RowChanges, EditOf, Active, AbstractAgenda!Books
  <2>2. CASE EditOf(appts[a], r)
    BY <1>1, <1>3, <2>2 DEF EditOf, Rows, AbstractAgenda!Follows, AbstractAgenda!Moves, AbstractAgenda!Active
  <2>3. CASE ~EditOf(appts[a], r) /\ appts[a].status # "none"
    BY <1>1, <2>3 DEF RowChanges, Active, AbstractAgenda!Follows, AbstractAgenda!Active
  <2> QED BY <2>1, <2>2, <2>3
<1>5. AbstractAgenda!Apart'
  BY DEF IInv, Agreed, ActiveApart, Active, Overlap, Blocked,
         AbstractAgenda!Apart, AbstractAgenda!Active, AbstractAgenda!Overlap, AbstractAgenda!Blocked
<1>6. AbstractAgenda!KeyNamesOne'
  BY DEF IInv, Agreed, OneKeyEach, AbstractAgenda!KeyNamesOne
<1> QED BY <1>1, <1>2, <1>4, <1>5, <1>6 DEF AbstractAgenda!AgendaStep

(* Booking implements the agenda: whatever requests meet, rows are written one at  *)
(* a time, along the lifecycle, while scheduling is on, no professional is booked   *)
(* twice at once and no key names two appointments.                                 *)
THEOREM AgendaIsKept == Spec => AgendaSpec
<1>1. Init => AbstractAgenda!AgendaInit
  BY DEF Init, NoRow, AbstractAgenda!AgendaInit
<1>2. IInv /\ IInv' /\ [Next]_vars
        => [AbstractAgenda!AgendaStep \/ AbstractAgenda!Switches]_<<appts, enabled>>
  <2> SUFFICES ASSUME IInv, IInv', [Next]_vars
               PROVE  [AbstractAgenda!AgendaStep \/ AbstractAgenda!Switches]_<<appts, enabled>>
    OBVIOUS
  <2>1. Steps
    BY NextSteps, StutterSteps
  <2>2. CASE \E a, r : RowStep(a, r)
    BY <2>2, RowIsAgendaStep
  <2>3. CASE UNCHANGED appts
    BY <2>3 DEF AbstractAgenda!Switches
  <2> QED BY <2>1, <2>2, <2>3 DEF Steps, RequestStep, ChargeStep, SwitchStep
<1> QED BY <1>1, <1>2, Invariance, PTL DEF Spec, AgendaSpec, AbstractAgenda!AgendaSpec

-----------------------------------------------------------------------------
(* The cap of the public page: a creation past the lock of the phone counted     *)
(* fewer than the cap, it is alone there, and the count only falls until it       *)
(* commits.                                                                       *)
Public(h) == CreatesAs(h, "public")
CapInv ==
  /\ CapHolds
  /\ \A h \in Handlers : Public(h) => Cardinality(PublicOnes) < Cap
  /\ \A g, h \in Handlers : Public(g) /\ Public(h) => g = h

LEMMA CountsAreFinite ==
  /\ IsFiniteSet(ActiveFuture) /\ Cardinality(ActiveFuture) \in Nat
  /\ IsFiniteSet(PublicOnes) /\ Cardinality(PublicOnes) \in Nat
  /\ Cardinality(PublicOnes) <= Cardinality(ActiveFuture)
<1>1. PublicOnes \subseteq ActiveFuture /\ ActiveFuture \subseteq Ids
  BY DEF PublicOnes, ActiveFuture
<1>2. IsFiniteSet(ActiveFuture) /\ Cardinality(ActiveFuture) \in Nat
  BY <1>1, IdsAssumption, FS_Subset, FS_CardinalityType
<1> QED BY <1>1, <1>2, FS_Subset, FS_CardinalityType

\* A step that brings no public booking, and no creation past the lock of the phone.
Quiet ==
  /\ PublicOnes' \subseteq PublicOnes
  /\ \A g \in Handlers : Public(g)' => Public(g)

LEMMA QuietKeeps == CapInv /\ Quiet => CapInv'
<1> SUFFICES ASSUME CapInv, Quiet PROVE CapInv'
  OBVIOUS
<1>1. Cardinality(PublicOnes') \in Nat /\ Cardinality(PublicOnes') <= Cardinality(PublicOnes)
  BY CountsAreFinite, FS_Subset, FS_CardinalityType DEF Quiet
<1>2. Cardinality(PublicOnes) \in Nat
  BY CountsAreFinite
<1>3. CapHolds'
  BY <1>1, <1>2, BoundsAssumption DEF CapInv, CapHolds
<1>4. \A h \in Handlers : Public(h)' => Cardinality(PublicOnes') < Cap
  BY <1>1, <1>2, BoundsAssumption DEF CapInv, Quiet
<1> QED BY <1>3, <1>4 DEF CapInv, Quiet

\* While rows and clock stay, one request moves.
LEMMA RequestIsQuiet ==
  ASSUME IInv, NEW h \in Handlers, NEW t, txn' = [txn EXCEPT ![h] = t], UNCHANGED <<appts, now>>,
         t.op = "create" /\ Open(t) /\ t.row.origin = "public" => Public(h)
  PROVE  Quiet
<1>1. PublicOnes' = PublicOnes
  BY DEF PublicOnes, ActiveFuture
<1>2. \A g \in Handlers : Public(g)' => Public(g)
  BY DEF IInv, TypeOK, Public, CreatesAs, InTx, Open
<1> QED BY <1>1, <1>2 DEF Quiet

\* A row that exists is written.
LEMMA RowIsQuiet ==
  ASSUME IInv, NEW a \in Ids, NEW r \in Rows, RowChanges(appts[a], r), appts[a].status # "none",
         appts' = [appts EXCEPT ![a] = r], now' = now,
         \/ UNCHANGED txn
         \/ \E h \in Handlers : txn' = [txn EXCEPT ![h] = Idle]
  PROVE  Quiet
<1>1. appts \in [Ids -> Rows] /\ appts[a] \in Rows /\ appts'[a] = r /\ \A b \in Ids \ {a} : appts'[b] = appts[b]
  BY DEF IInv, TypeOK
<1>2. r.status \in Active /\ r.asBooked => r = [appts[a] EXCEPT !.status = "confirmed"] /\ appts[a].status = "scheduled"
  BY <1>1 DEF RowChanges, EditOf, Active
<1>3. PublicOnes' \subseteq PublicOnes
  BY <1>1, <1>2 DEF PublicOnes, ActiveFuture, Active, Rows
<1>4. \A g \in Handlers : Public(g)' => Public(g)
  BY DEF IInv, TypeOK, Public, CreatesAs, InTx, Idle
<1> QED BY <1>3, <1>4 DEF Quiet

LEMMA BeginKeepsCap ==
  ASSUME IInv, CapInv, NEW h \in Handlers, BeginPublic(h)
  PROVE  CapInv'
<1>1. CASE Cardinality(ActiveFuture) >= Cap /\ Refuses(h, txn[h].row)
  <2>1. CASE txn' = [txn EXCEPT ![h] = Idle]
    <3>1. ~Open(Idle)
      BY DEF Open, Idle
    <3> QED BY <2>1, <3>1, RequestIsQuiet, QuietKeeps DEF BeginPublic
  <2>2. CASE Becomes(h, "create", "refused", "none", txn[h].row)
    <3> DEFINE t == [op |-> "create", pc |-> "refused", id |-> "none", row |-> txn[h].row]
    <3>1. ~Open(t) /\ txn' = [txn EXCEPT ![h] = t]
      BY <2>2 DEF Open, Becomes
    <3> HIDE DEF t
    <3> QED BY <3>1, RequestIsQuiet, QuietKeeps DEF BeginPublic
  <2> QED BY <1>1, <2>1, <2>2 DEF Refuses, Ends
<1>2. CASE Cardinality(ActiveFuture) < Cap /\ Goes(h, "insert")
  <2>1. PublicOnes' = PublicOnes
    BY DEF PublicOnes, ActiveFuture, BeginPublic
  <2>2. \A g \in Handlers : ~Public(g)
    BY DEF BeginPublic, PhoneLockFree, Public
  <2>3. \A g \in Handlers : Public(g)' => g = h
    BY <1>2, <2>2 DEF Goes, Public, CreatesAs, InTx, IInv, TypeOK
  <2>4. Cardinality(PublicOnes) < Cap
    BY <1>2, CountsAreFinite, BoundsAssumption
  <2> QED BY <2>1, <2>3, <2>4 DEF CapInv, CapHolds
<1> QED BY <1>1, <1>2 DEF BeginPublic

LEMMA CommitKeepsCap ==
  ASSUME IInv, CapInv, NEW h \in Handlers, Commit(h)
  PROVE  CapInv'
<1> DEFINE a == txn[h].id
           r == txn[h].row
           c == Committed(r)
<1>1. /\ txn[h] \in Txns /\ r \in Rows /\ Fits(txn[h]) /\ Holding(txn[h]) /\ a \in Ids /\ appts[a] \in Rows
      /\ r.status \in Active
  BY DEF Commit, Writing, IInv, TypeOK, Requesting, Fits, Shape, Owns, Holding, Open, Txns
<1>2. /\ c \in Rows /\ c.origin = r.origin
      /\ c.origin # "past" => c = r
  BY <1>1 DEF Committed, Rows, Terminal
<1>3. appts' = [appts EXCEPT ![a] = c] /\ now' = now /\ txn' = [txn EXCEPT ![h] = Idle]
  BY DEF Commit, Ends
<1>4. \A g \in Handlers : Public(g)' => Public(g) /\ g # h
  BY <1>3 DEF IInv, TypeOK, Public, CreatesAs, InTx, Idle
<1>5. CASE ~Creating(txn[h])
  <2>1. EditOf(appts[a], r)
    BY <1>1, <1>5 DEF Fits, Owns
  <2>2. c = r
    BY <1>1, <1>2, <2>1 DEF EditOf, IInv, Agreed, PastAreDone, Active
  <2>3. RowChanges(appts[a], c) /\ appts[a].status # "none"
    BY <2>1, <2>2 DEF RowChanges, EditOf
  <2> HIDE DEF a, c
  <2>4. Quiet
    BY <1>1, <1>2, <1>3, <2>3, RowIsQuiet
  <2> QED BY <2>4, QuietKeeps
<1>6. CASE Creating(txn[h]) /\ r.origin # "public"
  <2>1. PublicOnes' \subseteq PublicOnes
    BY <1>1, <1>2, <1>3, <1>6 DEF PublicOnes, ActiveFuture, IInv, TypeOK
  <2> QED BY <1>4, <2>1, QuietKeeps DEF Quiet
<1>7. CASE Creating(txn[h]) /\ r.origin = "public"
  <2>1. Public(h)
    BY <1>1, <1>7 DEF Public, CreatesAs, Creating, InTx, Holding
  <2>2. Cardinality(PublicOnes) < Cap /\ \A g \in Handlers : ~Public(g)'
    BY <1>4, <2>1 DEF CapInv
  <2>3. PublicOnes' \subseteq PublicOnes \cup {a}
    BY <1>1, <1>2, <1>3 DEF PublicOnes, ActiveFuture, IInv, TypeOK
  <2>4. IsFiniteSet(PublicOnes \cup {a}) /\ Cardinality(PublicOnes \cup {a}) <= Cardinality(PublicOnes) + 1
    <3>1. IsFiniteSet(PublicOnes) /\ Cardinality(PublicOnes) \in Nat
      BY CountsAreFinite, FS_CardinalityType
    <3> QED BY <3>1, FS_AddElement
  <2>5. Cardinality(PublicOnes') \in Nat /\ Cardinality(PublicOnes') <= Cardinality(PublicOnes \cup {a})
    BY <2>3, <2>4, FS_Subset, FS_CardinalityType
  <2>6. CapHolds'
    BY <2>2, <2>4, <2>5, CountsAreFinite, FS_CardinalityType, BoundsAssumption DEF CapHolds
  <2> QED BY <2>2, <2>6 DEF CapInv
<1> QED BY <1>5, <1>6, <1>7

LEMMA StepKeepsCap == IInv /\ CapInv /\ [Next]_vars => CapInv'
<1> SUFFICES ASSUME IInv, CapInv, [Next]_vars PROVE CapInv'
  OBVIOUS
<1>0. ASSUME NEW h \in Handlers, NEW t, txn' = [txn EXCEPT ![h] = t], UNCHANGED <<appts, now>>,
             t.op = "create" /\ Open(t) /\ t.row.origin = "public" => Public(h)
      PROVE  CapInv'
  BY <1>0, RequestIsQuiet, QuietKeeps
<1>a. ASSUME NEW h \in Handlers, NEW pc, Goes(h, pc), UNCHANGED <<appts, now>>,
             pc \in {"begin", "replay"} \/ txn[h].op # "create"
      PROVE  CapInv'
  <2>1. txn' = [txn EXCEPT ![h] = [txn[h] EXCEPT !.pc = pc]] /\ txn[h] \in Txns
    BY <1>a DEF Goes, IInv, TypeOK
  <2> QED BY <1>0, <1>a, <2>1 DEF Open, Txns
<1>b. ASSUME NEW h \in Handlers, NEW op, NEW pc, NEW a, NEW r, Becomes(h, op, pc, a, r), UNCHANGED <<appts, now>>,
             op # "create" \/ pc = "refused" \/ pc = "plan"
      PROVE  CapInv'
  BY <1>0, <1>b DEF Becomes, Open
<1>c. ASSUME NEW h \in Handlers, Ends(h), UNCHANGED <<appts, now>> PROVE CapInv'
  BY <1>0, <1>c DEF Ends, Open, Idle
<1>d. ASSUME NEW h \in Handlers, NEW r, Refuses(h, r), UNCHANGED <<appts, now>> PROVE CapInv'
  BY <1>b, <1>c, <1>d DEF Refuses
<1>e. ASSUME NEW h \in Handlers, NEW r, ReplayOrConflict(h, r), UNCHANGED <<appts, now>> PROVE CapInv'
  BY <1>c, <1>d, <1>e DEF ReplayOrConflict
<1>1. ASSUME NEW h \in Handlers, Starts(h) PROVE CapInv'
  <2>1. ASSUME NEW q, CheckKey(h, q) PROVE CapInv'
    BY <2>1, <1>b, <1>e DEF CheckKey
  <2>2. ASSUME NEW a, NEW s, NEW t, Reschedule(h, a, s, t) \/ CorrectTime(h, a, s, t) PROVE CapInv'
    BY <2>2, <1>b DEF Reschedule, CorrectTime
  <2>3. ASSUME NEW a, NEW v, ChangeService(h, a, v) PROVE CapInv'
    BY <2>3, <1>b DEF ChangeService
  <2>4. ASSUME NEW a, Confirm(h, a) \/ ReadForCharge(h, a) PROVE CapInv'
    BY <2>4, <1>b DEF Confirm, ReadForCharge
  <2> QED BY <1>1, <2>1, <2>2, <2>3, <2>4 DEF Starts
<1>2. ASSUME NEW h \in Handlers, Plan(h) \/ BeginOff(h) \/ BeginPast(h) \/ BeginAgent(h) PROVE CapInv'
  <2>1. CASE Goes(h, "insert") /\ UNCHANGED <<appts, now>> /\ txn[h].row.origin # "public"
    <3>1. txn' = [txn EXCEPT ![h] = [txn[h] EXCEPT !.pc = "insert"]] /\ txn[h] \in Txns
      BY <2>1 DEF Goes, IInv, TypeOK
    <3> QED BY <1>0, <2>1, <3>1 DEF Txns
  <2> QED BY <1>2, <1>a, <1>c, <1>d, <1>e, <2>1 DEF Plan, BeginOff, BeginPast, BeginAgent
<1>3. ASSUME NEW h \in Handlers, InsertAppointment(h) \/ ReplayAfterRace(h) \/ Refuse(h) \/ Dies(h) PROVE CapInv'
  <2>1. CASE (\E a \in Ids : Becomes(h, "create", "written", a, txn[h].row)) /\ txn[h].pc \in {"insert", "key"}
             /\ UNCHANGED <<appts, now>>
    <3>1. txn[h].op = "create" /\ InTx(h)
      BY <2>1 DEF IInv, Requesting, Fits, Shape, Creating, InTx
    <3> QED BY <1>0, <2>1, <3>1 DEF Becomes, Public, CreatesAs
  <2>2. CASE Goes(h, "key") /\ txn[h].pc = "insert" /\ UNCHANGED <<appts, now>>
    <3>1. txn' = [txn EXCEPT ![h] = [txn[h] EXCEPT !.pc = "key"]] /\ txn[h] \in Txns
      BY <2>2 DEF Goes, IInv, TypeOK
    <3>2. txn[h].op = "create" /\ InTx(h)
      BY <2>2 DEF IInv, Requesting, Fits, Shape, Creating, InTx
    <3> QED BY <1>0, <2>2, <3>1, <3>2 DEF Public, CreatesAs, Txns
  <2> QED BY <1>3, <1>a, <1>c, <1>e, <2>1, <2>2 DEF InsertAppointment, ReplayAfterRace, Refuse, Dies
<1>4. ASSUME NEW h \in Handlers, WriteEdit(h) PROVE CapInv'
  <2>1. /\ txn[h] \in Txns /\ txn[h].id \in Ids /\ txn[h].row \in Rows /\ ~Creating(txn[h])
        /\ EditOf(appts[txn[h].id], txn[h].row) /\ now' = now
    BY <1>4 DEF WriteEdit, IInv, TypeOK, Requesting, Fits, Shape, Owns, Holding, Txns
  <2>2. CASE Goes(h, "written") /\ UNCHANGED appts
    BY <1>a, <2>1, <2>2 DEF Creating
  <2>3. CASE appts' = [appts EXCEPT ![txn[h].id] = txn[h].row] /\ Ends(h)
    <3>1. RowChanges(appts[txn[h].id], txn[h].row) /\ appts[txn[h].id].status # "none"
      BY <2>1 DEF RowChanges, EditOf
    <3> QED BY <2>1, <2>3, <3>1, RowIsQuiet, QuietKeeps DEF Ends
  <2> QED BY <1>4, <2>2, <2>3 DEF WriteEdit
<1>5. ASSUME NEW h \in Handlers, ConflictSlot(h) \/ DeadlockVictim(h) PROVE CapInv'
  BY <1>5, <1>c, <1>d DEF ConflictSlot, DeadlockVictim, ConflictAnswer
<1>6. ASSUME NEW h \in Handlers, CompleteWithPayment(h) \/ RecordPaymentForCompleted(h) PROVE CapInv'
  <2>1. CASE UNCHANGED appts
    BY <1>6, <1>c, <2>1 DEF CompleteWithPayment, RecordPaymentForCompleted
  <2>2. CASE appts' = [appts EXCEPT ![txn[h].id].status = "completed"] /\ appts[txn[h].id].status \in Active
             /\ Ends(h) /\ now' = now /\ txn[h].pc = "draft"
    <3> DEFINE a == txn[h].id
               r == [appts[a] EXCEPT !.status = "completed"]
    <3>1. a \in Ids /\ appts[a] \in Rows /\ r \in Rows /\ appts' = [appts EXCEPT ![a] = r]
      BY <2>2 DEF IInv, TypeOK, Requesting, Fits, Shape, Rows, Terminal
    <3>2. RowChanges(appts[a], r) /\ appts[a].status # "none"
      BY <2>2, <3>1 DEF RowChanges, Active, Rows
    <3> HIDE DEF a, r
    <3> QED BY <2>2, <3>1, <3>2, RowIsQuiet, QuietKeeps DEF Ends
  <2> QED BY <1>6, <2>1, <2>2 DEF CompleteWithPayment, RecordPaymentForCompleted
<1>7. ASSUME NEW a \in Ids, NEW s \in Terminal, Close(a, s) PROVE CapInv'
  <2> DEFINE r == [appts[a] EXCEPT !.status = s]
  <2>1. appts[a] \in Rows /\ r \in Rows /\ appts' = [appts EXCEPT ![a] = r] /\ UNCHANGED <<txn, now>>
    BY <1>7 DEF Close, IInv, TypeOK, Rows
  <2>2. RowChanges(appts[a], r) /\ appts[a].status # "none"
    BY <1>7, <2>1 DEF Close, RowChanges, Active, Terminal, Rows
  <2> HIDE DEF r
  <2> QED BY <2>1, <2>2, RowIsQuiet, QuietKeeps
<1>8. CASE Tick
  <2>1. PublicOnes' \subseteq PublicOnes
    BY <1>8, BoundsAssumption DEF Tick, PublicOnes, ActiveFuture, IInv, TypeOK, Rows, Times
  <2>2. \A g \in Handlers : Public(g)' => Public(g)
    BY <1>8 DEF Tick, Public, CreatesAs, InTx
  <2> QED BY <2>1, <2>2, QuietKeeps DEF Quiet
<1>9. CASE UNCHANGED <<appts, txn, now>>
  BY <1>9, QuietKeeps DEF Quiet, PublicOnes, ActiveFuture, Public, CreatesAs, InTx
<1>10. ASSUME NEW a \in Ids, VoidPayment(a) PROVE CapInv'
  BY <1>9, <1>10 DEF VoidPayment
<1>11. CASE SwitchModule \/ UNCHANGED vars
  BY <1>9, <1>11 DEF SwitchModule, vars
<1> QED
  BY <1>1, <1>2, <1>3, <1>4, <1>5, <1>6, <1>7, <1>8, <1>10, <1>11, BeginKeepsCap, CommitKeepsCap
     DEF Next, Continue, Begin, Finish

(* The public page never gives a phone more upcoming bookings than the cap, for any   *)
(* cap and any number of requests at once (booking.ts:358-372): the lock of the phone *)
(* makes the count of one request see the booking of the other.                       *)
THEOREM TheCapHolds == Spec => []CapHolds
<1>1. Init => CapInv
  <2> SUFFICES ASSUME Init PROVE CapInv
    OBVIOUS
  <2>1. PublicOnes = {}
    BY DEF Init, NoRow, PublicOnes, ActiveFuture, Active
  <2>2. \A h \in Handlers : ~Public(h)
    BY DEF Init, Idle, Public, CreatesAs, InTx
  <2> QED BY <2>1, <2>2, FS_EmptySet, BoundsAssumption DEF CapInv, CapHolds
<1>2. IInv /\ CapInv /\ [Next]_vars => CapInv'
  BY StepKeepsCap
<1>3. CapInv => CapHolds
  BY DEF CapInv
<1> QED BY <1>1, <1>2, <1>3, Invariance, PTL DEF Spec

-----------------------------------------------------------------------------
(* Liveness: every request ends. StepsAreEnabled stays a hypothesis, which TLC checks, as  *)
(* ENABLED is beyond the provers. First how a request moves: forward, and into a lock only *)
(* when it is free.                                                                        *)

Later(p, q) ==
  \/ p = "plan" /\ q \in {"begin", "refused"}
  \/ p = "begin" /\ q \in {"insert", "refused"}
  \/ p = "insert" /\ q \in {"key", "replay", "written"}
  \/ p = "key" /\ q \in {"replay", "written"}
  \/ p = "write" /\ q = "written"
  \/ p \in {"replay", "written"} /\ q = "refused"

Locking(t) == t.pc = "key" \/ (t.pc = "written" /\ t.op \in {"create", "move"})

Granted(h, t) ==
  /\ t.pc = "insert" /\ t.row.origin = "past" => PastLockFree(t.row.staff)
  /\ t.pc = "insert" /\ t.row.origin = "public" => PhoneLockFree
  /\ Locking(t) => txn[h].pc = "key" \/ StaffLockFree(t.row.staff)
  /\ t.pc = "written" /\ t.op = "create" => ~KeyPending(h, t.row.key)
  /\ Holding(t) => (RowFree(t.id) /\ ~Holding(txn[h])) \/ (txn[h].pc = "write" /\ t.id = txn[h].id)

Onward(h, t) ==
  /\ txn' = [txn EXCEPT ![h] = t]
  /\ \/ t = Idle
     \/ txn[h] = Idle /\ t.pc # "idle" /\ (t.op = "create" => t.pc \in {"plan", "refused"}) /\ Granted(h, t)
     \/ t.op = txn[h].op /\ t.row = txn[h].row /\ Later(txn[h].pc, t.pc) /\ Granted(h, t)

LEMMA EndsOnward ==
  ASSUME NEW h \in Handlers, Ends(h)
  PROVE  \E t : Onward(h, t)
BY DEF Ends, Onward

LEMMA RefusesOnward ==
  ASSUME NEW h \in Handlers, NEW r, Refuses(h, r),
         txn[h] = Idle \/ (txn[h].op = "create" /\ txn[h].row = r /\ Later(txn[h].pc, "refused"))
  PROVE  \E t : Onward(h, t)
<1> DEFINE t == [op |-> "create", pc |-> "refused", id |-> "none", row |-> r]
<1>1. CASE Ends(h)
  BY <1>1, EndsOnward
<1>2. CASE Becomes(h, "create", "refused", "none", r)
  <2>1. Granted(h, t)
    BY DEF Granted, Locking, Holding
  <2>2. Onward(h, t)
    BY <1>2, <2>1 DEF Onward, Becomes
  <2> QED BY <2>2
<1> QED BY <1>1, <1>2 DEF Refuses

LEMMA ReplaysOnward ==
  ASSUME NEW h \in Handlers, NEW r, ReplayOrConflict(h, r),
         txn[h] = Idle \/ (txn[h].op = "create" /\ txn[h].row = r /\ Later(txn[h].pc, "refused"))
  PROVE  \E t : Onward(h, t)
BY EndsOnward, RefusesOnward DEF ReplayOrConflict

LEMMA CreationMoves ==
  ASSUME IInv, NEW h \in Handlers,
         \/ \E q \in Requests : CheckKey(h, q)
         \/ Plan(h) \/ Begin(h) \/ ReplayAfterRace(h) \/ Refuse(h)
  PROVE  \E t : Onward(h, t)
<1>1. ASSUME NEW q \in Requests, CheckKey(h, q) PROVE \E t : Onward(h, t)
  <2> DEFINE t == [op |-> "create", pc |-> "plan", id |-> "none", row |-> RowOf(q)]
  <2>1. CASE Becomes(h, "create", "plan", "none", RowOf(q))
    <3>1. Granted(h, t)
      BY DEF Granted, Locking, Holding
    <3>2. Onward(h, t)
      BY <1>1, <2>1, <3>1 DEF Onward, Becomes, CheckKey
    <3> QED BY <3>2
  <2> QED BY <1>1, <2>1, ReplaysOnward DEF CheckKey
<1>2. ASSUME NEW pc, txn[h].op = "create", Goes(h, pc), Later(txn[h].pc, pc), pc \in {"begin", "insert"},
             pc = "insert" => /\ txn[h].row.origin = "past" => PastLockFree(txn[h].row.staff)
                              /\ txn[h].row.origin = "public" => PhoneLockFree
      PROVE \E t : Onward(h, t)
  <2> DEFINE t == [op |-> txn[h].op, pc |-> pc, id |-> txn[h].id, row |-> txn[h].row]
  <2>1. txn' = [txn EXCEPT ![h] = t]
    BY <1>2, GoesOn
  <2>2. Granted(h, t)
    BY <1>2 DEF Granted, Locking, Holding
  <2>3. Onward(h, t)
    BY <1>2, <2>1, <2>2 DEF Onward
  <2> QED BY <2>3
<1>3. CASE Plan(h)
  BY <1>2, <1>3, CreationIsAsked, RefusesOnward DEF Plan, Later
<1>4. CASE Begin(h)
  BY <1>2, <1>4, CreationIsAsked, EndsOnward, RefusesOnward, ReplaysOnward
     DEF Begin, BeginOff, BeginPast, BeginPublic, BeginAgent, Later
<1>5. CASE ReplayAfterRace(h) \/ Refuse(h)
  BY <1>5, CreationIsAsked, EndsOnward, ReplaysOnward DEF ReplayAfterRace, Refuse, Later
<1> QED BY <1>1, <1>3, <1>4, <1>5

LEMMA InsertMoves ==
  ASSUME IInv, NEW h \in Handlers, InsertAppointment(h)
  PROVE  \E t : Onward(h, t)
<1>1. txn[h].pc \in {"insert", "key"} /\ txn[h].op = "create" /\ (txn[h].pc = "insert" => StaffLockFree(txn[h].row.staff))
  BY CreationIsAsked DEF InsertAppointment
<1>2. ASSUME NEW pc \in {"key", "replay"}, Goes(h, pc), Later(txn[h].pc, pc) PROVE \E t : Onward(h, t)
  <2> DEFINE t == [op |-> txn[h].op, pc |-> pc, id |-> txn[h].id, row |-> txn[h].row]
  <2>1. txn' = [txn EXCEPT ![h] = t]
    BY <1>2, GoesOn
  <2>2. Granted(h, t)
    BY <1>1 DEF Granted, Locking, Holding
  <2>3. Onward(h, t)
    BY <1>2, <2>1, <2>2 DEF Onward
  <2> QED BY <2>3
<1>3. ASSUME NEW a \in Ids, Unused(a), Becomes(h, "create", "written", a, txn[h].row), ~KeyPending(h, txn[h].row.key)
      PROVE \E t : Onward(h, t)
  <2> DEFINE t == [op |-> "create", pc |-> "written", id |-> a, row |-> txn[h].row]
  <2>1. RowFree(a)
    BY <1>3 DEF Unused, RowFree
  <2>2. Granted(h, t)
    BY <1>1, <1>3, <2>1 DEF Granted, Locking, Holding
  <2>3. Onward(h, t)
    BY <1>1, <1>3, <2>2 DEF Onward, Becomes, Later
  <2> QED BY <2>3
<1> QED BY <1>1, <1>2, <1>3 DEF InsertAppointment, Later

LEMMA EditMoves ==
  ASSUME IInv, NEW h \in Handlers, NEW a \in Ids,
         \/ \E s, u : Reschedule(h, a, s, u) \/ CorrectTime(h, a, s, u)
         \/ \E v : ChangeService(h, a, v)
         \/ Confirm(h, a) \/ ReadForCharge(h, a)
  PROVE  \E t : Onward(h, t)
<1>1. ASSUME NEW op, NEW pc, NEW r, txn[h] = Idle, Becomes(h, op, pc, a, r), pc \in {"write", "draft", "written"},
             op # "create", pc # "draft" => RowFree(a), pc = "written" => op = "confirm"
      PROVE \E t : Onward(h, t)
  <2> DEFINE t == [op |-> op, pc |-> pc, id |-> a, row |-> r]
  <2>1. Granted(h, t)
    BY <1>1 DEF Granted, Locking, Holding, Idle
  <2>2. Onward(h, t)
    BY <1>1, <2>1 DEF Onward, Becomes
  <2> QED BY <2>2
<1>2. ASSUME NEW s, NEW u, Reschedule(h, a, s, u) \/ CorrectTime(h, a, s, u) PROVE \E t : Onward(h, t)
  BY <1>1, <1>2 DEF Reschedule, CorrectTime
<1>3. ASSUME NEW v, ChangeService(h, a, v) PROVE \E t : Onward(h, t)
  <2> DEFINE r == [appts[a] EXCEPT !.service = v, !.asBooked = FALSE]
  <2>1. txn[h] = Idle /\ RowFree(a) /\ Becomes(h, "service", "write", a, r)
    BY <1>3 DEF ChangeService
  <2> HIDE DEF r
  <2> QED BY <1>1, <2>1
<1>4. CASE Confirm(h, a)
  BY <1>1, <1>4 DEF Confirm
<1>5. CASE ReadForCharge(h, a)
  BY <1>1, <1>5 DEF ReadForCharge
<1> QED BY <1>2, <1>3, <1>4, <1>5

LEMMA WriteMoves ==
  ASSUME IInv, NEW h \in Handlers, WriteEdit(h)
  PROVE  \E t : Onward(h, t)
<1>1. CASE Ends(h)
  BY <1>1, EndsOnward
<1>2. CASE Goes(h, "written")
  <2> DEFINE t == [op |-> txn[h].op, pc |-> "written", id |-> txn[h].id, row |-> txn[h].row]
  <2>1. txn' = [txn EXCEPT ![h] = t]
    BY <1>2, GoesOn
  <2>2. txn[h].pc = "write" /\ txn[h].op # "create" /\ (txn[h].op = "move" => StaffLockFree(txn[h].row.staff))
    BY DEF WriteEdit, IInv, Requesting, Fits, Shape, Creating
  <2>3. Granted(h, t)
    BY <2>2 DEF Granted, Locking, Holding
  <2>4. Onward(h, t)
    BY <2>1, <2>2, <2>3 DEF Onward, Later
  <2> QED BY <2>4
<1> QED BY <1>1, <1>2 DEF WriteEdit

LEMMA FinishMoves ==
  ASSUME IInv, NEW h \in Handlers, Finish(h)
  PROVE  \E t : Onward(h, t)
<1>1. CASE Commit(h)
  BY <1>1, EndsOnward DEF Commit
<1>2. CASE ConflictAnswer(h) /\ Writing(h)
  BY <1>2, EndsOnward, RefusesOnward DEF ConflictAnswer, Writing, Later
<1>3. DeadlockVictim(h) => Writing(h)
  BY DEF DeadlockVictim, InCycle, WaitInCircle, WaitsFor
<1> QED BY <1>1, <1>2, <1>3 DEF Finish, ConflictSlot, DeadlockVictim

(* A request that goes on goes to a later step or ends. *)
LEMMA ContinueMoves ==
  ASSUME IInv, NEW h \in Handlers, Continue(h)
  PROVE  \E t : Onward(h, t)
BY CreationMoves, InsertMoves, WriteMoves, FinishMoves, EndsOnward
   DEF Continue, CompleteWithPayment, RecordPaymentForCompleted

LEMMA Moves ==
  ASSUME IInv, [Next]_vars
  PROVE  UNCHANGED txn \/ \E h \in Handlers : \E t : Onward(h, t)
<1>1. ASSUME NEW h \in Handlers, Starts(h) PROVE \E t : Onward(h, t)
  BY <1>1, CreationMoves, EditMoves DEF Starts
<1>2. ASSUME NEW h \in Handlers, Dies(h) PROVE \E t : Onward(h, t)
  BY <1>2, EndsOnward DEF Dies
<1> QED BY <1>1, <1>2, ContinueMoves DEF Next, Close, VoidPayment, SwitchModule, Tick, vars

-----------------------------------------------------------------------------
Pcs == {"plan", "begin", "insert", "key", "replay", "refused", "write", "written", "draft"}
IdleOk == \A h \in Handlers : txn[h].pc = "idle" => txn[h] = Idle

\* What a step leaves of a request in flight, and that it moves one only.
LEMMA OneMoves ==
  ASSUME IInv, [Next]_vars, NEW h \in Handlers, txn'[h] # txn[h]
  PROVE  /\ \A g \in Handlers \ {h} : txn'[g] = txn[g]
         /\ Onward(h, txn'[h])
<1>1. PICK k \in Handlers : \E t : Onward(k, t)
  BY Moves
<1>2. PICK t : Onward(k, t)
  BY <1>1
<1>3. txn' = [txn EXCEPT ![k] = t] /\ txn \in [Handlers -> Txns]
  BY <1>2 DEF Onward, IInv, TypeOK
<1>4. k = h /\ t = txn'[h]
  BY <1>3
<1> QED BY <1>2, <1>3, <1>4

LEMMA StaysOrMoves ==
  ASSUME IInv, [Next]_vars, NEW h \in Handlers
  PROVE  \/ txn'[h] = txn[h] \/ txn'[h] = Idle
         \/ txn[h] = Idle /\ txn'[h].pc # "idle"
         \/ Later(txn[h].pc, txn'[h].pc)
BY OneMoves DEF Onward

LEMMA ContinueLeaves ==
  ASSUME IInv, NEW h \in Handlers, <<Continue(h)>>_vars
  PROVE  txn'[h].pc # txn[h].pc
<1>1. PICK t : Onward(h, t)
  BY ContinueMoves
<1>2. txn'[h] = t /\ txn[h] \in Txns
  BY <1>1 DEF Onward, IInv, TypeOK
<1>3. txn[h].pc # "idle"
  <2>1. txn[h].pc \in {"insert", "key", "replay", "refused", "plan", "begin", "write", "written", "draft"}
    BY DEF Continue, Plan, Begin, BeginOff, BeginPast, BeginPublic, BeginAgent, InsertAppointment, ReplayAfterRace, Refuse,
           WriteEdit, Finish, Commit, ConflictSlot, DeadlockVictim, InCycle, WaitInCircle, WaitsFor, Writing, CompleteWithPayment,
           RecordPaymentForCompleted
  <2> QED BY <2>1
<1> QED BY <1>1, <1>2, <1>3 DEF Onward, Later, Idle

-----------------------------------------------------------------------------
(* Deadlocks. The new rows of two writers that hold the lock of a professional are of      *)
(* different professionals, so such a writer waits only for a row that another moves away. *)
(* It read the agenda without that row: whoever moved it there committed later, and whoever *)
(* moves it away read later still. So among those that wait, the last to read waits for     *)
(* nobody, and the waits of locked writers make no circle.                                  *)

LocksApart ==
  \A g, h \in Handlers : g # h /\ HasStaffLock(g) /\ HasStaffLock(h) => txn[g].row.staff # txn[h].row.staff

\* The request has read the agenda for the place its row takes.
HasRead(t) ==
  \/ t.op \in {"move", "service"} /\ Holding(t)
  \/ t.op = "create" /\ (t.pc \in {"insert", "key", "written"} \/ (t.pc = "begin" /\ t.row.origin # "past"))

\* g holds an active row that stands where h is to write.
Meets(h, g) ==
  /\ g # h /\ HasRead(txn[h]) /\ Holding(txn[g])
  /\ appts[txn[g].id].status \in Active /\ Overlap(appts[txn[g].id], txn[h].row)

\* In every group of requests the last to read meets nobody.
LastMeetsNobody ==
  \A S \in (SUBSET Handlers) \ {{}} : \E h \in S : \A g \in S : ~Meets(h, g)

LEMMA LocksApartStep == IInv /\ LocksApart /\ [Next]_vars => LocksApart'
<1> SUFFICES ASSUME IInv, LocksApart, [Next]_vars,
                    NEW g \in Handlers, NEW h \in Handlers, g # h, HasStaffLock(g)', HasStaffLock(h)'
             PROVE  txn'[g].row.staff # txn'[h].row.staff
  BY DEF LocksApart
<1>1. ASSUME NEW k \in Handlers, NEW o \in Handlers, o # k, HasStaffLock(o)', HasStaffLock(k)', txn'[k] # txn[k]
      PROVE  txn'[o].row.staff # txn'[k].row.staff
  <2>1. txn'[o] = txn[o] /\ HasStaffLock(o) /\ Onward(k, txn'[k])
    BY <1>1, OneMoves DEF HasStaffLock, Writing
  <2>2. Locking(txn'[k]) /\ txn'[k] # Idle
    BY <1>1 DEF HasStaffLock, Writing, Locking, Idle
  <2>3. Granted(k, txn'[k])
    BY <2>1, <2>2 DEF Onward
  <2>4. CASE txn[k].pc = "key"
    <3>1. HasStaffLock(k) /\ txn'[k].row = txn[k].row
      BY <2>1, <2>2, <2>4 DEF HasStaffLock, Onward, Idle
    <3> QED BY <1>1, <2>1, <3>1 DEF LocksApart
  <2>5. CASE StaffLockFree(txn'[k].row.staff)
    BY <2>1, <2>5 DEF StaffLockFree
  <2> QED BY <2>2, <2>3, <2>4, <2>5 DEF Granted
<1>2. CASE txn'[g] = txn[g] /\ txn'[h] = txn[h]
  BY <1>2 DEF LocksApart, HasStaffLock, Writing
<1> QED BY <1>1, <1>2

\* A row that is held is not changed by a step that leaves it held.
LEMMA HeldRowStays ==
  ASSUME IInv, [Next]_vars, NEW g \in Handlers, Holding(txn'[g])
  PROVE  appts'[txn'[g].id] = appts[txn'[g].id]
<1>1. Steps /\ txn'[g] # Idle /\ appts \in [Ids -> Rows] /\ txn \in [Handlers -> Txns]
  BY NextSteps, StutterSteps DEF Holding, Idle, IInv, TypeOK
<1>2. ASSUME NEW a, NEW r, RowStep(a, r) PROVE appts'[txn'[g].id] = appts[txn'[g].id]
  <2>1. txn'[g] = txn[g] /\ LeavesRow(g, a, r) /\ appts' = [appts EXCEPT ![a] = r]
    BY <1>1, <1>2 DEF RowStep
  <2> QED BY <1>1, <2>1 DEF LeavesRow
<1> QED BY <1>1, <1>2 DEF Steps, RequestStep, ChargeStep, SwitchStep

\* A request that goes on, and does not end, writes no row yet.
LEMMA RowsStay ==
  ASSUME IInv, [Next]_vars, NEW h \in Handlers, txn'[h] # txn[h], txn'[h] # Idle
  PROVE  appts' = appts
<1>1. Steps /\ txn \in [Handlers -> Txns]
  BY NextSteps, StutterSteps DEF IInv, TypeOK
<1>2. ASSUME NEW a, NEW r, RowStep(a, r) PROVE FALSE
  BY <1>1, <1>2 DEF RowStep
<1> QED BY <1>1, <1>2 DEF Steps, RequestStep, ChargeStep, SwitchStep

\* The agenda has no active row but its own where the row of a request goes.
Clear(t) == \A a \in Ids \ {t.id} : appts[a].status \in Active => ~Overlap(appts[a], t.row)

\* Who has just read the agenda found its place clear.
LEMMA ReadsClear ==
  ASSUME IInv, [Next]_vars, NEW h \in Handlers, ~HasRead(txn[h]), HasRead(txn'[h])
  PROVE  Clear(txn'[h])
<1>1. txn'[h] # txn[h] /\ txn'[h] # Idle /\ Onward(h, txn'[h]) /\ txn \in [Handlers -> Txns]
  BY OneMoves DEF HasRead, Holding, Idle, IInv, TypeOK
<1>2. ASSUME NEW k \in Handlers, NEW t, txn' = [txn EXCEPT ![k] = t]
      PROVE  k = h /\ t = txn'[h]
  BY <1>1, <1>2
<1>3. ASSUME NEW k \in Handlers, NEW pc, Goes(k, pc)
      PROVE  k = h /\ txn'[h].pc = pc /\ txn'[h].op = txn[h].op /\ txn'[h].row = txn[h].row
  BY <1>2, <1>3, GoesOn
<1>4. ASSUME NEW k \in Handlers, Ends(k) PROVE FALSE
  BY <1>1, <1>2, <1>4 DEF Ends
<1>5. ASSUME NEW k \in Handlers, NEW r, Refuses(k, r) \/ ReplayOrConflict(k, r) PROVE FALSE
  <2>1. ASSUME Becomes(k, "create", "refused", "none", r) PROVE FALSE
    BY <1>2, <2>1 DEF Becomes, HasRead, Holding
  <2> QED BY <1>4, <1>5, <2>1 DEF Refuses, ReplayOrConflict
<1>6. ASSUME NEW k \in Handlers, Plan(k) PROVE Clear(txn'[h])
  <2>1. Offered(txn[k].row) /\ Goes(k, "begin")
    BY <1>5, <1>6 DEF Plan
  <2>2. k = h /\ txn'[h].pc = "begin" /\ txn'[h].row = txn[h].row
    BY <1>3, <2>1
  <2>3. txn[h].row.origin # "past"
    BY <2>2 DEF HasRead, Holding
  <2>4. ~BusyActive(txn[h].row, "none")
    BY <2>1, <2>2, <2>3 DEF Offered
  <2> QED BY <2>2, <2>4, NoneAssumption DEF BusyActive, Clear
<1>7. ASSUME NEW k \in Handlers, Begin(k) PROVE Clear(txn'[h])
  <2>1. Goes(k, "insert") /\ txn[k].pc = "begin" /\ (txn[k].row.origin = "past" => ~BlocksPast(txn[k].row))
    BY <1>4, <1>5, <1>7 DEF Begin, BeginOff, BeginPast, BeginPublic, BeginAgent
  <2>2. k = h /\ txn'[h].pc = "insert" /\ txn'[h].row = txn[h].row
    BY <1>3, <2>1
  <2>3. txn[h].op = "create"
    BY <2>1, <2>2, CreationIsAsked
  <2>4. ~BlocksPast(txn[h].row)
    BY <2>1, <2>2, <2>3 DEF HasRead
  <2> QED BY <2>2, <2>4 DEF BlocksPast, Clear
<1>8. ASSUME NEW k \in Handlers, NEW a \in Ids, NEW s \in Staff, NEW u \in Times,
             Reschedule(k, a, s, u) \/ CorrectTime(k, a, s, u)
      PROVE  Clear(txn'[h])
  <2> DEFINE r == Moved(a, s, u)
  <2>1. Becomes(k, "move", "write", a, r) /\ (~BusyActive(r, a) \/ ~BusyNotCancelled(r, a))
    BY <1>8 DEF Reschedule, CorrectTime
  <2> HIDE DEF r
  <2>2. txn'[h].id = a /\ txn'[h].row = r
    BY <1>2, <2>1 DEF Becomes
  <2> QED BY <2>1, <2>2 DEF BusyActive, BusyNotCancelled, Clear, Active
<1>9. ASSUME NEW k \in Handlers, NEW a \in Ids, NEW v \in Services, ChangeService(k, a, v)
       PROVE  Clear(txn'[h])
  <2> DEFINE r == [appts[a] EXCEPT !.service = v, !.asBooked = FALSE]
  <2>1. Becomes(k, "service", "write", a, r) /\ ~BusyNotCancelled(r, a)
    BY <1>9 DEF ChangeService
  <2> HIDE DEF r
  <2>2. txn'[h].id = a /\ txn'[h].row = r
    BY <1>2, <2>1 DEF Becomes
  <2> QED BY <2>1, <2>2 DEF BusyNotCancelled, Clear, Active
<1>10. ASSUME NEW k \in Handlers, (\E q \in Requests : CheckKey(k, q)) \/ (\E a \in Ids : Confirm(k, a) \/ ReadForCharge(k, a))
       PROVE  FALSE
  <2>1. ASSUME NEW op, NEW pc, NEW a, NEW r, Becomes(k, op, pc, a, r), pc \in {"plan", "draft"} \/ op = "confirm"
        PROVE  FALSE
    BY <1>2, <2>1 DEF Becomes, HasRead, Holding
  <2>2. ASSUME NEW q \in Requests, CheckKey(k, q) PROVE FALSE
    BY <1>5, <2>1, <2>2 DEF CheckKey
  <2>3. ASSUME NEW a \in Ids, Confirm(k, a) PROVE FALSE
    <3>1. PICK r : Becomes(k, "confirm", "written", a, r)
      BY <2>3 DEF Confirm
    <3> QED BY <2>1, <3>1
  <2>4. ASSUME NEW a \in Ids, ReadForCharge(k, a) PROVE FALSE
    BY <2>1, <2>4 DEF ReadForCharge
  <2> QED BY <1>10, <2>2, <2>3, <2>4
<1>11. ASSUME NEW k \in Handlers, InsertAppointment(k) PROVE FALSE
  <2>1. k = h
    BY <1>2, <1>3, <1>11 DEF InsertAppointment, Becomes
  <2> QED BY <1>11, <2>1, CreationIsAsked DEF InsertAppointment, HasRead
<1>12. ASSUME NEW k \in Handlers, WriteEdit(k) PROVE FALSE
  <2>1. Goes(k, "written") /\ txn[k].pc = "write"
    BY <1>4, <1>12 DEF WriteEdit
  <2>2. k = h /\ txn'[h].op = txn[h].op
    BY <1>3, <2>1
  <2>3. Holding(txn[h]) /\ txn[h].op # "create"
    BY <2>1, <2>2 DEF Holding, IInv, Requesting, Fits, Shape, Creating
  <2> QED BY <2>2, <2>3 DEF HasRead
<1>13. ASSUME NEW k \in Handlers,
              \/ ReplayAfterRace(k) \/ Refuse(k) \/ Finish(k) \/ Dies(k)
              \/ CompleteWithPayment(k) \/ RecordPaymentForCompleted(k)
       PROVE  FALSE
  BY <1>4, <1>5, <1>13 DEF ReplayAfterRace, Refuse, Finish, Commit, ConflictSlot, DeadlockVictim, ConflictAnswer, Dies,
                           CompleteWithPayment, RecordPaymentForCompleted
<1>14. ~(UNCHANGED txn)
  BY <1>1
<1> QED
  BY <1>6, <1>7, <1>8, <1>9, <1>10, <1>11, <1>12, <1>13, <1>14
     DEF Next, Starts, Continue, Close, VoidPayment, SwitchModule, Tick, vars

\* A request that did not read just now meets nobody it did not meet, but for one that begins to hold.
LEMMA MeetsStay ==
  ASSUME IInv, [Next]_vars, NEW h \in Handlers, NEW g \in Handlers, Meets(h, g)', HasRead(txn[h]),
         txn'[g] = txn[g] \/ Holding(txn[g])
  PROVE  Meets(h, g)
<1>1. txn'[h].row = txn[h].row
  BY OneMoves DEF Meets, HasRead, Holding, Onward, Idle
<1>2. Holding(txn[g]) /\ txn'[g].id = txn[g].id
  BY OneMoves DEF Meets, Onward, Granted, Holding, Idle
<1> QED BY <1>1, <1>2, HeldRowStays DEF Meets

\* Who has just read, or reads nothing, meets nobody.
LEMMA ReaderMeetsNobody ==
  ASSUME IInv, IInv', [Next]_vars, NEW h \in Handlers, txn'[h] # txn[h], ~HasRead(txn[h]) \/ ~HasRead(txn'[h]),
         NEW g \in Handlers
  PROVE  ~Meets(h, g)'
<1> SUFFICES ASSUME Meets(h, g)' PROVE FALSE
  OBVIOUS
<1>1. HasRead(txn'[h]) /\ ~HasRead(txn[h]) /\ g # h /\ Holding(txn'[g])
  BY DEF Meets
<1>2. Clear(txn'[h]) /\ appts' = appts
  BY <1>1, ReadsClear, RowsStay DEF HasRead, Holding, Idle
<1>3. Shape(txn[h])' /\ Shape(txn[g])' /\ Distinct(txn[g], txn[h])'
  BY <1>1 DEF IInv, Requesting, Fits
<1>4. txn'[g].id \in Ids /\ txn'[g].id # txn'[h].id
  <2>1. txn'[g].id \in Ids
    BY <1>1, <1>3 DEF Shape, Holding
  <2>2. CASE Holding(txn'[h])
    BY <1>1, <1>3, <2>1, <2>2 DEF Distinct, Holding
  <2>3. CASE ~Holding(txn'[h])
    BY <1>1, <1>3, <2>1, <2>3, NoneAssumption DEF HasRead, Shape, Holding
  <2> QED BY <2>1, <2>2, <2>3
<1> QED BY <1>2, <1>4 DEF Clear, Meets

\* Who begins to hold a row that exists has just read, or reads nothing.
LEMMA HolderHasJustRead ==
  ASSUME IInv, IInv', [Next]_vars, NEW g \in Handlers, Holding(txn'[g]), ~Holding(txn[g]), appts'[txn'[g].id].status \in Active
  PROVE  txn'[g] # txn[g] /\ (~HasRead(txn[g]) \/ ~HasRead(txn'[g]))
<1>1. Shape(txn[g])' /\ Owns(txn[g])'
  BY DEF IInv, Requesting, Fits
<1>2. txn'[g].op # "create"
  BY <1>1 DEF Owns, Creating, Active, Holding
<1>3. txn'[g] # txn[g] /\ Onward(g, txn'[g])
  BY OneMoves
<1>4. txn[g] = Idle
  BY <1>1, <1>2, <1>3 DEF Onward, Later, Holding, Idle, Creating, IInv, Requesting, Fits, Shape
<1> QED BY <1>3, <1>4 DEF HasRead, Holding, Idle

LEMMA LastStep == IInv /\ IInv' /\ LastMeetsNobody /\ [Next]_vars => LastMeetsNobody'
<1> SUFFICES ASSUME IInv, IInv', LastMeetsNobody, [Next]_vars,
                    NEW S \in (SUBSET Handlers) \ {{}}
             PROVE  \E h \in S : \A g \in S : ~Meets(h, g)'
  BY DEF LastMeetsNobody
<1>1. PICK l \in S : \A g \in S : ~Meets(l, g)
  BY DEF LastMeetsNobody
<1>2. CASE \E k \in S : txn'[k] # txn[k] /\ (~HasRead(txn[k]) \/ ~HasRead(txn'[k]))
  BY <1>2, ReaderMeetsNobody
<1>3. CASE \A k \in S : txn'[k] = txn[k] \/ (HasRead(txn[k]) /\ HasRead(txn'[k]))
  <2> SUFFICES ASSUME NEW g \in S, Meets(l, g)' PROVE FALSE
    OBVIOUS
  <2>1. HasRead(txn[l]) /\ Holding(txn'[g]) /\ appts'[txn'[g].id].status \in Active
    BY <1>3 DEF Meets
  <2>2. txn'[g] = txn[g] \/ Holding(txn[g])
    BY <1>3, <2>1, HolderHasJustRead
  <2> QED BY <1>1, <2>1, <2>2, MeetsStay
<1> QED BY <1>2, <1>3

(* Creations and moves do not deadlock among themselves, for any number of requests, rows and *)
(* professionals (insertAppointment, moveInterval and the exclusion constraint).               *)
THEOREM LockedNeverDeadlock == Spec => []LockedWritersDoNotDeadlock
<1>1. Init => LocksApart /\ LastMeetsNobody
  BY DEF Init, LocksApart, HasStaffLock, Writing, LastMeetsNobody, Meets, Holding, Idle
<1>2. IInv /\ LocksApart /\ LastMeetsNobody => LockedWritersDoNotDeadlock
  <2> SUFFICES ASSUME IInv, LocksApart, LastMeetsNobody, NEW S \in (SUBSET Handlers) \ {{}}, WaitInCircle(S),
                      \A g \in S : txn[g].op \notin {"service", "confirm"}
               PROVE  FALSE
    BY DEF LockedWritersDoNotDeadlock
  <2>1. PICK h \in S : \A g \in S : ~Meets(h, g)
    BY DEF LastMeetsNobody
  <2>2. PICK g \in S : WaitsFor(h, g)
    BY DEF WaitInCircle
  <2>3. g # h /\ Writing(h) /\ Writing(g) /\ Holding(txn[h]) /\ Holding(txn[g])
    BY <2>2 DEF WaitsFor, Writing, Holding
  <2>4. txn[h].op \in {"create", "move"} /\ txn[g].op \in {"create", "move"}
    BY <2>3 DEF IInv, Requesting, Fits, Shape
  <2>5. HasRead(txn[h]) /\ HasStaffLock(h) /\ HasStaffLock(g)
    BY <2>3, <2>4 DEF HasRead, HasStaffLock, Writing
  <2>6. ~Overlap(txn[g].row, txn[h].row)
    BY <2>3, <2>5 DEF LocksApart, Overlap
  <2>7. appts[txn[g].id].status \in Active /\ Overlap(appts[txn[g].id], txn[h].row)
    BY <2>2, <2>6 DEF WaitsFor, Versions
  <2> QED BY <2>1, <2>3, <2>5, <2>7 DEF Meets
<1> QED BY <1>1, <1>2, LocksApartStep, LastStep, Invariance, PTL DEF Spec

-----------------------------------------------------------------------------
(* A lock in whose way others stand is not taken by any more of them. *)
LEMMA BlocksShrink ==
  ASSUME IInv, [Next]_vars, NEW h \in Handlers, NEW g \in Handlers, NEW k \in Handlers,
         txn'[h] = txn[h], Blocks(k, h), Blocks(g, h)'
  PROVE  Blocks(g, h)
<1>1. CASE txn'[g] = txn[g]
  BY <1>1 DEF Blocks, CreatesAs, InTx, HasStaffLock, Writing
<1>2. CASE txn'[g] # txn[g]
  <2>1. PICK t : t = txn'[g]
    OBVIOUS
  <2>2. Onward(g, t) /\ t # txn[g] /\ g # h
    BY <1>2, <2>1, OneMoves
  <2>3. txn[g] \in Txns /\ Shape(txn[g]) /\ Shape(txn[h])
    BY DEF IInv, TypeOK, Requesting, Fits
  <2>4. t.pc \in {"insert", "key", "write", "written"}
    BY <2>1 DEF Blocks, CreatesAs, InTx, HasStaffLock, Writing
  <2>5. t # Idle /\ Granted(g, t)
    BY <2>2, <2>4 DEF Onward, Idle
  <2>6. CASE txn[h].pc = "begin"
    <3> DEFINE o == txn[h].row.origin
    <3>1. o \in {"past", "public"} /\ t.op = "create" /\ t.row.origin = o /\ (o = "past" => t.row.staff = txn[h].row.staff)
      BY <2>1, <2>6 DEF Blocks, CreatesAs
    <3>2. CreatesAs(k, o) /\ (o = "past" => txn[k].row.staff = txn[h].row.staff)
      BY <2>6 DEF Blocks
    <3>3. t.pc # "insert"
      BY <2>5, <3>1, <3>2 DEF Granted, PastLockFree, PhoneLockFree
    <3>4. t.op = txn[g].op /\ t.row = txn[g].row /\ Later(txn[g].pc, t.pc)
      BY <2>2, <2>4, <2>5, <3>1 DEF Onward
    <3>5. txn[g].pc \in {"insert", "key", "write"}
      BY <2>4, <3>3, <3>4 DEF Later
    <3>6. CreatesAs(g, o)
      BY <3>1, <3>4, <3>5 DEF CreatesAs, InTx
    <3> QED BY <2>6, <3>1, <3>4, <3>6 DEF Blocks
  <2>7. CASE txn[h].pc = "insert" \/ txn[h].pc = "write"
    <3>1. Locking(t) /\ t.row.staff = txn[h].row.staff
      BY <2>1, <2>7 DEF Blocks, HasStaffLock, Writing, Locking
    <3>2. HasStaffLock(k) /\ txn[k].row.staff = txn[h].row.staff
      BY <2>7 DEF Blocks
    <3>3. txn[g].pc = "key"
      BY <2>5, <3>1, <3>2 DEF Granted, StaffLockFree
    <3>4. t.row = txn[g].row
      BY <2>2, <2>5, <3>3 DEF Onward, Idle
    <3>5. txn[h].pc = "write" => txn[h].op = "move"
      BY <2>7 DEF Blocks
    <3> QED BY <2>7, <3>1, <3>3, <3>4, <3>5 DEF Blocks, HasStaffLock
  <2>8. CASE txn[h].pc = "key"
    <3>1. t.pc = "written" /\ t.op = "create" /\ t.row.key = txn[h].row.key /\ txn[h].row.key # "none"
      BY <2>1, <2>8 DEF Blocks, Writing
    <3>2. Writing(k) /\ txn[k].op = "create" /\ txn[k].row.key = t.row.key
      BY <2>8, <3>1 DEF Blocks
    <3>3. k = g
      BY <2>5, <3>1, <3>2 DEF Granted, KeyPending
    <3> QED BY <3>3
  <2>9. CASE txn[h].pc = "draft"
    <3>1. Holding(t) /\ t.id = txn[h].id
      BY <2>1, <2>9 DEF Blocks, Holding
    <3>2. ~RowFree(t.id)
      BY <2>9, <3>1 DEF Blocks, RowFree
    <3>3. txn[g].pc = "write" /\ txn[g].id = txn[h].id
      BY <2>5, <3>1, <3>2 DEF Granted
    <3> QED BY <2>9, <3>3 DEF Blocks
  <2> QED BY <2>6, <2>7, <2>8, <2>9 DEF Blocks
<1> QED BY <1>1, <1>2

-----------------------------------------------------------------------------
(* Who waits for a pending row waits for the writers of rows it clashes with. *)

Clash(h) == {a \in Ids : a # txn[h].id /\ appts[a].status \in Active /\ Overlap(appts[a], txn[h].row)}
Writes(g, a) == Writing(g) /\ txn[g].id = a

LEMMA WaitingStays ==
  ASSUME IInv, [Next]_vars, NEW h \in Handlers, Writing(h), Writing(h)'
  PROVE  txn'[h] = txn[h]
BY StaysOrMoves DEF Writing, Later, Idle

LEMMA WaitingFits ==
  ASSUME IInv, NEW h \in Handlers, Writing(h)
  PROVE  txn[h].row.status \in Active /\ txn[h].id \in Ids
BY DEF IInv, Requesting, Fits, Shape, Writing

LEMMA WritersAreApart ==
  ASSUME IInv, NEW g \in Handlers, NEW h \in Handlers, g # h, Writing(g), Writing(h)
  PROVE  txn[g].id # txn[h].id
BY DEF IInv, Requesting, Distinct, Writing, Holding

\* Two that wait for the pending versions of each other are in a cycle.
LEMMA MutualIsCycle ==
  ASSUME IInv, NEW g \in Handlers, NEW h \in Handlers, g # h, Writing(g), Writing(h), Overlap(txn[g].row, txn[h].row)
  PROVE  WaitsFor(h, g) /\ WaitsFor(g, h) /\ InCycle(h)
<1>1. WaitsFor(h, g) /\ WaitsFor(g, h)
  BY WaitingFits, OverlapIsMutual DEF WaitsFor, Versions
<1>2. InCycle(h)
  <2> DEFINE S == {g, h}
  <2>1. S \in SUBSET Handlers /\ h \in S /\ \A k \in S : \E j \in S : WaitsFor(k, j)
    BY <1>1
  <2> HIDE DEF S
  <2> QED BY <2>1 DEF InCycle, WaitInCircle
<1> QED BY <1>1, <1>2

LEMMA WaitsClash ==
  ASSUME IInv, NEW h \in Handlers, Waits(h)
  PROVE  Clash(h) # {}
<1>1. PICK g \in Handlers : WaitsFor(h, g)
  BY DEF Waits
<1>2. g # h /\ Writing(h) /\ Writing(g) /\ ~Overlap(txn[g].row, txn[h].row)
  BY <1>1, MutualIsCycle DEF Waits, WaitsFor
<1>3. txn[g].id \in Ids /\ appts[txn[g].id].status \in Active /\ Overlap(appts[txn[g].id], txn[h].row)
  BY <1>1, <1>2 DEF WaitsFor, Versions
<1> QED BY <1>2, <1>3, WritersAreApart DEF Clash

\* Only a commit makes or changes an active row.
LEMMA ActiveByCommit ==
  ASSUME IInv, [Next]_vars, NEW a \in Ids, appts'[a] # appts[a], appts'[a].status \in Active
  PROVE  \E g \in Handlers : Commit(g) /\ txn[g].id = a /\ appts'[a] = txn[g].row
<1>1. appts \in [Ids -> Rows] /\ txn \in [Handlers -> Txns]
  BY DEF IInv, TypeOK
<1>2. ASSUME NEW g \in Handlers, Commit(g) PROVE txn[g].id = a /\ appts'[a] = txn[g].row
  <2>1. appts' = [appts EXCEPT ![txn[g].id] = Committed(txn[g].row)]
    BY <1>2 DEF Commit
  <2>2. txn[g].id = a /\ appts'[a] = Committed(txn[g].row)
    BY <1>1, <2>1
  <2>3. txn[g].row \in Rows
    BY <1>1 DEF Txns
  <2>4. CASE txn[g].row.origin = "past" /\ txn[g].row.status = "scheduled"
    <3>1. appts'[a].status = "completed"
      BY <2>2, <2>3, <2>4 DEF Committed, Rows
    <3> QED BY <3>1 DEF Active
  <2> QED BY <2>2, <2>4 DEF Committed
<1>3. ASSUME NEW g \in Handlers, WriteEdit(g) PROVE FALSE
  BY <1>1, <1>3 DEF WriteEdit
<1>4. ASSUME NEW g \in Handlers, CompleteWithPayment(g) PROVE FALSE
  BY <1>1, <1>4 DEF CompleteWithPayment, Active, Rows
<1>5. ASSUME NEW b \in Ids, NEW s \in Terminal, Close(b, s) PROVE FALSE
  BY <1>1, <1>5 DEF Close, Active, Terminal, Rows
<1>6. ASSUME NEW g \in Handlers, Starts(g) PROVE FALSE
  BY <1>6 DEF Starts, CheckKey, Reschedule, CorrectTime, ChangeService, Confirm, ReadForCharge
<1>7. ASSUME NEW g \in Handlers, Plan(g) \/ Begin(g) \/ InsertAppointment(g) \/ ReplayAfterRace(g) \/ Refuse(g)
                                 \/ ConflictSlot(g) \/ DeadlockVictim(g) \/ RecordPaymentForCompleted(g) \/ Dies(g)
      PROVE FALSE
  BY <1>7 DEF Plan, Begin, BeginOff, BeginPast, BeginPublic, BeginAgent, InsertAppointment, ReplayAfterRace, Refuse,
              ConflictSlot, DeadlockVictim, RecordPaymentForCompleted, Dies
<1> QED BY <1>2, <1>3, <1>4, <1>5, <1>6, <1>7 DEF Next, Continue, Finish, VoidPayment, SwitchModule, Tick, vars

LEMMA ClashShrinks ==
  ASSUME IInv, [Next]_vars, NEW h \in Handlers, Waits(h), Waits(h)', NEW a \in Ids, (a \in Clash(h))'
  PROVE  a \in Clash(h)
<1>1. Writing(h) /\ Writing(h)' /\ txn'[h] = txn[h]
  BY WaitingStays DEF Waits
<1>2. a # txn[h].id /\ appts'[a].status \in Active /\ Overlap(appts'[a], txn[h].row)
  BY <1>1 DEF Clash
<1>3. CASE appts'[a] # appts[a]
  <2>1. PICK g \in Handlers : Commit(g) /\ txn[g].id = a /\ appts'[a] = txn[g].row
    BY <1>2, <1>3, ActiveByCommit
  <2>2. g # h /\ Writing(g) /\ ~WaitsFor(g, h)
    BY <1>2, <2>1 DEF Commit
  <2> QED BY <1>1, <1>2, <2>1, <2>2, MutualIsCycle
<1> QED BY <1>2, <1>3 DEF Clash

LEMMA WriterStays ==
  ASSUME IInv, [Next]_vars, NEW h \in Handlers, Waits(h), Waits(h)', NEW a \in Ids, (a \in Clash(h))',
         NEW g \in Handlers, Writes(g, a)
  PROVE  Writes(g, a)'
<1>1. CASE txn'[g] = txn[g]
  BY <1>1 DEF Writes, Writing
<1>2. CASE txn'[g] # txn[g]
  <2>1. \A k \in Handlers \ {g} : txn'[k] = txn[k]
    BY <1>2, OneMoves
  <2>2. ~Writing(g)'
    BY <1>2, WaitingStays DEF Writes
  <2>3. Settled(a)'
    BY <2>1, <2>2, WritersAreApart DEF Settled, Writes, Writing
  <2>4. Excluded(h)'
    BY <2>3 DEF Excluded, Clash
  <2> QED BY <2>4 DEF Waits
<1> QED BY <1>1, <1>2

LEMMA ClashHasWriter ==
  ASSUME NEW h \in Handlers, Waits(h), NEW a \in Ids, a \in Clash(h)
  PROVE  \E g \in Handlers : Writes(g, a)
BY DEF Waits, Excluded, Clash, Settled, Writes

LEMMA WriterIsWaitedFor ==
  ASSUME NEW h \in Handlers, Waits(h), NEW a \in Ids, a \in Clash(h), NEW g \in Handlers, Writes(g, a)
  PROVE  WaitsFor(h, g)
BY DEF Waits, WaitsFor, Versions, Clash, Writes

-----------------------------------------------------------------------------
(* What holds all along a fair behaviour. *)

FairTo(h) == SF_vars(Continue(h))
FairToAll == \A h \in Handlers : FairTo(h)
Running == [][Next]_vars /\ []IInv /\ []IdleOk /\ []StepsAreEnabled /\ FairToAll

LEMMA RunningStays == Running => []Running
<1>1. ASSUME NEW h \in Handlers PROVE FairTo(h) => []FairTo(h)
  BY PTL DEF FairTo
<1>2. FairToAll => \A h \in Handlers : []FairTo(h)
  BY <1>1 DEF FairToAll
<1>3. (\A h \in Handlers : []FairTo(h)) => [](\A h \in Handlers : FairTo(h))
  OBVIOUS
<1>4. FairToAll => []FairToAll
  BY <1>2, <1>3 DEF FairToAll
<1> QED BY <1>4, PTL DEF Running

LEMMA IdleIsIdle == Spec => []IdleOk
<1>1. Init => IdleOk
  BY DEF Init, IdleOk
<1>2. IInv /\ IdleOk /\ [Next]_vars => IdleOk'
  <2> SUFFICES ASSUME IInv, IdleOk, [Next]_vars, NEW h \in Handlers PROVE (txn[h].pc = "idle" => txn[h] = Idle)'
    BY DEF IdleOk
  <2> QED BY StaysOrMoves DEF IdleOk, Later
<1> QED BY <1>1, <1>2, Invariance, PTL DEF Spec

LEMMA Runs == FairSpec /\ []StepsAreEnabled => Running
<1>1. Fairness => FairToAll
  BY PTL DEF Fairness, FairToAll, FairTo
<1> QED BY <1>1, Invariance, IdleIsIdle, PTL DEF FairSpec, Spec, Running

Held(h) == Waits(h) \/ \E g \in Handlers : Blocks(g, h)

StaysAt(h, p) == [](txn[h].pc = p)

\* A request that stays at a step is in the end held there.
LEMMA StaysSoHeld ==
  ASSUME NEW h \in Handlers, NEW p \in Pcs
  PROVE  Running /\ StaysAt(h, p) => <>[]Held(h)
<1>1. FairToAll => FairTo(h)
  BY DEF FairToAll
<1>2. IInv /\ <<Continue(h)>>_vars /\ txn[h].pc = p => ~(txn[h].pc = p)'
  BY ContinueLeaves
<1>3. StepsAreEnabled /\ txn[h].pc = p /\ ~Held(h) => ENABLED <<Continue(h)>>_vars
  BY DEF StepsAreEnabled, Held, Pcs, Idle
<1> QED BY <1>1, <1>2, <1>3, PTL DEF Running, FairTo, StaysAt

-----------------------------------------------------------------------------
(* A finite set all of whose members leave for good is empty for good. What is emptied: the   *)
(* rows a request clashes with, those who block it, and those of D who wait for nobody in D.   *)

LEMMA FiniteInduction ==
  ASSUME NEW S, IsFiniteSet(S), NEW g,
         \A U \in SUBSET S : (\A x \in U : g[U \ {x}]) => g[U]
  PROVE  \A U \in SUBSET S : g[U]
<1> SUFFICES ASSUME NEW V \in SUBSET S, ~g[V] PROVE FALSE
  OBVIOUS
<1>1. PICK T : T = {U \in SUBSET S : ~g[U]}
  OBVIOUS
<1>2. IsWellFoundedOn(StrictSubsetOrdering(S), SUBSET S)
  BY FS_StrictSubsetOrderingWellFounded, FS_FiniteSubsetsOfFinite
<1>3. PICK U \in T : \A W \in T : ~(<<W, U>> \in StrictSubsetOrdering(S))
  <2>1. V \in T /\ T \subseteq SUBSET S /\ T # {}
    BY <1>1
  <2> QED BY <1>2, <2>1, WFMin
<1>4. PICK x \in U : ~g[U \ {x}]
  BY <1>1, <1>3
<1>5. U \ {x} \in T /\ U \in SUBSET S
  BY <1>1, <1>3, <1>4
<1>6. <<U \ {x}, U>> \in StrictSubsetOrdering(S)
  BY <1>5, <1>4 DEF StrictSubsetOrdering
<1> QED BY <1>3, <1>5, <1>6

Left(k) ==
  CASE k[1] = "clash" -> Clash(k[2])
    [] k[1] = "block" -> {g \in Handlers : Blocks(g, k[2])}
    [] k[1] = "apart" -> {h \in k[2] : ~\E g \in k[2] : WaitsFor(h, g)}
GoesOut(k, x) == <>[](x \notin Left(k))
AllGoOut(k, S) == \A x \in S : GoesOut(k, x)
Empties(k, U) == <>[](Left(k) \cap U = {})
Emptied(k, S, U) == AllGoOut(k, S) => Empties(k, U)
Outcomes(k, S) == [U \in SUBSET S |-> Emptied(k, S, U)]
Given(t) == t \/ TRUE

LEMMA OneMoreGoes ==
  ASSUME NEW k, NEW S, NEW U \in SUBSET S
  PROVE  (\A x \in U : Emptied(k, S, U \ {x})) => Emptied(k, S, U)
<1>1. CASE U = {}
  <2>1. Left(k) \cap U = {}
    BY <1>1
  <2> QED BY <2>1, PTL DEF Empties, Emptied
<1>2. CASE U # {}
  <2>1. PICK x \in U : TRUE
    BY <1>2
  <2>2. Left(k) \cap (U \ {x}) = {} /\ x \notin Left(k) => Left(k) \cap U = {}
    OBVIOUS
  <2>3. Empties(k, U \ {x}) /\ GoesOut(k, x) => Empties(k, U)
    BY <2>2, PTL DEF Empties, GoesOut
  <2>4. AllGoOut(k, S) => GoesOut(k, x)
    BY <2>1 DEF AllGoOut
  <2> QED BY <2>1, <2>3, <2>4 DEF Emptied
<1> QED BY <1>1, <1>2

LEMMA AllAreOut ==
  ASSUME NEW k, NEW S, IsFiniteSet(S)
  PROVE  AllGoOut(k, S) => Empties(k, S)
<1>1. PICK g : \A U \in SUBSET S : g[U] <=> Emptied(k, S, U)
  <2>1. Given(Outcomes(k, S))
    BY DEF Given
  <2> QED BY <2>1, SMTT(20) DEF Outcomes
<1>2. \A U \in SUBSET S : (\A x \in U : g[U \ {x}]) => g[U]
  <2>1. ASSUME NEW U \in SUBSET S
        PROVE  (\A x \in U : Emptied(k, S, U \ {x})) => Emptied(k, S, U)
    BY OneMoreGoes
  <2> QED BY <1>1, <2>1
<1>3. g[S]
  BY <1>2, FiniteInduction
<1> QED BY <1>1, <1>3 DEF Emptied

-----------------------------------------------------------------------------
(* Nobody waits for pending rows for ever: who did would wait for writers who do too, and *)
(* those, being finitely many, would be in a cycle, of which the database picks a victim.  *)

\* Whoever writes a row that h clashes with for good keeps h waiting for good.
LEMMA ClashKeepsWriter ==
  ASSUME NEW h \in Handlers, NEW a \in Ids
  PROVE  Running /\ []Waits(h) /\ [](a \in Clash(h)) => \E g \in Handlers : []WaitsFor(h, g)
<1> DEFINE Keeps == Running /\ []Waits(h) /\ [](a \in Clash(h))
<1>1. ASSUME NEW g \in Handlers PROVE Keeps /\ Writes(g, a) => []WaitsFor(h, g)
  <2>1. /\ IInv /\ [Next]_vars /\ Waits(h) /\ Waits(h)' /\ (a \in Clash(h))' /\ Writes(g, a) => Writes(g, a)'
        /\ Waits(h) /\ a \in Clash(h) /\ Writes(g, a) => WaitsFor(h, g)
    BY WriterStays, WriterIsWaitedFor
  <2> QED BY <2>1, PTL DEF Running
<1>2. Waits(h) /\ a \in Clash(h) => \E g \in Handlers : Writes(g, a)
  BY ClashHasWriter
<1>3. Keeps => Waits(h) /\ a \in Clash(h)
  BY PTL
<1>4. Keeps => \E g \in Handlers : []WaitsFor(h, g)
  <2> HIDE DEF Keeps
  <2> QED BY <1>1, <1>2, <1>3
<1> QED BY <1>4

StaysIn(a, h) == [](a \in Clash(h))

LEMMA SomeClashStays ==
  ASSUME NEW h \in Handlers
  PROVE  Running /\ []Waits(h) => \E a \in Ids : StaysIn(a, h)
<1> DEFINE k == <<"clash", h>>
           Keeps == Running /\ []Waits(h)
<1>1. Left(k) = Clash(h)
  BY DEF Left
<1>2. ASSUME NEW a \in Ids PROVE Keeps /\ ~StaysIn(a, h) => GoesOut(k, a)
  <2>1. /\ IInv /\ [Next]_vars /\ Waits(h) /\ Waits(h)' /\ ~(a \in Clash(h)) => ~(a \in Clash(h))'
        /\ ~(a \in Clash(h)) => a \notin Left(k)
    BY <1>1, ClashShrinks
  <2> HIDE DEF k
  <2> QED BY <2>1, PTL DEF Running, StaysIn, GoesOut
<1>3. IInv /\ Waits(h) => ~(Left(k) \cap Ids = {})
  BY <1>1, WaitsClash DEF Clash
<1> HIDE DEF k
<1>4. AllGoOut(k, Ids) => Empties(k, Ids)
  BY AllAreOut, IdsAssumption
<1>5. Keeps => ~AllGoOut(k, Ids)
  BY <1>3, <1>4, PTL DEF Empties, Running
<1>6. Keeps => \E a \in Ids : StaysIn(a, h)
  <2> HIDE DEF Keeps
  <2> QED BY <1>2, <1>5 DEF AllGoOut
<1> QED BY <1>6

LEMMA WaitsForOne ==
  ASSUME NEW h \in Handlers
  PROVE  Running /\ []Waits(h) => \E g \in Handlers : []WaitsFor(h, g)
<1>1. ASSUME NEW a \in Ids PROVE Running /\ []Waits(h) /\ StaysIn(a, h) => \E g \in Handlers : []WaitsFor(h, g)
  BY ClashKeepsWriter DEF StaysIn
<1> QED BY <1>1, SomeClashStays

Dead(h) == <>[]Writing(h)
Caught(h, g) == <>[]WaitsFor(h, g)

LEMMA DeadWaits ==
  ASSUME NEW h \in Handlers
  PROVE  Running /\ Dead(h) => <>[]Waits(h)
<1>1. Running /\ StaysAt(h, "written") => <>[]Held(h)
  BY StaysSoHeld DEF Pcs
<1>2. Writing(h) => txn[h].pc = "written"
  BY DEF Writing
<1>3. Writing(h) /\ Held(h) => Waits(h)
  BY DEF Writing, Held, Blocks
<1> QED BY <1>1, <1>2, <1>3, RunningStays, PTL DEF Dead, StaysAt

LEMMA DeadIsCaught ==
  ASSUME NEW h \in Handlers
  PROVE  Running /\ Dead(h) => \E g \in Handlers : Caught(h, g)
<1> DEFINE Loose(g) == ~[]WaitsFor(h, g)
<1>1. \A g \in Handlers : ~Caught(h, g) => []Loose(g)
  <2>1. ASSUME NEW g \in Handlers PROVE ~Caught(h, g) => []Loose(g)
    BY PTL DEF Caught
  <2> QED BY <2>1
<1>2. Running /\ []Waits(h) => ~(\A g \in Handlers : Loose(g))
  BY WaitsForOne
<1> HIDE DEF Loose
<1>3. (\A g \in Handlers : []Loose(g)) => [](\A g \in Handlers : Loose(g))
  OBVIOUS
<1>4. (\A g \in Handlers : ~Caught(h, g)) => [](\A g \in Handlers : Loose(g))
  BY <1>1, <1>3
<1>5. Running /\ Dead(h) => ~(\A g \in Handlers : ~Caught(h, g))
  BY <1>2, <1>4, DeadWaits, RunningStays, PTL
<1> QED BY <1>5

\* Of finitely many each of which waits for another of them for good, none waits for good.
LEMMA ClosedIsCycle ==
  ASSUME NEW D, D \subseteq Handlers, IsFiniteSet(D), NEW h \in D
  PROVE  Running /\ AllGoOut(<<"apart", D>>, D) => ~Dead(h)
<1> DEFINE k == <<"apart", D>>
<1>1. IInv /\ Left(k) \cap D = {} => ~Waits(h)
  <2> SUFFICES ASSUME IInv, Left(k) \cap D = {} PROVE InCycle(h)
    BY DEF Waits
  <2>1. \A g \in D : \E j \in D : WaitsFor(g, j)
    BY DEF Left
  <2> QED BY <2>1 DEF InCycle, WaitInCircle
<1> HIDE DEF k
<1>2. AllGoOut(k, D) => Empties(k, D)
  BY AllAreOut
<1>3. Running /\ Dead(h) => <>[]Waits(h)
  BY DeadWaits
<1>4. Running /\ AllGoOut(k, D) => ~Dead(h)
  BY <1>1, <1>2, <1>3, PTL DEF Empties, Running
<1> QED BY <1>4 DEF k

Deads == [h \in Handlers |-> Dead(h)]

LEMMA NobodyIsDead ==
  ASSUME IsFiniteSet(Handlers), NEW h \in Handlers
  PROVE  Running => ~Dead(h)
<1>1. PICK d : \A g \in Handlers : d[g] <=> Dead(g)
  <2>1. Given(Deads)
    BY DEF Given
  <2> QED BY <2>1, SMTT(20) DEF Deads
<1>2. PICK D : D = {g \in Handlers : d[g]}
  OBVIOUS
<1> DEFINE k == <<"apart", D>>
<1>3. \A g \in Handlers : g \in D <=> Dead(g)
  BY <1>1, <1>2
<1>4. ASSUME NEW g \in D PROVE Running => GoesOut(k, g)
  <2>1. ASSUME NEW j \in Handlers PROVE Caught(g, j) => Dead(j)
    <3>1. WaitsFor(g, j) => Writing(j)
      BY DEF WaitsFor
    <3> QED BY <3>1, PTL DEF Caught, Dead
  <2>2. ASSUME NEW j \in D PROVE Caught(g, j) => GoesOut(k, g)
    <3>1. WaitsFor(g, j) => g \notin Left(k)
      BY DEF Left
    <3> HIDE DEF k
    <3> QED BY <3>1, PTL DEF Caught, GoesOut
  <2>3. g \in Handlers /\ Dead(g)
    BY <1>2, <1>3
  <2>4. Running => \E j \in Handlers : Caught(g, j)
    BY <2>3, DeadIsCaught
  <2> HIDE DEF k
  <2> QED BY <1>3, <2>1, <2>2, <2>4
<1>5. Running => AllGoOut(k, D)
  BY <1>4 DEF AllGoOut
<1>6. D \subseteq Handlers /\ IsFiniteSet(D)
  BY <1>2, FS_Subset
<1>7. ASSUME h \in D PROVE Running => ~Dead(h)
  BY <1>5, <1>6, <1>7, ClosedIsCycle
<1> QED BY <1>3, <1>7

-----------------------------------------------------------------------------
(* So every lock is released, and every request that waits for one gets it. *)

LEMMA WritersEnd ==
  ASSUME IsFiniteSet(Handlers), NEW h \in Handlers
  PROVE  Running => ~StaysAt(h, "written")
<1>1. Running => ~Dead(h)
  BY NobodyIsDead
<1>2. txn[h].pc = "written" => Writing(h)
  BY DEF Writing
<1> QED BY <1>1, <1>2, PTL DEF Dead, StaysAt

\* Whoever stays at a step has somebody in the way who stays there, if nobody is out of it.
StaysInWay(g, h) == []Blocks(g, h)
InWay(g, h) == <>StaysInWay(g, h)

LEMMA BlockerStays ==
  ASSUME IsFiniteSet(Handlers), NEW h \in Handlers, NEW p \in Pcs \ {"written"}
  PROVE  Running /\ StaysAt(h, p) => \E g \in Handlers : InWay(g, h)
<1> DEFINE k == <<"block", h>>
           Keeps == Running /\ StaysAt(h, p) /\ []Held(h)
<1>1. \A g \in Handlers : Blocks(g, h) <=> g \in Left(k)
  BY DEF Left
<1>2. IInv /\ [Next]_vars /\ txn[h].pc = p /\ (txn[h].pc = p)' => txn'[h] = txn[h]
  BY StaysOrMoves DEF Later, Idle, Pcs
<1>3. txn[h].pc = p /\ Held(h) => \E g \in Handlers : Blocks(g, h)
  BY DEF Held, Waits, Writing
<1>4. ASSUME NEW g \in Handlers PROVE Keeps /\ ~StaysInWay(g, h) => GoesOut(k, g)
  <2>1. IInv /\ [Next]_vars /\ txn[h].pc = p /\ (txn[h].pc = p)' /\ Held(h) /\ ~Blocks(g, h) => ~Blocks(g, h)'
    BY <1>2, <1>3, BlocksShrink
  <2>2. ~Blocks(g, h) => g \notin Left(k)
    BY <1>1
  <2> HIDE DEF k
  <2> QED BY <2>1, <2>2, PTL DEF Running, StaysAt, StaysInWay, GoesOut
<1>5. txn[h].pc = p /\ Held(h) => ~(Left(k) \cap Handlers = {})
  BY <1>1, <1>3
<1> HIDE DEF k
<1>6. AllGoOut(k, Handlers) => Empties(k, Handlers)
  BY AllAreOut
<1>7. Keeps => ~AllGoOut(k, Handlers)
  BY <1>5, <1>6, PTL DEF Empties, StaysAt
<1>8. Keeps => \E g \in Handlers : StaysInWay(g, h)
  <2> HIDE DEF Keeps
  <2> QED BY <1>4, <1>7 DEF AllGoOut
<1>9. Running /\ StaysAt(h, p) => <>[]Held(h)
  BY StaysSoHeld
<1>10. StaysAt(h, p) => []StaysAt(h, p)
  BY PTL DEF StaysAt
<1> DEFINE Away(g) == ~StaysInWay(g, h)
<1>11. Keeps => ~(\A g \in Handlers : Away(g))
  BY <1>8
<1>12. \A g \in Handlers : ~InWay(g, h) => []Away(g)
  <2>1. ASSUME NEW g \in Handlers PROVE ~InWay(g, h) => []Away(g)
    BY PTL DEF InWay
  <2> QED BY <2>1
<1> HIDE DEF Away
<1>13. (\A g \in Handlers : []Away(g)) => [](\A g \in Handlers : Away(g))
  OBVIOUS
<1>14. (\A g \in Handlers : ~InWay(g, h)) => [](\A g \in Handlers : Away(g))
  BY <1>12, <1>13
<1>15. Running /\ StaysAt(h, p) => ~(\A g \in Handlers : ~InWay(g, h))
  BY <1>9, <1>10, <1>11, <1>14, RunningStays, PTL
<1> QED BY <1>15

\* Nobody stays in the way of whom the writers keep from going on ...
LEMMA KeyEnds ==
  ASSUME IsFiniteSet(Handlers), NEW h \in Handlers
  PROVE  Running => ~StaysAt(h, "key")
<1>1. ASSUME NEW g \in Handlers PROVE Running /\ StaysAt(h, "key") => ~InWay(g, h)
  <2>1. txn[h].pc = "key" /\ Blocks(g, h) => txn[g].pc = "written"
    BY DEF Blocks, Writing
  <2>2. Running => ~StaysAt(g, "written")
    BY WritersEnd
  <2> QED BY <2>1, <2>2, RunningStays, PTL DEF InWay, StaysInWay, StaysAt
<1>2. Running /\ StaysAt(h, "key") => \E g \in Handlers : InWay(g, h)
  BY BlockerStays DEF Pcs
<1> QED BY <1>1, <1>2

\* ... nor of whom the lock of a professional keeps ...
LEMMA LockEnds ==
  ASSUME IsFiniteSet(Handlers), NEW h \in Handlers, NEW p \in {"insert", "write"}
  PROVE  Running => ~StaysAt(h, p)
<1>1. ASSUME NEW g \in Handlers PROVE Running /\ StaysAt(h, p) => ~InWay(g, h)
  <2>1. txn[h].pc = p /\ Blocks(g, h) => txn[g].pc = "key" \/ txn[g].pc = "written"
    BY DEF Blocks, HasStaffLock, Writing
  <2>2. IInv /\ [Next]_vars /\ txn[g].pc = "written" => ~(txn[g].pc = "key")'
    BY StaysOrMoves DEF Later, Idle
  <2>3. Running => ~StaysAt(g, "written") /\ ~StaysAt(g, "key")
    BY WritersEnd, KeyEnds
  <2> QED BY <2>1, <2>2, <2>3, RunningStays, PTL DEF InWay, StaysInWay, StaysAt, Running
<1>2. Running /\ StaysAt(h, p) => \E g \in Handlers : InWay(g, h)
  BY BlockerStays DEF Pcs
<1> QED BY <1>1, <1>2

\* ... nor of whom a transaction keeps.
LEMMA TransactionEnds ==
  ASSUME IsFiniteSet(Handlers), NEW h \in Handlers, NEW p \in {"begin", "draft"}
  PROVE  Running => ~StaysAt(h, p)
<1>1. ASSUME NEW g \in Handlers PROVE Running /\ StaysAt(h, p) => ~InWay(g, h)
  <2>1. txn[h].pc = p /\ Blocks(g, h)
          => txn[g].pc = "insert" \/ txn[g].pc = "key" \/ txn[g].pc = "write" \/ txn[g].pc = "written"
    BY DEF Blocks, CreatesAs, InTx
  <2>2. IInv /\ [Next]_vars /\ txn[g].pc = "written"
          => ~(txn[g].pc = "insert")' /\ ~(txn[g].pc = "key")' /\ ~(txn[g].pc = "write")'
    BY StaysOrMoves DEF Later, Idle
  <2>3. IInv /\ [Next]_vars /\ txn[g].pc = "key" => ~(txn[g].pc = "insert")' /\ ~(txn[g].pc = "write")'
    BY StaysOrMoves DEF Later, Idle
  <2>4. IInv /\ [Next]_vars /\ txn[g].pc = "write" => ~(txn[g].pc = "insert")' /\ ~(txn[g].pc = "key")'
    BY StaysOrMoves DEF Later, Idle
  <2>5. IInv /\ [Next]_vars /\ txn[g].pc = "insert" => ~(txn[g].pc = "write")'
    BY StaysOrMoves DEF Later, Idle
  <2>6. Running => ~StaysAt(g, "insert") /\ ~StaysAt(g, "key") /\ ~StaysAt(g, "write") /\ ~StaysAt(g, "written")
    BY WritersEnd, KeyEnds, LockEnds
  <2> QED BY <2>1, <2>2, <2>3, <2>4, <2>5, <2>6, RunningStays, PTL DEF InWay, StaysInWay, StaysAt, Running
<1>2. Running /\ StaysAt(h, p) => \E g \in Handlers : InWay(g, h)
  BY BlockerStays DEF Pcs
<1> QED BY <1>1, <1>2

LEMMA NobodyStays ==
  ASSUME IsFiniteSet(Handlers), NEW h \in Handlers, NEW p \in Pcs
  PROVE  Running => ~StaysAt(h, p)
<1>1. CASE p \in {"plan", "replay", "refused"}
  <2>1. ASSUME NEW g \in Handlers PROVE Running /\ StaysAt(h, p) => ~InWay(g, h)
    <3>1. txn[h].pc = p => ~Blocks(g, h)
      BY <1>1 DEF Blocks
    <3> QED BY <3>1, PTL DEF InWay, StaysInWay, StaysAt
  <2>2. Running /\ StaysAt(h, p) => \E g \in Handlers : InWay(g, h)
    BY <1>1, BlockerStays DEF Pcs
  <2> QED BY <2>1, <2>2
<1> QED BY <1>1, WritersEnd, KeyEnds, LockEnds, TransactionEnds DEF Pcs

-----------------------------------------------------------------------------
At(h, p) == txn[h].pc = p

\* A request that has reached p, when whatever follows p ends.
EndsFrom(h, p) == At(h, p) ~> At(h, "idle")

LEMMA Ended ==
  ASSUME IsFiniteSet(Handlers), NEW h \in Handlers
  PROVE  Running => (txn[h] # Idle ~> txn[h] = Idle)
<1>1. \A p \in Pcs : Running => ~StaysAt(h, p)
  BY NobodyStays
<1>2. IInv /\ [Next]_vars /\ At(h, "refused") => At(h, "refused")' \/ At(h, "idle")'
  BY StaysOrMoves DEF Later, Idle, At
<1>3. IInv /\ [Next]_vars /\ At(h, "draft") => At(h, "draft")' \/ At(h, "idle")'
  BY StaysOrMoves DEF Later, Idle, At
<1>4. IInv /\ [Next]_vars /\ At(h, "replay") => At(h, "replay")' \/ At(h, "refused")' \/ At(h, "idle")'
  BY StaysOrMoves DEF Later, Idle, At
<1>5. IInv /\ [Next]_vars /\ At(h, "written") => At(h, "written")' \/ At(h, "refused")' \/ At(h, "idle")'
  BY StaysOrMoves DEF Later, Idle, At
<1>6. IInv /\ [Next]_vars /\ At(h, "write") => At(h, "write")' \/ At(h, "written")' \/ At(h, "idle")'
  BY StaysOrMoves DEF Later, Idle, At
<1>7. IInv /\ [Next]_vars /\ At(h, "key") => At(h, "key")' \/ At(h, "replay")' \/ At(h, "written")' \/ At(h, "idle")'
  BY StaysOrMoves DEF Later, Idle, At
<1>8. IInv /\ [Next]_vars /\ At(h, "insert")
        => At(h, "insert")' \/ At(h, "key")' \/ At(h, "replay")' \/ At(h, "written")' \/ At(h, "idle")'
  BY StaysOrMoves DEF Later, Idle, At
<1>9. IInv /\ [Next]_vars /\ At(h, "begin")
        => At(h, "begin")' \/ At(h, "insert")' \/ At(h, "refused")' \/ At(h, "idle")'
  BY StaysOrMoves DEF Later, Idle, At
<1>10. IInv /\ [Next]_vars /\ At(h, "plan") => At(h, "plan")' \/ At(h, "begin")' \/ At(h, "refused")' \/ At(h, "idle")'
  BY StaysOrMoves DEF Later, Idle, At
<1>11. Running => EndsFrom(h, "refused") /\ EndsFrom(h, "draft")
  <2>1. Running => ~StaysAt(h, "refused") /\ ~StaysAt(h, "draft")
    BY <1>1 DEF Pcs
  <2> QED BY <1>2, <1>3, <2>1, RunningStays, PTL DEF EndsFrom, Running, StaysAt, At
<1>12. Running => EndsFrom(h, "replay") /\ EndsFrom(h, "written")
  <2>1. Running => ~StaysAt(h, "replay") /\ ~StaysAt(h, "written")
    BY <1>1 DEF Pcs
  <2> QED BY <1>4, <1>5, <1>11, <2>1, RunningStays, PTL DEF EndsFrom, Running, StaysAt, At
<1>13. Running => EndsFrom(h, "write") /\ EndsFrom(h, "key")
  <2>1. Running => ~StaysAt(h, "write") /\ ~StaysAt(h, "key")
    BY <1>1 DEF Pcs
  <2> QED BY <1>6, <1>7, <1>12, <2>1, RunningStays, PTL DEF EndsFrom, Running, StaysAt, At
<1>14. Running => EndsFrom(h, "insert")
  <2>1. Running => ~StaysAt(h, "insert")
    BY <1>1 DEF Pcs
  <2> QED BY <1>8, <1>12, <1>13, <2>1, RunningStays, PTL DEF EndsFrom, Running, StaysAt, At
<1>15. Running => EndsFrom(h, "begin")
  <2>1. Running => ~StaysAt(h, "begin")
    BY <1>1 DEF Pcs
  <2> QED BY <1>9, <1>11, <1>14, <2>1, RunningStays, PTL DEF EndsFrom, Running, StaysAt, At
<1>16. Running => EndsFrom(h, "plan")
  <2>1. Running => ~StaysAt(h, "plan")
    BY <1>1 DEF Pcs
  <2> QED BY <1>10, <1>11, <1>15, <2>1, RunningStays, PTL DEF EndsFrom, Running, StaysAt, At
<1>17. IInv /\ txn[h] # Idle /\ IdleOk
         => \/ At(h, "plan") \/ At(h, "begin") \/ At(h, "insert") \/ At(h, "key") \/ At(h, "replay")
            \/ At(h, "refused") \/ At(h, "write") \/ At(h, "written") \/ At(h, "draft")
  BY DEF IInv, TypeOK, Txns, IdleOk, At
<1>18. IdleOk /\ At(h, "idle") => txn[h] = Idle
  BY DEF IdleOk, At
<1> QED BY <1>11, <1>12, <1>13, <1>14, <1>15, <1>16, <1>17, <1>18, PTL DEF EndsFrom, Running, StaysAt, At

(* Every request ends, answered, refused or the victim of a deadlock, whatever the locks,  *)
(* pending rows and keys of the others: under strong fairness of Continue, of finitely many *)
(* requests in flight (booking.ts, payments.ts and the locks of appointments.ts).           *)
THEOREM RequestsEnd ==
  ASSUME IsFiniteSet(Handlers)
  PROVE  FairSpec /\ []StepsAreEnabled => RequestEnds
<1>1. Running => RequestEnds
  BY Ended DEF RequestEnds
<1> QED BY <1>1, Runs
=============================================================================
