------------------------------- MODULE Booking -------------------------------
(* The appointments of one site under concurrent requests, and their charges. *)
(*                                                                             *)
(* A step is a statement group of src/scheduling/booking.ts or payments.ts:    *)
(* what is read outside a transaction, what is read under its locks, the       *)
(* write that other transactions can see as pending, and the check of the      *)
(* exclusion constraint with the commit. The database aborts a transaction of  *)
(* a cycle of waits.                                                           *)
EXTENDS Naturals, FiniteSets

CONSTANTS
  Ids,        \* appointments that may come to exist
  Staff,      \* professionals of the site
  Services,   \* services, each with its Duration (buffers included)
  Duration,
  MaxTime,    \* bound: the clock and the starts are 0 .. MaxTime
  Requests,   \* the creations that may be asked for, any number of times
  Edits,      \* the requests on existing appointments that are made: of "move", "service", "confirm", "charge"
  Handlers,   \* requests in flight at once
  Cap         \* maxActiveFuturePerPhone of the public page; the site has one customer

ASSUME DurationAssumption == Duration \in [Services -> Nat \ {0}]
ASSUME NoneAssumption == "none" \notin Ids \cup Staff \cup Services
ASSUME IdsAssumption == IsFiniteSet(Ids)
ASSUME BoundsAssumption == MaxTime \in Nat /\ Cap \in Nat

Times == 0 .. MaxTime
Origins == {"public", "agent", "past"}
ASSUME RequestsAssumption ==
  \A q \in Requests : /\ DOMAIN q = {"key", "origin", "staff", "start", "service"}
                      /\ q.origin \in Origins /\ q.staff \in Staff /\ q.start \in Times /\ q.service \in Services

VARIABLES
  appts,      \* appointments: the committed rows
  charge,     \* the recorded payment of each appointment: the service and professional of its line
  txn,        \* what each request in flight has read, holds and is about to write
  enabled,    \* client_modules.enabled of scheduling
  now         \* the clock

vars == <<appts, charge, txn, enabled, now>>

Active == {"scheduled", "confirmed"}
Terminal == {"completed", "cancelled", "no_show"}

NoRow == [status |-> "none", staff |-> "none", start |-> 0, service |-> "none",
          key |-> "none", origin |-> "none", asBooked |-> TRUE]
NoCharge == [service |-> "none", staff |-> "none"]
Idle == [op |-> "none", pc |-> "idle", id |-> "none", row |-> NoRow]

(* asBooked is history: whether the appointment is still where, and what, it was booked. *)
RowOf(q) == [status |-> "scheduled", staff |-> q.staff, start |-> q.start, service |-> q.service,
             key |-> q.key, origin |-> q.origin, asBooked |-> TRUE]

Blocked(r) == r.start .. (r.start + Duration[r.service] - 1)
Overlap(r, s) == r.staff = s.staff /\ Blocked(r) \cap Blocked(s) # {}

Init ==
  /\ appts = [a \in Ids |-> NoRow]
  /\ charge = [a \in Ids |-> NoCharge]
  /\ txn = [h \in Handlers |-> Idle]
  /\ enabled = TRUE
  /\ now = 0

-----------------------------------------------------------------------------
(* What a transaction holds until it ends. *)
Writing(g) == txn[g].pc = "written"
InTx(g) == txn[g].pc \in {"insert", "key", "write", "written"}

RowFree(a) == \A g \in Handlers : ~(txn[g].pc \in {"write", "written"} /\ txn[g].id = a)
HasStaffLock(g) == txn[g].pc = "key" \/ (Writing(g) /\ txn[g].op \in {"create", "move"})
StaffLockFree_none(s) == TRUE
StaffLockFree(s) == \A g \in Handlers : ~(HasStaffLock(g) /\ txn[g].row.staff = s)
CreatesAs(g, origin) == txn[g].op = "create" /\ InTx(g) /\ txn[g].row.origin = origin
PastLockFree_none(s) == TRUE
PhoneLockFree_none == TRUE
PastLockFree(s) == \A g \in Handlers : ~(CreatesAs(g, "past") /\ txn[g].row.staff = s)
PhoneLockFree == \A g \in Handlers : ~CreatesAs(g, "public")

(* The exclusion constraint. A pending version, or one being replaced, makes the writer wait. *)
Versions(g) == {v \in {txn[g].row} \cup {appts[a] : a \in {txn[g].id} \cap Ids} : v.status \in Active}
WaitsFor(h, g) ==
  /\ h # g /\ Writing(h) /\ Writing(g)
  /\ \E v \in Versions(g) : Overlap(v, txn[h].row)
Settled(a) == \A g \in Handlers : ~(Writing(g) /\ txn[g].id = a)
Excluded_scheduled(h) == \E a \in Ids : /\ Settled(a) /\ appts[a].status = "scheduled"
                                        /\ Overlap(appts[a], txn[h].row)
Excluded(h) == \E a \in Ids : /\ Settled(a) /\ appts[a].status \in Active
                              /\ Overlap(appts[a], txn[h].row)

(* What the reads of other appointments ask. *)
BusyActive(r, self) == \E a \in Ids \ {self} : appts[a].status \in Active /\ Overlap(appts[a], r)
BusyNotCancelled(r, self) ==
  \E a \in Ids \ {self} : appts[a].status \notin {"none", "cancelled"} /\ Overlap(appts[a], r)
BlocksPast(r) == \E a \in Ids : appts[a].status \in Active \cup {"completed"} /\ Overlap(appts[a], r)
ActiveFuture == {a \in Ids : appts[a].status \in Active /\ appts[a].start > now}
WithKey(k) == {a \in Ids : k # "none" /\ appts[a].status # "none" /\ appts[a].key = k}

Goes(h, pc) == txn' = [txn EXCEPT ![h].pc = pc]
Ends(h) == txn' = [txn EXCEPT ![h] = Idle]
Becomes(h, op, pc, a, r) == txn' = [txn EXCEPT ![h] = [op |-> op, pc |-> pc, id |-> a, row |-> r]]
(* The answer of a refused creation is a step of its own when a retry may follow it. *)
Refuses(h, r) == IF r.key = "none" THEN Ends(h)
                 ELSE Becomes(h, "create", "refused", "none", r)

-----------------------------------------------------------------------------
(* Creation. *)
SamePayload(r, q) == r.start = q.start /\ r.service = q.service /\ r.staff = q.staff

ReplayOrConflict(h, r) ==
  \E a \in WithKey(r.key) : IF SamePayload(appts[a], r) THEN Ends(h) ELSE Refuses(h, r)

(* Bound: a creation begins while there is an id left for it. *)
Room == Cardinality({a \in Ids : appts[a].status = "none"}) > Cardinality({g \in Handlers : txn[g].op = "create"})

CheckKey(h, q) ==
  /\ txn[h] = Idle
  /\ \/ /\ WithKey(q.key) = {} /\ Room
        /\ Becomes(h, "create", "plan", "none", RowOf(q))
     \/ ReplayOrConflict(h, RowOf(q))
  /\ UNCHANGED <<appts, charge, enabled, now>>

Offered(r) == IF r.origin = "past" THEN r.start + Duration[r.service] <= now
              ELSE r.start >= now /\ ~BusyActive(r, "none")

Plan(h) ==
  /\ txn[h].pc = "plan"
  /\ \/ Offered(txn[h].row) /\ Goes(h, "begin")
     \/ ~Offered(txn[h].row) /\ Refuses(h, txn[h].row)
  /\ UNCHANGED <<appts, charge, enabled, now>>

BeginOff(h) ==
  /\ txn[h].pc = "begin" /\ ~enabled
  /\ Ends(h)
  /\ UNCHANGED <<appts, charge, enabled, now>>

BeginPast(h) ==
  LET r == txn[h].row IN
  /\ txn[h].pc = "begin" /\ enabled /\ r.origin = "past"
  /\ PastLockFree(r.staff)
  /\ \/ ReplayOrConflict(h, r)
     \/ WithKey(r.key) = {} /\ BlocksPast(r) /\ Refuses(h, r)
     \/ WithKey(r.key) = {} /\ ~BlocksPast(r) /\ Goes(h, "insert")
  /\ UNCHANGED <<appts, charge, enabled, now>>

BeginPublic(h) ==
  LET r == txn[h].row IN
  /\ txn[h].pc = "begin" /\ enabled /\ r.origin = "public"
  /\ PhoneLockFree
  /\ \/ Cardinality(ActiveFuture) >= Cap /\ Refuses(h, r)
     \/ Cardinality(ActiveFuture) < Cap /\ Goes(h, "insert")
  /\ UNCHANGED <<appts, charge, enabled, now>>

BeginAgent(h) ==
  /\ txn[h].pc = "begin" /\ enabled /\ txn[h].row.origin = "agent"
  /\ Goes(h, "insert")
  /\ UNCHANGED <<appts, charge, enabled, now>>

Refuse(h) ==
  /\ txn[h].pc = "refused"
  /\ Ends(h)
  /\ UNCHANGED <<appts, charge, enabled, now>>

Unused(a) == appts[a].status = "none" /\ \A g \in Handlers : txn[g].id # a
KeyPending(h, k) == \E g \in Handlers \ {h} : Writing(g) /\ txn[g].op = "create" /\ k # "none" /\ txn[g].row.key = k

(* The lock of the professional is held while the insert waits for who is inserting its key. *)
InsertAppointment(h) ==
  LET r == txn[h].row IN
  /\ txn[h].pc \in {"insert", "key"}
  /\ txn[h].pc = "insert" => StaffLockFree(r.staff)
  /\ \/ KeyPending(h, r.key) /\ txn[h].pc = "insert" /\ Goes(h, "key")
     \/ ~KeyPending(h, r.key) /\ WithKey(r.key) # {} /\ Goes(h, "replay")
     \/ /\ ~KeyPending(h, r.key) /\ WithKey(r.key) = {}
        /\ \E a \in Ids : Unused(a) /\ Becomes(h, "create", "written", a, r)
  /\ UNCHANGED <<appts, charge, enabled, now>>

ReplayAfterRace(h) ==
  /\ txn[h].pc = "replay"
  /\ ReplayOrConflict(h, txn[h].row)
  /\ UNCHANGED <<appts, charge, enabled, now>>

-----------------------------------------------------------------------------
(* Edits: begun under the lock of the row, with what they read of the others. *)
Moved(a, s, t) == [appts[a] EXCEPT !.staff = s, !.start = t, !.asBooked = FALSE]

Reschedule(h, a, s, t) ==
  /\ txn[h] = Idle /\ RowFree(a) /\ enabled
  /\ appts[a].status \in Active
  /\ t >= now /\ ~BusyActive(Moved(a, s, t), a)
  /\ Becomes(h, "move", "write", a, Moved(a, s, t))
  /\ UNCHANGED <<appts, charge, enabled, now>>

CorrectTime(h, a, s, t) ==
  /\ txn[h] = Idle /\ RowFree(a) /\ enabled
  /\ appts[a].status \notin {"none", "cancelled"}
  /\ s # appts[a].staff => charge[a] = NoCharge
  /\ ~BusyNotCancelled(Moved(a, s, t), a)
  /\ Becomes(h, "move", "write", a, Moved(a, s, t))
  /\ UNCHANGED <<appts, charge, enabled, now>>

ChangeService_charged(h, a, v) ==
  LET r == [appts[a] EXCEPT !.service = v, !.asBooked = FALSE] IN
  /\ txn[h] = Idle /\ RowFree(a) /\ enabled
  /\ appts[a].status \in Active \cup {"completed"}
  /\ v # appts[a].service
  /\ ~BusyNotCancelled(r, a)
  /\ Becomes(h, "service", "write", a, r)
  /\ UNCHANGED <<appts, charge, enabled, now>>

ChangeService(h, a, v) ==
  LET r == [appts[a] EXCEPT !.service = v, !.asBooked = FALSE] IN
  /\ txn[h] = Idle /\ RowFree(a) /\ enabled
  /\ appts[a].status \in Active \cup {"completed"}
  /\ appts[a].status = "completed" => charge[a] = NoCharge
  /\ v # appts[a].service
  /\ ~BusyNotCancelled(r, a)
  /\ Becomes(h, "service", "write", a, r)
  /\ UNCHANGED <<appts, charge, enabled, now>>

(* moveInterval takes the lock of the professional; changeServiceColumns takes none. *)
WriteEdit(h) ==
  LET r == txn[h].row IN
  /\ txn[h].pc = "write"
  /\ txn[h].op = "move" => StaffLockFree(r.staff)
  /\ \/ r.status \in Active /\ Goes(h, "written") /\ UNCHANGED appts
     \/ r.status \notin Active /\ appts' = [appts EXCEPT ![txn[h].id] = r] /\ Ends(h)
  /\ UNCHANGED <<charge, enabled, now>>

Confirm(h, a) ==
  /\ txn[h] = Idle /\ RowFree(a) /\ enabled
  /\ appts[a].status = "scheduled"
  /\ Becomes(h, "confirm", "written", a, [appts[a] EXCEPT !.status = "confirmed"])
  /\ UNCHANGED <<appts, charge, enabled, now>>

Close_anyStatus(a, s) ==
  /\ RowFree(a) /\ enabled
  /\ appts[a].status # s
  /\ appts' = [appts EXCEPT ![a].status = s]
  /\ UNCHANGED <<charge, txn, enabled, now>>

Close(a, s) ==
  /\ RowFree(a) /\ enabled
  /\ appts[a].status \in Active
  /\ appts' = [appts EXCEPT ![a].status = s]
  /\ UNCHANGED <<charge, txn, enabled, now>>

-----------------------------------------------------------------------------
(* The end of a write. *)
Committed(r) == IF r.origin = "past" /\ r.status = "scheduled" THEN [r EXCEPT !.status = "completed"] ELSE r
ConflictAnswer(h) == IF txn[h].op = "create" THEN Refuses(h, txn[h].row) ELSE Ends(h)

Commit(h) ==
  /\ Writing(h)
  /\ ~Excluded(h) /\ \A g \in Handlers : ~WaitsFor(h, g)
  /\ appts' = [appts EXCEPT ![txn[h].id] = Committed(txn[h].row)]
  /\ Ends(h)
  /\ UNCHANGED <<charge, enabled, now>>

ConflictSlot(h) ==
  /\ Writing(h) /\ Excluded(h)
  /\ ConflictAnswer(h)
  /\ UNCHANGED <<appts, charge, enabled, now>>

WaitInCircle(S) == \A k \in S : \E g \in S : WaitsFor(k, g)
InCycle(h) == \E S \in SUBSET Handlers : h \in S /\ WaitInCircle(S)

DeadlockVictim(h) ==
  /\ InCycle(h)
  /\ ConflictAnswer(h)
  /\ UNCHANGED <<appts, charge, enabled, now>>

-----------------------------------------------------------------------------
(* Charges. *)
ReadForCharge(h, a) ==
  /\ txn[h] = Idle
  /\ \/ appts[a].status \in Active /\ Becomes(h, "charge", "draft", a, appts[a])
     \/ appts[a].status = "completed" /\ charge[a] = NoCharge /\ Becomes(h, "late", "draft", a, appts[a])
  /\ UNCHANGED <<appts, charge, enabled, now>>

Charged(h) == [charge EXCEPT ![txn[h].id] = [service |-> txn[h].row.service, staff |-> txn[h].row.staff]]

CompleteWithPayment_active(h) ==
  LET a == txn[h].id IN
  /\ txn[h].pc = "draft" /\ txn[h].op = "charge" /\ RowFree(a)
  /\ enabled /\ appts[a].status \in Active /\ appts[a].start <= now
  /\ appts' = [appts EXCEPT ![a].status = "completed"]
  /\ charge' = Charged(h)
  /\ Ends(h)
  /\ UNCHANGED <<enabled, now>>

CompleteWithPayment(h) ==
  LET a == txn[h].id IN
  /\ txn[h].pc = "draft" /\ txn[h].op = "charge" /\ RowFree(a)
  /\ \/ /\ enabled /\ appts[a].status \in Active /\ appts[a].start <= now
        /\ appts' = [appts EXCEPT ![a].status = "completed"]
        /\ charge' = Charged(h)
     \/ ~(enabled /\ appts[a].status \in Active /\ appts[a].start <= now) /\ UNCHANGED <<appts, charge>>
  /\ Ends(h)
  /\ UNCHANGED <<enabled, now>>

(* The foreign key of the payment waits for whoever holds the row of the appointment. *)
RecordPaymentForCompleted(h) ==
  LET a == txn[h].id IN
  /\ txn[h].pc = "draft" /\ txn[h].op = "late" /\ RowFree(a)
  /\ \/ charge[a] = NoCharge /\ charge' = Charged(h)
     \/ charge[a] # NoCharge /\ UNCHANGED charge
  /\ Ends(h)
  /\ UNCHANGED <<appts, enabled, now>>

VoidPayment(a) ==
  /\ charge[a] # NoCharge
  /\ charge' = [charge EXCEPT ![a] = NoCharge]
  /\ UNCHANGED <<appts, txn, enabled, now>>

-----------------------------------------------------------------------------
(* FOR SHARE: the module is not switched while a transaction that has read it is open. *)
SwitchModule ==
  /\ \A g \in Handlers : ~InTx(g)
  /\ enabled' = ~enabled
  /\ UNCHANGED <<appts, charge, txn, now>>

Tick == now < MaxTime /\ now' = now + 1 /\ UNCHANGED <<appts, charge, txn, enabled>>

(* The process dies: the database rolls its transaction back. *)
Dies(h) == txn[h] # Idle /\ Ends(h) /\ UNCHANGED <<appts, charge, enabled, now>>

Begin(h) == BeginOff(h) \/ BeginPast(h) \/ BeginPublic(h) \/ BeginAgent(h)
Finish(h) == Commit(h) \/ ConflictSlot(h) \/ DeadlockVictim(h)
Continue(h) ==
  \/ Plan(h) \/ Begin(h) \/ InsertAppointment(h) \/ ReplayAfterRace(h) \/ Refuse(h) \/ WriteEdit(h) \/ Finish(h)
  \/ CompleteWithPayment(h) \/ RecordPaymentForCompleted(h)
Starts(h) ==
  \/ \E q \in Requests : CheckKey(h, q)
  \/ "move" \in Edits /\ \E a \in Ids, s \in Staff, t \in Times : Reschedule(h, a, s, t) \/ CorrectTime(h, a, s, t)
  \/ "service" \in Edits /\ \E a \in Ids, v \in Services : ChangeService(h, a, v)
  \/ "confirm" \in Edits /\ \E a \in Ids : Confirm(h, a)
  \/ "charge" \in Edits /\ \E a \in Ids : ReadForCharge(h, a)

Next ==
  \/ \E h \in Handlers : Starts(h) \/ Continue(h) \/ Dies(h)
  \/ \E a \in Ids, s \in Terminal : Close(a, s)
  \/ \E a \in Ids : VoidPayment(a)
  \/ SwitchModule
  \/ Tick

Spec == Init /\ [][Next]_vars

(* A request goes on; the locks it waits for are granted in the order they are asked for. *)
Fairness == \A h \in Handlers : SF_vars(Continue(h))
FairSpec == Spec /\ Fairness

(* What is waited for can be done: a request is kept from its next step by a lock, a pending *)
(* row or a key of another, and by nothing else.                                              *)
Waits(h) == Writing(h) /\ ~Excluded(h) /\ ~InCycle(h) /\ \E g \in Handlers : WaitsFor(h, g)
Blocks(g, h) ==
  LET r == txn[h].row IN
  \/ txn[h].pc = "begin" /\ r.origin \in {"past", "public"} /\ CreatesAs(g, r.origin)
     /\ (r.origin = "past" => txn[g].row.staff = r.staff)
  \/ (txn[h].pc = "insert" \/ (txn[h].pc = "write" /\ txn[h].op = "move"))
     /\ HasStaffLock(g) /\ txn[g].row.staff = r.staff
  \/ txn[h].pc = "key" /\ Writing(g) /\ txn[g].op = "create" /\ r.key # "none" /\ txn[g].row.key = r.key
  \/ txn[h].pc = "draft" /\ txn[g].pc \in {"write", "written"} /\ txn[g].id = txn[h].id
StepsAreEnabled ==
  \A h \in Handlers :
    txn[h] # Idle /\ ~Waits(h) /\ (\A g \in Handlers : ~Blocks(g, h)) => ENABLED <<Continue(h)>>_vars

-----------------------------------------------------------------------------
Rows == [status : {"none"} \cup Active \cup Terminal, staff : Staff \cup {"none"}, start : Times,
         service : Services \cup {"none"}, key : {"none"} \cup {q.key : q \in Requests},
         origin : Origins \cup {"none"}, asBooked : BOOLEAN]
Txns == [op : {"none", "create", "move", "service", "confirm", "charge", "late"},
         pc : {"idle", "plan", "begin", "insert", "key", "replay", "refused", "write", "written", "draft"},
         id : Ids \cup {"none"}, row : Rows]

(* Every table keeps to its columns, and an appointment that exists has a professional and a service. *)
TypeOK ==
  /\ appts \in [Ids -> Rows]
  /\ \A a \in Ids : appts[a].status # "none" => appts[a].staff \in Staff /\ appts[a].service \in Services
  /\ charge \in [Ids -> [service : Services \cup {"none"}, staff : Staff \cup {"none"}]]
  /\ txn \in [Handlers -> Txns]
  /\ enabled \in BOOLEAN
  /\ now \in Times

(* Whatever requests meet, the agenda is the abstract one: one row at a time, *)
(* along the lifecycle, only while scheduling is on, no professional booked    *)
(* twice at once and no key for two appointments (booking.ts, the exclusion    *)
(* constraint and the idempotency index of the appointments migration).        *)
AbstractAgenda == INSTANCE Agenda
AgendaSpec == AbstractAgenda!AgendaSpec

(* Two attendances written down afterwards for one professional do not overlap *)
(* while they stay as they were registered: the exclusion constraint does not   *)
(* see completed rows, only the past-walk-in lock does (booking.ts:340).        *)
Registered(a) == appts[a].origin = "past" /\ appts[a].asBooked /\ appts[a].status # "none"
PastWalkInsApart ==
  \A a, b \in Ids : a # b /\ Registered(a) /\ Registered(b) => ~Overlap(appts[a], appts[b])

(* The public page never gives a phone more upcoming bookings than the cap,     *)
(* however many it asks for at once (countActiveFutureForPhoneAtSite).          *)
PublicOnes == {a \in ActiveFuture : appts[a].origin = "public" /\ appts[a].asBooked}
CapHolds == Cardinality(PublicOnes) <= Cap

(* Only a completed appointment carries a payment, through every race of its    *)
(* completion with the charge, the cancellation and the no-show (payments.ts).  *)
PaidIsCompleted == \A a \in Ids : charge[a] # NoCharge => appts[a].status = "completed"

(* While a payment is recorded, no edit changes the service or the professional *)
(* it was charged for: the edit checks under the row lock and the payment's     *)
(* foreign key waits for it (booking.ts:1013, :1127).                           *)
PaidStaysAsCharged ==
  [][\A a \in Ids : charge[a] # NoCharge /\ charge'[a] = charge[a]
       => appts'[a].service = appts[a].service /\ appts'[a].staff = appts[a].staff]_vars

(* Creations and moves never deadlock among themselves, whatever they move from   *)
(* and to (insertAppointment, moveInterval): the lock of the professional keeps   *)
(* their new rows apart, and the agenda each read before it wrote keeps them from *)
(* waiting in a circle for the rows others move away. In every circle there is a  *)
(* change of service or a confirmation, which take no such lock.                  *)
LockedWritersDoNotDeadlock ==
  \A S \in (SUBSET Handlers) \ {{}} :
    WaitInCircle(S) => \E g \in S : txn[g].op \in {"service", "confirm"}

(* A request is never stuck behind the locks of others: it is answered, refused  *)
(* or picked as the victim of a deadlock.                                       *)
RequestEnds == \A h \in Handlers : txn[h] # Idle ~> txn[h] = Idle

(* What the documents say and the code does not keep. *)

(* «a retried POST with the same key+payload returns the existing appointment». *)
RetryReplays ==
  \A h \in Handlers, a \in Ids :
    txn[h].pc = "refused" /\ a \in WithKey(txn[h].row.key) => ~SamePayload(appts[a], txn[h].row)

(* «so payment_lines/commissions stay consistent (D1)». *)
ChargeMatches ==
  \A a \in Ids : charge[a] # NoCharge
    => charge[a].service = appts[a].service /\ charge[a].staff = appts[a].staff

(* «serializes into a clean 23P01 rather than a deadlock». *)
NoDeadlock == \A h \in Handlers : ~InCycle(h)
=============================================================================
