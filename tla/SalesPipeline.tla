---------------------------- MODULE SalesPipeline ----------------------------
(***************************************************************************)
(* The sales of one contact (src/pipeline/engine.ts, hooks.ts and          *)
(* autoLost.ts, with the calls from booking.ts and payments.ts): messages, *)
(* bookings, the bot, status changes, payments, people and the auto-lost   *)
(* job move them. What the hooks do runs after the write that caused it    *)
(* has committed, in a transaction of its own at READ COMMITTED.           *)
(*                                                                         *)
(* A transaction that found an open sale holds its row lock to the end, so *)
(* it is one step. One that found none holds nothing: what it reads and    *)
(* what it writes next are steps of their own.                             *)
(***************************************************************************)
EXTENDS Naturals

CONSTANTS Slots,     \* handlers in flight at a time
          NoSlot,
          MaxSales,  \* bound: sales of the contact
          MaxAppts,  \* bound: appointments of the contact
          Ops        \* the operations that happen

ASSUME BoundsAssumption == MaxSales \in Nat \ {0} /\ MaxAppts \in Nat \ {0}
ASSUME SlotsAssumption  == NoSlot \notin Slots

VARIABLES sale,     \* the rows of opportunities, in the order of created_at
          appt,     \* the rows of appointments, with their payment
          last,     \* the last message of the conversation
          speaker,  \* history: the handler whose hook is still to hear the last message
          heard,    \* history: the sale that was open when the customer spoke last
          req,      \* the handlers
          swept     \* what the auto-lost job selected and has not tried yet

vars == <<sale, appt, last, speaker, heard, req, swept>>

Sales == 1..MaxSales
Appts == 1..MaxAppts
Early == {"lead", "qualified"}
Bookings == {"booking", "walkin"}

\* 'scheduled' and 'confirmed' are one status: every guard here accepts both.
NoRow == [status |-> "none", stage |-> "lead", reason |-> "none", recent |-> FALSE, talk |-> FALSE]
NoAppt == [status |-> "none", sale |-> 0, paid |-> FALSE, talk |-> FALSE]
Idle == [pc |-> "idle", op |-> "none", appt |-> 0, sale |-> 0]

Init ==
  /\ sale = [o \in Sales |-> NoRow]
  /\ appt = [a \in Appts |-> NoAppt]
  /\ last = "none" /\ speaker = NoSlot /\ heard = 0
  /\ req = [s \in Slots |-> Idle]
  /\ swept = {}

Existing == {o \in Sales : sale[o].status # "none"}
Open(o) == sale[o].status = "open"
NoneOpen == \A o \in Sales : ~Open(o)
Latest(o) == o \in Existing /\ \A p \in Existing : p <= o
Fresh(o) == sale[o].status = "none" /\ \A p \in 1..(o - 1) : p \in Existing

-----------------------------------------------------------------------------
(* What an operation makes of a row. *)

Opened(stage, talk) ==
  [status |-> "open", stage |-> stage, reason |-> "none", recent |-> FALSE, talk |-> talk]

\* reopen: the stage stays, conversation_id = COALESCE(conversation_id, ...).
Reopened(x, talk) ==
  [x EXCEPT !.status = "open", !.reason = "none", !.recent = FALSE, !.talk = @ \/ talk]

Booked(x, talk) == [x EXCEPT !.stage = "booked", !.talk = @ \/ talk]
Qualified(x) == IF x.stage = "lead" THEN [x EXCEPT !.stage = "qualified"] ELSE x
Lost(x, reason) == [x EXCEPT !.status = "lost", !.reason = reason, !.recent = TRUE]

\* Mutant: the reason of the lost sale stays.
Paid_keepsReason(x) == [x EXCEPT !.status = "won", !.stage = "paid", !.recent = FALSE]

\* payInPlace, after a reopening if the sale was lost; 'talk' matters no more.
Paid(x) == [x EXCEPT !.status = "won", !.stage = "paid", !.reason = "none", !.recent = FALSE]

\* What a message, a booking or the bot does with the open sale.
Served(op, x, talk) ==
  CASE op \in Bookings -> Booked(x, talk)
    [] op = "bot"      -> Qualified(x)
    [] OTHER           -> x

OpeningStage(op) ==
  CASE op \in Bookings -> "booked"
    [] op = "bot"      -> "qualified"
    [] OTHER           -> "lead"

-----------------------------------------------------------------------------
(* Handlers. *)

Begin(s, r) == req[s].pc = "idle" /\ req' = [req EXCEPT ![s] = r]
At(s, pc) == req[s].pc = pc
Goto(s, pc, o) == req' = [req EXCEPT ![s].pc = pc, ![s].sale = o]
Quiets(s) == speaker' = IF speaker = s THEN NoSlot ELSE speaker
Ends(s) == req' = [req EXCEPT ![s] = Idle] /\ Quiets(s)

\* The hook is over, thrown out or not: createAppointment goes on with a past walk-in.
HookEnds(s) ==
  IF req[s].op = "walkin" THEN Goto(s, "reread", 0) /\ UNCHANGED speaker ELSE Ends(s)

Talk(s) == IF req[s].op \in Bookings THEN appt[req[s].appt].talk ELSE TRUE

\* linkAppointment, in the transaction that found or opened the sale.
Links(s, o) ==
  appt' = IF req[s].op \in Bookings THEN [appt EXCEPT ![req[s].appt].sale = o] ELSE appt

\* The process dies: a transaction rolls back, what was committed stays.
HandlerDies(s) ==
  /\ "crash" \in Ops /\ req[s].pc # "idle"
  /\ Ends(s)
  /\ UNCHANGED <<sale, appt, last, heard, swept>>

-----------------------------------------------------------------------------
(* Messages of the conversation. *)

\* The sale that is open when the customer speaks.
HeardNow == IF NoneOpen THEN 0 ELSE CHOOSE o \in Sales : Open(o)

\* A message that declares identities or carries a referral (or the first one): the route
\* stores it and then calls the hook. 'inbound_ad' has an ad touch.
InboundMessage(s, op) ==
  /\ op \in {"inbound", "inbound_ad"} \intersect Ops
  /\ Begin(s, [pc |-> "look", op |-> op, appt |-> 0, sale |-> 0])
  /\ last' = "customer" /\ speaker' = s /\ heard' = HeardNow
  /\ UNCHANGED <<sale, appt, swept>>

\* A message that is pushed again is not stored again (deduped), but its hook runs again.
RepeatedMessage(s, op) ==
  /\ "repeat" \in Ops /\ op \in {"inbound", "inbound_ad"} \intersect Ops /\ last # "none"
  /\ Begin(s, [pc |-> "look", op |-> op, appt |-> 0, sale |-> 0])
  /\ UNCHANGED <<sale, appt, last, speaker, heard, swept>>

\* Any other message of the customer: no hook.
PlainMessage ==
  /\ "plain" \in Ops
  /\ last' = "customer" /\ speaker' = NoSlot /\ heard' = HeardNow
  /\ UNCHANGED <<sale, appt, req, swept>>

BusinessMessage ==
  /\ "business" \in Ops
  /\ last' = "business" /\ speaker' = NoSlot /\ heard' = 0
  /\ UNCHANGED <<sale, appt, req, swept>>

\* auto_lost_after_hours have passed since the last message.
MessageAges ==
  /\ last = "business" /\ last' = "stale"
  /\ UNCHANGED <<sale, appt, speaker, heard, req, swept>>

-----------------------------------------------------------------------------
(* openOnInbound, onBookingCreated and qualifyFromBot. *)

\* createAppointment commits; the appointment has no sale yet. A past walk-in is completed in
\* the same transaction.
CreateAppointment(s, op, a, talk) ==
  /\ op \in Bookings \intersect Ops
  /\ appt[a].status = "none" /\ \A b \in 1..(a - 1) : appt[b].status # "none"
  /\ Begin(s, [pc |-> "look", op |-> op, appt |-> a, sale |-> 0])
  /\ appt' = [appt EXCEPT ![a].status = IF op = "walkin" THEN "completed" ELSE "active",
                          ![a].talk = talk]
  /\ UNCHANGED <<sale, last, speaker, heard, swept>>

BotQualifies(s) ==
  /\ "bot" \in Ops
  /\ Begin(s, [pc |-> "look", op |-> "bot", appt |-> 0, sale |-> 0])
  /\ UNCHANGED <<sale, appt, last, speaker, heard, swept>>

\* lockOpenForContact finds the open sale: the rest happens under its lock.
FindOpen(s, o) ==
  /\ At(s, "look") /\ Open(o)
  /\ sale' = [sale EXCEPT ![o] = Served(req[s].op, @, Talk(s))]
  /\ Links(s, o) /\ HookEnds(s)
  /\ UNCHANGED <<last, heard, swept>>

FindNone(s) ==
  /\ At(s, "look") /\ NoneOpen
  /\ Goto(s, "decide", 0)
  /\ UNCHANGED <<sale, appt, last, speaker, heard, swept>>

RecentlyLost(o) == sale[o].status = "lost" /\ sale[o].recent

\* Of the contact's latest sale, which is not locked: a returning customer's ordinary message
\* and the bot after a won sale open nothing.
MayOpen(op) ==
  CASE op = "inbound" -> Existing = {} /\ \A a \in Appts : appt[a].status = "none"
    [] op = "bot"     -> \A o \in Sales : Latest(o) => sale[o].status # "won"
    [] OTHER          -> TRUE

\* Mutant: a returning customer's ordinary message is dropped first.
DecideReopen_newOnly(s, o) ==
  /\ At(s, "decide") /\ Latest(o) /\ RecentlyLost(o)
  /\ IF req[s].op = "inbound" THEN HookEnds(s) ELSE Goto(s, "reopen", o) /\ UNCHANGED speaker
  /\ UNCHANGED <<sale, appt, last, heard, swept>>

DecideReopen(s, o) ==
  /\ At(s, "decide") /\ Latest(o) /\ RecentlyLost(o)
  /\ Goto(s, "reopen", o)
  /\ UNCHANGED <<sale, appt, last, speaker, heard, swept>>

DecideOpen(s) ==
  /\ At(s, "decide") /\ \A o \in Sales : Latest(o) => ~RecentlyLost(o)
  /\ IF MayOpen(req[s].op) THEN Goto(s, "open", 0) /\ UNCHANGED speaker ELSE HookEnds(s)
  /\ UNCHANGED <<sale, appt, last, heard, swept>>

\* UPDATE ... WHERE status = 'lost', under the index of the one open sale; booking and bot go
\* on with the row they have just locked.
ReopenLost(s, o) ==
  /\ At(s, "reopen") /\ req[s].sale = o
  /\ sale[o].status = "lost" /\ NoneOpen
  /\ sale' = [sale EXCEPT ![o] = Served(req[s].op, Reopened(@, Talk(s)), Talk(s))]
  /\ Links(s, o) /\ HookEnds(s)
  /\ UNCHANGED <<last, heard, swept>>

\* No row, or a unique violation: the transaction throws and hooks.ts counts the failure.
ReopenThrows(s, o) ==
  /\ At(s, "reopen") /\ req[s].sale = o
  /\ sale[o].status # "lost" \/ ~NoneOpen
  /\ HookEnds(s)
  /\ UNCHANGED <<sale, appt, last, heard, swept>>

\* tryOpen and openAtQualified: INSERT ... ON CONFLICT DO NOTHING.
OpenNew(s, o) ==
  /\ At(s, "open") /\ NoneOpen /\ Fresh(o)
  /\ sale' = [sale EXCEPT ![o] = Opened(OpeningStage(req[s].op), Talk(s))]
  /\ Links(s, o) /\ HookEnds(s)
  /\ UNCHANGED <<last, heard, swept>>

OpenLosesRace(s) ==
  /\ At(s, "open") /\ ~NoneOpen
  /\ IF req[s].op \in Bookings \union {"bot"}
     THEN Goto(s, "raced", 0) /\ UNCHANGED speaker ELSE HookEnds(s)
  /\ UNCHANGED <<sale, appt, last, heard, swept>>

\* The open sale of the other transaction: a booking links to it and returns without advancing.
FindRaced(s, o) ==
  /\ At(s, "raced") /\ Open(o)
  /\ sale' = IF req[s].op = "bot" THEN [sale EXCEPT ![o] = Qualified(@)] ELSE sale
  /\ Links(s, o) /\ HookEnds(s)
  /\ UNCHANGED <<last, heard, swept>>

\* ... which may be closed again: nothing is linked (the bot's call throws).
FindRacedNone(s) ==
  /\ At(s, "raced") /\ NoneOpen
  /\ HookEnds(s)
  /\ UNCHANGED <<sale, appt, last, heard, swept>>

\* createAppointment reads the walk-in again, for the sale that was linked just above.
RereadWalkIn(s) ==
  /\ At(s, "reread")
  /\ Goto(s, "status", appt[req[s].appt].sale)
  /\ UNCHANGED <<sale, appt, last, speaker, heard, swept>>

-----------------------------------------------------------------------------
(* transitionStatus and the payments of an appointment. *)

\* The hook gets the row as the UPDATE returned it. 'charge' is completeWithPayment, whose
\* payment is in the same transaction.
TransitionStatus(s, a, target, op) ==
  /\ op \in {"status", "charge"} \intersect Ops
  /\ target \in {"completed", "cancelled", "no_show"} /\ (op = "charge" => target = "completed")
  /\ appt[a].status = "active"
  /\ appt' = [appt EXCEPT ![a].status = target, ![a].paid = (op = "charge")]
  /\ Begin(s, [pc |-> "status", op |-> op, appt |-> a, sale |-> appt[a].sale])
  /\ UNCHANGED <<sale, last, speaker, heard, swept>>

OtherActive(a, o) == \E b \in Appts \ {a} : appt[b].sale = o /\ appt[b].status = "active"

\* onAppointmentStatusChanged on the open row x of sale o.
Driven(x, a, o) ==
  CASE appt[a].status = "completed" -> [x EXCEPT !.status = "won", !.stage = "attended"]
    [] appt[a].status = "no_show"   -> Lost(x, "other")
    [] appt[a].status = "cancelled" /\ x.stage = "booked" /\ ~OtherActive(a, o)
                                    -> [x EXCEPT !.stage = "qualified"]
    [] OTHER                        -> x

\* Mutant: the sale is not asked whether it is still open.
StatusHook_blind(s) ==
  /\ At(s, "status")
  /\ LET a == req[s].appt  o == req[s].sale
     IN  sale' = IF o # 0 THEN [sale EXCEPT ![o] = Driven(@, a, o)] ELSE sale
  /\ IF req[s].op = "charge" THEN Goto(s, "paid", req[s].sale) /\ UNCHANGED speaker ELSE Ends(s)
  /\ UNCHANGED <<appt, last, heard, swept>>

StatusHook(s) ==
  /\ At(s, "status")
  /\ LET a == req[s].appt  o == req[s].sale
     IN  sale' = IF o # 0 /\ Open(o) THEN [sale EXCEPT ![o] = Driven(@, a, o)] ELSE sale
  /\ IF req[s].op = "charge" THEN Goto(s, "paid", req[s].sale) /\ UNCHANGED speaker ELSE Ends(s)
  /\ UNCHANGED <<appt, last, heard, swept>>

\* recordPaymentForCompleted reads the appointment, and its hook gets that row later.
ReadForPayment(s, a) ==
  /\ "payment" \in Ops /\ appt[a].status = "completed" /\ ~appt[a].paid
  /\ Begin(s, [pc |-> "record", op |-> "payment", appt |-> a, sale |-> appt[a].sale])
  /\ UNCHANGED <<sale, appt, last, speaker, heard, swept>>

\* payments_one_recorded_per_appointment refuses the second one.
RecordPayment(s) ==
  /\ At(s, "record")
  /\ LET a == req[s].appt
     IN  IF appt[a].paid THEN Ends(s) /\ UNCHANGED appt
         ELSE /\ appt' = [appt EXCEPT ![a].paid = TRUE]
              /\ Goto(s, "paid", req[s].sale) /\ UNCHANGED speaker
  /\ UNCHANGED <<sale, last, heard, swept>>

\* ensureOpportunityPaidForPayment, A: the linked sale. Of a lost one the reopening throws
\* when another is open.
PayLinked(s, o) ==
  /\ At(s, "paid") /\ req[s].sale = o
  /\ sale' = IF sale[o].status = "lost" /\ ~NoneOpen THEN sale ELSE [sale EXCEPT ![o] = Paid(@)]
  /\ Ends(s)
  /\ UNCHANGED <<appt, last, heard, swept>>

\* B: no sale is linked. The contact's open one ...
PayOpen(s, o) ==
  /\ At(s, "paid") /\ req[s].sale = 0 /\ Open(o)
  /\ sale' = [sale EXCEPT ![o] = Paid(@)]
  /\ appt' = [appt EXCEPT ![req[s].appt].sale = o]
  /\ Ends(s)
  /\ UNCHANGED <<last, heard, swept>>

PayFindsNone(s) ==
  /\ At(s, "paid") /\ req[s].sale = 0 /\ NoneOpen
  /\ Goto(s, "paynew", 0)
  /\ UNCHANGED <<sale, appt, last, speaker, heard, swept>>

\* ... or one inserted as paid, which no index refuses.
PayNew(s, o) ==
  /\ At(s, "paynew") /\ Fresh(o)
  /\ sale' = [sale EXCEPT ![o] = Paid(NoRow)]
  /\ appt' = [appt EXCEPT ![req[s].appt].sale = o]
  /\ Ends(s)
  /\ UNCHANGED <<last, heard, swept>>

\* voidPayment: the UPDATE is guarded by 'recorded'; then the appointment is read.
VoidPayment(s, a) ==
  /\ "payment" \in Ops /\ appt[a].paid
  /\ appt' = [appt EXCEPT ![a].paid = FALSE]
  /\ Begin(s, [pc |-> "voided", op |-> "payment", appt |-> a, sale |-> 0])
  /\ UNCHANGED <<sale, last, speaker, heard, swept>>

ReadVoided(s) ==
  /\ At(s, "voided")
  /\ Goto(s, "unpay", appt[req[s].appt].sale)
  /\ UNCHANGED <<sale, appt, last, speaker, heard, swept>>

RevertPaid(s) ==
  /\ At(s, "unpay")
  /\ LET o == req[s].sale
     IN  sale' = IF o # 0 /\ sale[o].stage = "paid" THEN [sale EXCEPT ![o].stage = "attended"] ELSE sale
  /\ Ends(s)
  /\ UNCHANGED <<appt, last, heard, swept>>

-----------------------------------------------------------------------------
(* The auto-lost job and people. *)

Unanswered(o) ==
  Open(o) /\ sale[o].stage \in Early /\ sale[o].talk /\ last = "stale"

\* Mutant: the job selects leads only.
Candidates_leads == {o \in Sales : Unanswered(o) /\ sale[o].stage = "lead"}

Candidates == {o \in Sales : Unanswered(o)}

SelectUnanswered ==
  /\ swept = {} /\ Candidates # {}
  /\ swept' = Candidates
  /\ UNCHANGED <<sale, appt, last, speaker, heard, req>>

\* Mutant: what was selected is lost, if it is still early.
AutoLose_trusting(o) ==
  /\ o \in swept
  /\ swept' = swept \ {o}
  /\ sale' = IF Open(o) /\ sale[o].stage \in Early THEN [sale EXCEPT ![o] = Lost(@, "no_respondio")] ELSE sale
  /\ UNCHANGED <<appt, last, speaker, heard, req>>

\* autoLoseIfUnanswered checks everything again under the row lock.
AutoLose(o) ==
  /\ o \in swept
  /\ swept' = swept \ {o}
  /\ sale' = IF Unanswered(o) THEN [sale EXCEPT ![o] = Lost(@, "no_respondio")] ELSE sale
  /\ UNCHANGED <<appt, last, speaker, heard, req>>

SweepDies ==
  /\ "crash" \in Ops /\ swept # {}
  /\ swept' = {}
  /\ UNCHANGED <<sale, appt, last, speaker, heard, req>>

\* What a person does to a sale on the board: each is one locked transaction.
ByHand(o, x) ==
  /\ "person" \in Ops
  /\ sale' = [sale EXCEPT ![o] = x]
  /\ UNCHANGED <<appt, last, speaker, heard, req, swept>>

MarkLost(o) == Open(o) /\ ByHand(o, Lost(sale[o], "other"))
ReopenByHand(o) == RecentlyLost(o) /\ NoneOpen /\ ByHand(o, Reopened(sale[o], FALSE))
Qualify(o) == Open(o) /\ sale[o].stage = "lead" /\ ByHand(o, Qualified(sale[o]))
Unqualify(o) ==
  Open(o) /\ sale[o].stage = "qualified" /\ ByHand(o, [sale[o] EXCEPT !.stage = "lead"])

\* reopen_window_days have passed since the sale was lost.
WindowPasses(o) ==
  /\ sale[o].recent
  /\ sale' = [sale EXCEPT ![o].recent = FALSE]
  /\ UNCHANGED <<appt, last, speaker, heard, req, swept>>

-----------------------------------------------------------------------------

Messages == PlainMessage \/ BusinessMessage
Clock == MessageAges \/ \E o \in Sales : WindowPasses(o)

Begins(s) ==
  \/ \E op \in {"inbound", "inbound_ad"} : InboundMessage(s, op) \/ RepeatedMessage(s, op)
  \/ \E op \in Bookings, a \in Appts, talk \in BOOLEAN : CreateAppointment(s, op, a, talk)
  \/ BotQualifies(s)
  \/ \E a \in Appts, op \in {"status", "charge"}, t \in {"completed", "cancelled", "no_show"} :
        TransitionStatus(s, a, t, op)
  \/ \E a \in Appts : ReadForPayment(s, a) \/ VoidPayment(s, a)

Opening(s) ==
  \/ FindNone(s) \/ DecideOpen(s) \/ OpenLosesRace(s) \/ FindRacedNone(s) \/ RereadWalkIn(s)
  \/ \E o \in Sales : FindOpen(s, o) \/ DecideReopen(s, o) \/ ReopenLost(s, o)
                      \/ ReopenThrows(s, o) \/ OpenNew(s, o) \/ FindRaced(s, o)

Paying(s) ==
  \/ StatusHook(s) \/ RecordPayment(s) \/ PayFindsNone(s) \/ ReadVoided(s) \/ RevertPaid(s)
  \/ \E o \in Sales : PayLinked(s, o) \/ PayOpen(s, o) \/ PayNew(s, o)

Handler(s) == Begins(s) \/ Opening(s) \/ Paying(s) \/ HandlerDies(s)

Job == SelectUnanswered \/ SweepDies \/ \E o \in Sales : AutoLose(o)
Board == \E o \in Sales : MarkLost(o) \/ ReopenByHand(o) \/ Qualify(o) \/ Unqualify(o)

Next == Messages \/ Clock \/ Job \/ Board \/ \E s \in Slots : Handler(s)

Spec == Init /\ [][Next]_vars

\* The job runs on an interval, and does not die in every one of its cycles.
FairSpec == Spec /\ WF_vars(SelectUnanswered) /\ \A o \in Sales : SF_vars(AutoLose(o))

\* What is waited for can be done: the job finds what there is to select, and tries what it selected.
StepsAreEnabled ==
  /\ swept = {} /\ Candidates # {} => ENABLED <<SelectUnanswered>>_vars
  /\ \A o \in swept : ENABLED <<AutoLose(o)>>_vars

-----------------------------------------------------------------------------
(* Properties. *)

Rows == [status : {"none", "open", "won", "lost"},
         stage : {"lead", "qualified", "booked", "attended", "paid"},
         reason : {"none", "no_respondio", "other"}, recent : BOOLEAN, talk : BOOLEAN]

\* The funnel agrees with the status, a reason is what a lost sale has.
RowFits(x) ==
  /\ x.status = "none" => x = NoRow
  /\ x.status \in {"open", "lost"} => x.stage \in {"lead", "qualified", "booked"}
  /\ x.status = "won" => x.stage \in {"attended", "paid"}
  /\ (x.status = "lost") <=> (x.reason # "none")
  /\ x.recent => x.status = "lost"

ApptRows == [status : {"none", "active", "completed", "cancelled", "no_show"},
             sale : 0..MaxSales, paid : BOOLEAN, talk : BOOLEAN]

Reqs == [pc : {"idle", "look", "decide", "reopen", "open", "raced", "reread", "status", "record",
               "paid", "paynew", "voided", "unpay"},
         op : {"none", "inbound", "inbound_ad", "bot", "booking", "walkin", "status", "charge",
               "payment"},
         appt : 0..MaxAppts, sale : 0..MaxSales]

\* Every table stays within its columns (1815000000000_sales-pipeline.ts), and a row says
\* nothing that contradicts its status, whatever two transactions do to it.
TypeOK ==
  /\ sale \in [Sales -> Rows] /\ \A o \in Sales : RowFits(sale[o])
  /\ appt \in [Appts -> ApptRows]
  /\ last \in {"none", "customer", "business", "stale"}
  /\ speaker \in Slots \union {NoSlot} /\ heard \in 0..MaxSales
  /\ req \in [Slots -> Reqs]
  /\ swept \in SUBSET Sales

\* The promise to the contact, ContactSales, is kept whatever meets between the reads and the
\* writes of the hooks. The mapping drops what only the handlers and the clock know.
Contact == INSTANCE ContactSales WITH
  SaleIds <- Sales, VisitIds <- Appts, NoSale <- 0,
  phase <- [o \in Sales |-> sale[o].status],
  stage <- [o \in Sales |-> sale[o].stage],
  owner <- [a \in Appts |-> appt[a].sale]
ContactSpec == Contact!ContactSpec

\* A sale that was open when the customer spoke last is not lost as unanswered, whatever the
\* job had selected before (the comment of autoLoseIfUnanswered).
AnsweredStays == heard # 0 => sale[heard].reason # "no_respondio"

HookOver(s) == speaker = s /\ Opening(s) /\ req'[s].pc = "idle"
LostUnanswered(o) == Latest(o) /\ RecentlyLost(o) /\ sale[o].reason = "no_respondio"

\* When the hook of the customer's last message is over, the latest sale is not one that was
\* lost as unanswered within the window, or another is open: whatever reopened, opened or
\* closed between what the hook read and what it wrote (openOnInbound).
HeardIsReopened ==
  [][\A s \in Slots : HookOver(s) =>
        (\E o \in Sales : Open(o)') \/ \A o \in Sales : ~LostUnanswered(o)']_vars

\* A sale the business has written to in vain does not stay open for ever.
UnansweredIsLost == \A o \in Sales : Unanswered(o) ~> ~Unanswered(o)

-----------------------------------------------------------------------------
(* What the repository says and the code does not do. *)

AllQuiet == \A s \in Slots : req[s].pc = "idle"

\* A booked sale waits for an appointment: a completed one wins it, a cancelled one puts it back
\* to qualified (onAppointmentStatusChanged). Of sales that nobody reopened.
BookedIsAwaited ==
  AllQuiet => \A o \in Sales : Open(o) /\ sale[o].stage = "booked" =>
                 \E a \in Appts : appt[a].sale = o /\ appt[a].status = "active"

\* JP-6: a recorded payment leaves its sale at 'paid'.
PaymentLeavesSalePaid ==
  AllQuiet => \A a \in Appts : appt[a].paid =>
                 appt[a].sale # 0 /\ sale[appt[a].sale].stage = "paid"
=============================================================================
