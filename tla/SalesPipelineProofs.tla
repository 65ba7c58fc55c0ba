------------------------- MODULE SalesPipelineProofs -------------------------
(***************************************************************************)
(* Theorems about SalesPipeline for every number of handlers, sales and    *)
(* appointments, and every set of operations.                              *)
(*                                                                         *)
(* Every action is shown to take a step of one form (SaleStep, ApptStep,   *)
(* ReqStep, TalkStep); the invariant and the refinement follow from the    *)
(* forms alone.                                                            *)
(***************************************************************************)
EXTENDS SalesPipeline, TLAPS, FiniteSetTheorems, WellFoundedInduction

\* Appointments and handlers refer to rows that exist.
LinksExist ==
  /\ \A a \in Appts : appt[a].sale # 0 => appt[a].sale \in Existing
  /\ \A s \in Slots : req[s].sale # 0 => req[s].sale \in Existing

\* Whoever works on an appointment has one.
NeedsAppt(r) ==
  \/ r.op \notin {"none", "inbound", "inbound_ad", "bot"}
  \/ r.pc \notin {"idle", "look", "decide", "reopen", "open", "raced"}

HandlersHaveAppt == \A s \in Slots : NeedsAppt(req[s]) => req[s].appt \in Appts

OneOpenSale == \A o, p \in Sales : Open(o) /\ Open(p) => o = p

\* What the customer answered: stronger than AnsweredStays.
HeardIsLive == heard # 0 => last = "customer" /\ sale[heard].reason # "no_respondio"

IInv == TypeOK /\ LinksExist /\ HandlersHaveAppt /\ OneOpenSale /\ HeardIsLive

-----------------------------------------------------------------------------
(* The legal moves of one row, as ContactSales has them. *)

RowOpens(y, x) ==
  /\ x.status = "open"
  /\ \/ y.status = "none" /\ x.stage \in {"lead", "qualified", "booked"}
     \/ y.status \in {"open", "lost"} /\ x.stage = y.stage
     \/ y.status \in {"open", "lost"} /\ y.stage = "lead" /\ x.stage = "qualified"
     \/ y.status \in {"open", "lost"} /\ y.stage \in Early /\ x.stage = "booked"
     \/ y.status = "open" /\ y.stage = "qualified" /\ x.stage = "lead"
     \/ y.status = "open" /\ y.stage = "booked" /\ x.stage = "qualified"

RowMoves(y, x) ==
  \/ RowOpens(y, x)
  \/ y.status = "open" /\ x.status = "lost" /\ x.stage = y.stage
  \/ y.status = "open" /\ x.status = "won" /\ x.stage = "attended"
  \/ y.stage # "paid" /\ x.status = "won" /\ x.stage = "paid"
  \/ y.status = "won" /\ y.stage = "paid" /\ x.status = "won" /\ x.stage = "attended"
  \/ x.status = y.status /\ x.stage = y.stage

\* A row that becomes x; one that is lost as unanswered needs a stale message.
Writes(o, x) ==
  /\ o \in Sales /\ x \in Rows /\ RowFits(x) /\ x.status # "none"
  /\ RowMoves(sale[o], x)
  /\ x.status = "open" /\ ~Open(o) => NoneOpen
  /\ x.reason = "no_respondio" => sale[o].reason = "no_respondio" \/ last = "stale"
  /\ sale' = [sale EXCEPT ![o] = x]

SaleStep == UNCHANGED sale \/ \E o, x : Writes(o, x)

ApptStep ==
  /\ appt' \in [Appts -> ApptRows]
  /\ \A a \in Appts : appt'[a].sale # appt[a].sale =>
        /\ appt'[a].sale \in Sales
        /\ sale'[appt'[a].sale].status = "open" \/ sale'[appt'[a].sale].stage = "paid"

ReqFits(r) == r \in Reqs /\ (NeedsAppt(r) => r.appt \in Appts)

ReqStep ==
  /\ req' \in [Slots -> Reqs]
  /\ \A s \in Slots : ReqFits(req'[s]) /\ (req'[s].sale # 0 => req'[s].sale \in Existing)

TalkStep ==
  /\ last' \in {"none", "customer", "business", "stale"}
  /\ speaker' \in Slots \union {NoSlot} /\ heard' \in 0..MaxSales /\ swept' \in SUBSET Sales
  /\ \/ heard' = 0
     \/ last' = last /\ heard' = heard
     \/ last' = "customer" /\ Open(heard') /\ heard' \in Sales /\ UNCHANGED sale

Steps == SaleStep /\ ApptStep /\ ReqStep /\ TalkStep

-----------------------------------------------------------------------------
(* What the row operators keep. *)

\* The row with some conversation, whatever COALESCE makes of it.
LEMMA BookedFits ==
  ASSUME NEW x \in Rows, RowFits(x), x.status = "open", NEW talk \in BOOLEAN
  PROVE  /\ Booked(x, talk) \in Rows /\ RowFits(Booked(x, talk)) /\ Booked(x, talk).status = "open"
         /\ Booked(x, talk).reason = "none" /\ Booked(x, talk).stage = "booked"
<1>1. PICK b \in BOOLEAN : b = (x.talk \/ talk)
  BY Zenon
<1>2. Booked(x, talk) = [x EXCEPT !.stage = "booked", !.talk = b]
  BY <1>1 DEF Booked
<1> QED BY <1>2 DEF Rows, RowFits, NoRow

LEMMA ServedFits ==
  ASSUME NEW x \in Rows, RowFits(x), x.status = "open", NEW op, NEW talk \in BOOLEAN
  PROVE  /\ Served(op, x, talk) \in Rows /\ RowFits(Served(op, x, talk))
         /\ Served(op, x, talk).status = "open" /\ Served(op, x, talk).reason = "none"
         /\ RowOpens(x, Served(op, x, talk))
<1>1. CASE op \in Bookings
  <2>1. Served(op, x, talk) = Booked(x, talk)
    BY <1>1 DEF Served, Bookings
  <2>2. x.stage \in {"lead", "qualified", "booked"}
    BY DEF RowFits
  <2>3. /\ Booked(x, talk) \in Rows /\ RowFits(Booked(x, talk)) /\ Booked(x, talk).status = "open"
        /\ Booked(x, talk).reason = "none" /\ Booked(x, talk).stage = "booked"
    BY BookedFits
  <2> QED BY <2>1, <2>2, <2>3 DEF RowOpens, Early
<1>2. CASE op \notin Bookings /\ op = "bot"
  BY <1>2 DEF Served, Qualified, Rows, RowFits, RowOpens, Early, NoRow
<1>3. CASE op \notin Bookings /\ op # "bot"
  BY <1>3 DEF Served, Rows, RowFits, RowOpens, NoRow
<1> QED BY <1>1, <1>2, <1>3

LEMMA ReopenedFits ==
  ASSUME NEW x \in Rows, RowFits(x), x.status = "lost", NEW talk \in BOOLEAN
  PROVE  /\ Reopened(x, talk) \in Rows /\ RowFits(Reopened(x, talk))
         /\ Reopened(x, talk).status = "open" /\ Reopened(x, talk).stage = x.stage
BY DEF Reopened, Rows, RowFits, NoRow

LEMMA ReopenedServed ==
  ASSUME NEW x \in Rows, RowFits(x), x.status = "lost", NEW op, NEW talk \in BOOLEAN
  PROVE  RowOpens(x, Served(op, Reopened(x, talk), talk))
<1> DEFINE y == Reopened(x, talk)
<1>1. y \in Rows /\ RowFits(y) /\ y.status = "open" /\ y.stage = x.stage
  BY ReopenedFits
<1>2. RowOpens(y, Served(op, y, talk)) /\ Served(op, y, talk).status = "open"
  BY <1>1, ServedFits
<1>3. Served(op, y, talk).stage \in {y.stage, "booked"} \/ (y.stage = "lead" /\ Served(op, y, talk).stage = "qualified")
  <2>1. CASE op \in Bookings
    <3>1. Booked(y, talk).stage = "booked"
      BY <1>1, BookedFits
    <3>2. Served(op, y, talk) = Booked(y, talk)
      BY <2>1 DEF Served, Bookings
    <3> QED BY <3>1, <3>2
  <2>2. CASE op \notin Bookings /\ op = "bot"
    BY <1>1, <2>2 DEF Served, Qualified, Rows
  <2>3. CASE op \notin Bookings /\ op # "bot"
    BY <2>3 DEF Served
  <2> QED BY <2>1, <2>2, <2>3
<1>4. x.stage \in {"lead", "qualified", "booked"}
  BY DEF RowFits
<1> HIDE DEF y
<1> QED BY <1>1, <1>2, <1>3, <1>4 DEF RowOpens, Early, y

LEMMA OpenedFits ==
  ASSUME NEW op, NEW talk \in BOOLEAN, NEW y \in Rows, y.status = "none"
  PROVE  LET x == Opened(OpeningStage(op), talk)
         IN  x \in Rows /\ RowFits(x) /\ x.status = "open" /\ x.reason = "none" /\ RowOpens(y, x)
<1>1. OpeningStage(op) \in {"lead", "qualified", "booked"}
  BY DEF OpeningStage
<1> QED BY <1>1 DEF Opened, Rows, RowFits, RowOpens, NoRow

LEMMA PaidFits ==
  ASSUME NEW x \in Rows, RowFits(x)
  PROVE  /\ Paid(x) \in Rows /\ RowFits(Paid(x)) /\ RowMoves(x, Paid(x))
         /\ Paid(x).status = "won" /\ Paid(x).stage = "paid" /\ Paid(x).reason = "none"
<1>1. /\ Paid(x) \in Rows /\ Paid(x).status = "won" /\ Paid(x).stage = "paid"
      /\ Paid(x).reason = "none" /\ Paid(x).recent = FALSE
  BY DEF Paid, Rows
<1>2. RowFits(Paid(x))
  BY <1>1 DEF RowFits
<1>3. x.stage = "paid" => x.status = "won"
  BY DEF RowFits, Rows, NoRow
<1>4. RowMoves(x, Paid(x))
  BY <1>1, <1>3 DEF RowMoves
<1> QED BY <1>1, <1>2, <1>4

LEMMA LostFits ==
  ASSUME NEW x \in Rows, RowFits(x), x.status = "open", NEW reason \in {"no_respondio", "other"}
  PROVE  /\ Lost(x, reason) \in Rows /\ RowFits(Lost(x, reason)) /\ RowMoves(x, Lost(x, reason))
         /\ Lost(x, reason).status = "lost" /\ Lost(x, reason).reason = reason
BY DEF Lost, Rows, RowFits, RowMoves, NoRow

LEMMA DrivenFits ==
  ASSUME NEW x \in Rows, RowFits(x), x.status = "open", NEW a, NEW o
  PROVE  /\ Driven(x, a, o) \in Rows /\ RowFits(Driven(x, a, o)) /\ RowMoves(x, Driven(x, a, o))
         /\ Driven(x, a, o).status # "none" /\ Driven(x, a, o).reason # "no_respondio"
<1> DEFINE won == [x EXCEPT !.status = "won", !.stage = "attended"]
           back == [x EXCEPT !.stage = "qualified"]
<1>1. won \in Rows /\ RowFits(won) /\ RowMoves(x, won) /\ won.status # "none" /\ won.reason # "no_respondio"
  BY DEF Rows, RowFits, RowMoves, NoRow
<1>2. x.stage = "booked" => back \in Rows /\ RowFits(back) /\ RowMoves(x, back) /\ back.status # "none"
                            /\ back.reason # "no_respondio"
  BY DEF Rows, RowFits, RowMoves, RowOpens, NoRow
<1>3. RowMoves(x, x) /\ x.status # "none" /\ x.reason # "no_respondio"
  BY DEF Rows, RowFits, RowMoves
<1>4. /\ Lost(x, "other") \in Rows /\ RowFits(Lost(x, "other")) /\ RowMoves(x, Lost(x, "other"))
      /\ Lost(x, "other").status # "none" /\ Lost(x, "other").reason # "no_respondio"
  BY LostFits
<1>5. Driven(x, a, o) \in {won, Lost(x, "other"), x} \/ (x.stage = "booked" /\ Driven(x, a, o) = back)
  BY DEF Driven
<1> QED BY <1>1, <1>2, <1>3, <1>4, <1>5
-----------------------------------------------------------------------------
(* The forms a step takes. *)

LEMMA Columns ==
  ASSUME IInv
  PROVE  /\ sale \in [Sales -> Rows] /\ \A o \in Sales : RowFits(sale[o])
         /\ appt \in [Appts -> ApptRows] /\ req \in [Slots -> Reqs]
         /\ \A s \in Slots : ReqFits(req[s]) /\ (req[s].sale # 0 => req[s].sale \in Existing)
         /\ \A a \in Appts : appt[a].sale # 0 => appt[a].sale \in Existing
         /\ last \in {"none", "customer", "business", "stale"}
         /\ speaker \in Slots \union {NoSlot} /\ heard \in 0..MaxSales /\ swept \in SUBSET Sales
BY DEF IInv, TypeOK, LinksExist, HandlersHaveAppt, ReqFits

LEMMA ReqChanges ==
  ASSUME IInv, NEW s \in Slots, NEW r, ReqFits(r), r.sale # 0 => r.sale \in Existing,
         req' = [req EXCEPT ![s] = r]
  PROVE  ReqStep
BY Columns DEF ReqStep, ReqFits

LEMMA GotoFits ==
  ASSUME IInv, NEW s \in Slots, NEW o \in Existing \union {0},
         NEW pc \in {"decide", "reopen", "open", "raced", "reread", "status", "paid", "paynew", "unpay"},
         pc \notin {"decide", "reopen", "open", "raced"} => NeedsAppt(req[s]),
         Goto(s, pc, o)
  PROVE  ReqStep
<1> DEFINE r == [req[s] EXCEPT !.pc = pc, !.sale = o]
<1>1. req' = [req EXCEPT ![s] = r]
  BY Columns DEF Goto, Reqs
<1>2. req[s] \in Reqs /\ ReqFits(req[s]) /\ o \in 0..MaxSales
  BY Columns, BoundsAssumption DEF Existing, Sales
<1>3. r \in Reqs /\ r.sale = o /\ r.op = req[s].op /\ r.appt = req[s].appt /\ r.pc = pc
  BY <1>2 DEF Reqs
<1>4. ReqFits(r)
  BY <1>2, <1>3 DEF ReqFits, NeedsAppt
<1> QED BY <1>1, <1>3, <1>4, ReqChanges

LEMMA EndsFits ==
  ASSUME IInv, NEW s \in Slots, Ends(s)
  PROVE  ReqStep /\ speaker' \in Slots \union {NoSlot}
<1>1. ReqFits(Idle) /\ Idle.sale = 0
  BY BoundsAssumption DEF ReqFits, NeedsAppt, Reqs, Idle
<1> QED BY <1>1, ReqChanges, Columns DEF Ends, Quiets

LEMMA HookEndsFits ==
  ASSUME IInv, NEW s \in Slots, HookEnds(s)
  PROVE  ReqStep /\ speaker' \in Slots \union {NoSlot}
<1>1. CASE req[s].op = "walkin"
  BY <1>1, GotoFits, Columns DEF HookEnds, NeedsAppt
<1>2. CASE req[s].op # "walkin"
  BY <1>2, EndsFits DEF HookEnds
<1> QED BY <1>1, <1>2

LEMMA TalkKept ==
  ASSUME IInv, UNCHANGED <<last, heard, swept>>, speaker' \in Slots \union {NoSlot}
  PROVE  TalkStep
BY Columns DEF TalkStep

LEMMA ApptKept ==
  ASSUME IInv, UNCHANGED appt
  PROVE  ApptStep
BY Columns DEF ApptStep

LEMMA ApptChanges ==
  ASSUME IInv, NEW a \in Appts, NEW x \in ApptRows, appt' = [appt EXCEPT ![a] = x],
         \/ x.sale = appt[a].sale
         \/ x.sale \in Sales /\ (sale'[x.sale].status = "open" \/ sale'[x.sale].stage = "paid")
  PROVE  ApptStep
BY Columns DEF ApptStep

LEMMA LinkFits ==
  ASSUME IInv, NEW a \in Appts, NEW o \in Sales, appt' = [appt EXCEPT ![a].sale = o],
         sale'[o].status = "open" \/ sale'[o].stage = "paid"
  PROVE  ApptStep
<1> DEFINE x == [appt[a] EXCEPT !.sale = o]
<1>1. x \in ApptRows /\ x.sale = o
  BY Columns DEF ApptRows, Sales
<1>2. appt' = [appt EXCEPT ![a] = x]
  BY Columns DEF ApptRows
<1> QED BY <1>1, <1>2, ApptChanges

LEMMA LinksFit ==
  ASSUME IInv, NEW s \in Slots, NEW o \in Sales, Links(s, o), sale'[o].status = "open"
  PROVE  ApptStep
<1>1. CASE req[s].op \in Bookings
  <2>1. req[s].appt \in Appts
    BY <1>1, Columns DEF ReqFits, NeedsAppt, Bookings
  <2> QED BY <2>1, <1>1, LinkFits DEF Links
<1>2. CASE req[s].op \notin Bookings
  BY <1>2, ApptKept DEF Links
<1> QED BY <1>1, <1>2

LEMMA TalkIsBoolean ==
  ASSUME IInv, NEW s \in Slots
  PROVE  Talk(s) \in BOOLEAN
<1>1. req[s].op \in Bookings => req[s].appt \in Appts
  BY Columns DEF ReqFits, NeedsAppt, Bookings
<1> QED BY <1>1, Columns DEF Talk, ApptRows
-----------------------------------------------------------------------------
(* What the handlers do to the sale. *)

LEMMA OpeningSteps ==
  ASSUME IInv, NEW s \in Slots, Opening(s)
  PROVE  Steps
<1> USE DEF Steps
<1>0. /\ \A o \in Sales : sale[o] \in Rows /\ RowFits(sale[o])
      /\ Talk(s) \in BOOLEAN
      /\ speaker \in Slots \union {NoSlot}
  BY Columns, TalkIsBoolean
<1>1. ASSUME NEW o \in Sales, FindOpen(s, o) PROVE Steps
  <2> DEFINE x == Served(req[s].op, sale[o], Talk(s))
  <2>1. sale' = [sale EXCEPT ![o] = x] /\ Links(s, o) /\ HookEnds(s) /\ UNCHANGED <<last, heard, swept>>
    BY <1>1 DEF FindOpen
  <2>2. sale[o] \in Rows /\ RowFits(sale[o]) /\ sale[o].status = "open"
    BY <1>0, <1>1 DEF FindOpen, Open
  <2>3. x \in Rows /\ RowFits(x) /\ x.status = "open" /\ x.reason = "none" /\ RowOpens(sale[o], x)
    BY <1>0, <2>2, ServedFits
  <2> HIDE DEF x
  <2>4. SaleStep
    BY <2>1, <2>2, <2>3 DEF SaleStep, Writes, RowMoves, Open
  <2>5. sale'[o].status = "open"
    BY <2>1, <2>3, Columns
  <2> QED BY <2>1, <2>4, <2>5, LinksFit, HookEndsFits, TalkKept
<1>2. CASE FindNone(s) \/ RereadWalkIn(s)
  <2>1. ReqStep
    <3>1. CASE FindNone(s)
      BY <3>1, GotoFits DEF FindNone
    <3>2. CASE RereadWalkIn(s)
      <4>1. NeedsAppt(req[s]) /\ req[s].appt \in Appts
        BY <3>2, Columns DEF RereadWalkIn, At, NeedsAppt, ReqFits
      <4>2. appt[req[s].appt].sale \in Existing \union {0}
        BY <4>1, Columns
      <4> QED BY <4>1, <4>2, <3>2, GotoFits DEF RereadWalkIn
    <3> QED BY <3>1, <3>2, <1>2
  <2>2. UNCHANGED <<sale, appt, last, speaker, heard, swept>>
    BY <1>2 DEF FindNone, RereadWalkIn
  <2> QED BY <1>0, <2>1, <2>2, ApptKept, TalkKept DEF SaleStep
<1>3. ASSUME NEW o \in Sales, DecideReopen(s, o) PROVE Steps
  <2>1. o \in Existing /\ Goto(s, "reopen", o) /\ UNCHANGED <<sale, appt, last, speaker, heard, swept>>
    BY <1>3 DEF DecideReopen, Latest
  <2> QED BY <1>0, <2>1, GotoFits, ApptKept, TalkKept DEF SaleStep
<1>4. CASE DecideOpen(s) \/ OpenLosesRace(s)
  <2>1. UNCHANGED <<sale, appt, last, heard, swept>>
    BY <1>4 DEF DecideOpen, OpenLosesRace
  <2>2. HookEnds(s) \/ (\E pc \in {"open", "raced"} : Goto(s, pc, 0) /\ UNCHANGED speaker)
    BY <1>4 DEF DecideOpen, OpenLosesRace
  <2>3. ReqStep /\ speaker' \in Slots \union {NoSlot}
    BY <1>0, <2>2, HookEndsFits, GotoFits
  <2> QED BY <2>1, <2>3, ApptKept, TalkKept DEF SaleStep
<1>5. ASSUME NEW o \in Sales, ReopenLost(s, o) PROVE Steps
  <2> DEFINE y == Reopened(sale[o], Talk(s))
             x == Served(req[s].op, y, Talk(s))
  <2>1. sale' = [sale EXCEPT ![o] = x] /\ Links(s, o) /\ HookEnds(s) /\ UNCHANGED <<last, heard, swept>>
    BY <1>5 DEF ReopenLost
  <2>2. sale[o] \in Rows /\ RowFits(sale[o]) /\ sale[o].status = "lost" /\ NoneOpen
    BY <1>0, <1>5 DEF ReopenLost
  <2>3. y \in Rows /\ RowFits(y) /\ y.status = "open"
    BY <1>0, <2>2, ReopenedFits
  <2>4. RowOpens(sale[o], x)
    BY <1>0, <2>2, ReopenedServed
  <2> HIDE DEF y
  <2>5. x \in Rows /\ RowFits(x) /\ x.status = "open" /\ x.reason = "none"
    BY <1>0, <2>3, ServedFits
  <2> HIDE DEF x
  <2>6. SaleStep
    BY <2>1, <2>2, <2>4, <2>5 DEF SaleStep, Writes, RowMoves, Open
  <2>7. sale'[o].status = "open"
    BY <2>1, <2>5, Columns
  <2> QED BY <2>1, <2>6, <2>7, LinksFit, HookEndsFits, TalkKept
<1>6. ASSUME FindRacedNone(s) \/ \E o \in Sales : ReopenThrows(s, o) PROVE Steps
  <2>1. HookEnds(s) /\ UNCHANGED <<sale, appt, last, heard, swept>>
    BY <1>6 DEF FindRacedNone, ReopenThrows
  <2> QED BY <2>1, HookEndsFits, ApptKept, TalkKept DEF SaleStep
<1>7. ASSUME NEW o \in Sales, OpenNew(s, o) PROVE Steps
  <2> DEFINE x == Opened(OpeningStage(req[s].op), Talk(s))
  <2>1. sale' = [sale EXCEPT ![o] = x] /\ Links(s, o) /\ HookEnds(s) /\ UNCHANGED <<last, heard, swept>>
    BY <1>7 DEF OpenNew
  <2>2. sale[o] \in Rows /\ sale[o].status = "none" /\ NoneOpen
    BY <1>0, <1>7 DEF OpenNew, Fresh
  <2>3. x \in Rows /\ RowFits(x) /\ x.status = "open" /\ x.reason = "none" /\ RowOpens(sale[o], x)
    BY <1>0, <2>2, OpenedFits
  <2> HIDE DEF x
  <2>4. SaleStep
    BY <2>1, <2>2, <2>3 DEF SaleStep, Writes, RowMoves, Open
  <2>5. sale'[o].status = "open"
    BY <2>1, <2>3, Columns
  <2> QED BY <2>1, <2>4, <2>5, LinksFit, HookEndsFits, TalkKept
<1>8. ASSUME NEW o \in Sales, FindRaced(s, o) PROVE Steps
  <2> DEFINE x == Served("bot", sale[o], TRUE)
  <2>1. /\ sale' = [sale EXCEPT ![o] = x] \/ UNCHANGED sale
        /\ Links(s, o) /\ HookEnds(s) /\ UNCHANGED <<last, heard, swept>>
    BY <1>8 DEF FindRaced, Served, Bookings
  <2>2. sale[o] \in Rows /\ RowFits(sale[o]) /\ sale[o].status = "open"
    BY <1>0, <1>8 DEF FindRaced, Open
  <2>3. x \in Rows /\ RowFits(x) /\ x.status = "open" /\ x.reason = "none" /\ RowOpens(sale[o], x)
    BY <2>2, ServedFits
  <2> HIDE DEF x
  <2>4. SaleStep
    BY <2>1, <2>2, <2>3 DEF SaleStep, Writes, RowMoves, Open
  <2>5. sale'[o].status = "open"
    BY <2>1, <2>2, <2>3, Columns
  <2> QED BY <2>1, <2>4, <2>5, LinksFit, HookEndsFits, TalkKept
<1> QED BY <1>1, <1>2, <1>3, <1>4, <1>5, <1>6, <1>7, <1>8 DEF Opening
LEMMA PaidStep ==
  ASSUME IInv, NEW o \in Sales, sale' = [sale EXCEPT ![o] = Paid(@)]
  PROVE  SaleStep /\ sale'[o].stage = "paid"
<1>1. sale[o] \in Rows /\ RowFits(sale[o])
  BY Columns
<1>2. /\ Paid(sale[o]) \in Rows /\ RowFits(Paid(sale[o])) /\ RowMoves(sale[o], Paid(sale[o]))
      /\ Paid(sale[o]).status = "won" /\ Paid(sale[o]).stage = "paid" /\ Paid(sale[o]).reason = "none"
  BY <1>1, PaidFits
<1> QED BY <1>2, Columns DEF SaleStep, Writes

LEMMA PayingSteps ==
  ASSUME IInv, NEW s \in Slots, Paying(s)
  PROVE  Steps
<1> USE DEF Steps
<1>0. /\ \A o \in Sales : sale[o] \in Rows /\ RowFits(sale[o])
      /\ ReqFits(req[s]) /\ req[s].sale \in Existing \union {0}
      /\ \A a \in Appts : appt[a] \in ApptRows
      /\ speaker \in Slots \union {NoSlot}
  BY Columns
<1>1. CASE StatusHook(s)
  <2> DEFINE o == req[s].sale
             x == Driven(sale[o], req[s].appt, o)
  <2>1. /\ UNCHANGED sale \/ (o # 0 /\ Open(o) /\ sale' = [sale EXCEPT ![o] = x])
        /\ Ends(s) \/ (Goto(s, "paid", o) /\ UNCHANGED speaker)
        /\ UNCHANGED <<appt, last, heard, swept>> /\ At(s, "status")
    BY <1>1 DEF StatusHook
  <2>2. SaleStep
    <3>1. SUFFICES ASSUME o # 0, Open(o), sale' = [sale EXCEPT ![o] = x] PROVE SaleStep
      BY <2>1 DEF SaleStep
    <3>2. o \in Sales /\ sale[o] \in Rows /\ RowFits(sale[o]) /\ sale[o].status = "open"
      BY <1>0, <3>1 DEF Open, Existing
    <3>3. x \in Rows /\ RowFits(x) /\ RowMoves(sale[o], x) /\ x.status # "none" /\ x.reason # "no_respondio"
      BY <3>2, DrivenFits
    <3> HIDE DEF x
    <3> QED BY <3>1, <3>2, <3>3 DEF SaleStep, Writes
  <2>3. ReqStep /\ speaker' \in Slots \union {NoSlot}
    <3>1. NeedsAppt(req[s])
      BY <2>1 DEF At, NeedsAppt
    <3> QED BY <1>0, <2>1, <3>1, EndsFits, GotoFits
  <2> QED BY <2>1, <2>2, <2>3, ApptKept, TalkKept
<1>2. CASE RecordPayment(s)
  <2> DEFINE a == req[s].appt
             x == [appt[a] EXCEPT !.paid = TRUE]
  <2>1. NeedsAppt(req[s]) /\ a \in Appts
    BY <1>0, <1>2 DEF RecordPayment, At, NeedsAppt, ReqFits
  <2>2. /\ \/ Ends(s) /\ UNCHANGED appt
           \/ Goto(s, "paid", req[s].sale) /\ UNCHANGED speaker /\ appt' = [appt EXCEPT ![a].paid = TRUE]
        /\ UNCHANGED <<sale, last, heard, swept>>
    BY <1>2 DEF RecordPayment
  <2>3. x \in ApptRows /\ x.sale = appt[a].sale /\ [appt EXCEPT ![a].paid = TRUE] = [appt EXCEPT ![a] = x]
    BY <1>0, <2>1, Columns DEF ApptRows
  <2>4. ApptStep
    BY <2>1, <2>2, <2>3, ApptKept, ApptChanges
  <2>5. ReqStep /\ speaker' \in Slots \union {NoSlot}
    BY <1>0, <2>1, <2>2, EndsFits, GotoFits
  <2> QED BY <2>2, <2>4, <2>5, TalkKept DEF SaleStep
<1>3. ASSUME NEW o \in Sales, PayLinked(s, o) PROVE Steps
  <2>1. /\ UNCHANGED sale \/ sale' = [sale EXCEPT ![o] = Paid(@)]
        /\ Ends(s) /\ UNCHANGED <<appt, last, heard, swept>>
    BY <1>3 DEF PayLinked
  <2> QED BY <2>1, PaidStep, EndsFits, ApptKept, TalkKept DEF SaleStep
<1>4. ASSUME NEW o \in Sales, PayOpen(s, o) \/ PayNew(s, o) PROVE Steps
  <2>1. req[s].appt \in Appts
    BY <1>0, <1>4 DEF PayOpen, PayNew, At, NeedsAppt, ReqFits
  <2>2. /\ appt' = [appt EXCEPT ![req[s].appt].sale = o]
        /\ Ends(s) /\ UNCHANGED <<last, heard, swept>>
    BY <1>4 DEF PayOpen, PayNew
  <2>3. sale' = [sale EXCEPT ![o] = Paid(@)]
    <3>1. CASE PayOpen(s, o)
      BY <3>1 DEF PayOpen
    <3>2. CASE PayNew(s, o)
      BY <1>0, <3>2 DEF PayNew, Fresh, RowFits
    <3> QED BY <1>4, <3>1, <3>2
  <2> QED BY <2>1, <2>2, <2>3, PaidStep, EndsFits, LinkFits, TalkKept
<1>5. CASE PayFindsNone(s) \/ ReadVoided(s)
  <2>1. NeedsAppt(req[s]) /\ req[s].appt \in Appts
    BY <1>0, <1>5 DEF PayFindsNone, ReadVoided, At, NeedsAppt, ReqFits
  <2>2. appt[req[s].appt].sale \in Existing \union {0}
    BY <2>1, Columns
  <2>3. /\ Goto(s, "paynew", 0) \/ Goto(s, "unpay", appt[req[s].appt].sale)
        /\ UNCHANGED <<sale, appt, last, speaker, heard, swept>>
    BY <1>5 DEF PayFindsNone, ReadVoided
  <2> QED BY <1>0, <2>1, <2>2, <2>3, GotoFits, ApptKept, TalkKept DEF SaleStep
<1>6. CASE RevertPaid(s)
  <2> DEFINE o == req[s].sale
             x == [sale[o] EXCEPT !.stage = "attended"]
  <2>1. /\ UNCHANGED sale
           \/ (o # 0 /\ sale[o].stage = "paid" /\ sale' = [sale EXCEPT ![o].stage = "attended"])
        /\ Ends(s) /\ UNCHANGED <<appt, last, heard, swept>>
    BY <1>6 DEF RevertPaid
  <2>2. SaleStep
    <3>1. SUFFICES ASSUME o # 0, sale[o].stage = "paid", sale' = [sale EXCEPT ![o].stage = "attended"]
                   PROVE  SaleStep
      BY <2>1 DEF SaleStep
    <3>2. o \in Sales /\ sale[o] \in Rows /\ RowFits(sale[o])
      BY <1>0, <3>1 DEF Existing
    <3>3. sale[o].status = "won" /\ sale[o].reason = "none"
      BY <3>1, <3>2 DEF RowFits, Rows, NoRow
    <3>4. /\ x \in Rows /\ x.status = "won" /\ x.stage = "attended" /\ x.reason = "none"
          /\ x.recent = sale[o].recent
      BY <3>2, <3>3 DEF Rows
    <3>5. RowFits(x) /\ RowMoves(sale[o], x)
      BY <3>1, <3>2, <3>3, <3>4 DEF RowFits, RowMoves
    <3>6. sale' = [sale EXCEPT ![o] = x]
      BY <3>1, <3>2
    <3> HIDE DEF x
    <3> QED BY <3>2, <3>4, <3>5, <3>6 DEF SaleStep, Writes
  <2> QED BY <2>1, <2>2, EndsFits, ApptKept, TalkKept
<1> QED BY <1>1, <1>2, <1>3, <1>4, <1>5, <1>6 DEF Paying
-----------------------------------------------------------------------------
(* What begins, and who else acts. *)

LEMMA BeginFits ==
  ASSUME IInv, NEW s \in Slots, NEW a \in 0..MaxAppts, NEW o \in Existing \union {0},
         NEW pc \in {"look", "status", "record", "voided"},
         NEW op \in {"inbound", "inbound_ad", "bot", "booking", "walkin", "status", "charge", "payment"},
         (pc = "look" /\ op \in {"inbound", "inbound_ad", "bot"}) \/ a \in Appts,
         Begin(s, [pc |-> pc, op |-> op, appt |-> a, sale |-> o])
  PROVE  ReqStep
<1> DEFINE r == [pc |-> pc, op |-> op, appt |-> a, sale |-> o]
<1>1. o \in 0..MaxSales
  BY BoundsAssumption DEF Existing, Sales
<1>2. r \in Reqs /\ r.pc = pc /\ r.op = op /\ r.appt = a /\ r.sale = o
  BY <1>1 DEF Reqs
<1>3. ReqFits(r)
  BY <1>2 DEF ReqFits, NeedsAppt
<1>4. req' = [req EXCEPT ![s] = r]
  BY DEF Begin
<1> HIDE DEF r
<1> QED BY <1>2, <1>3, <1>4, ReqChanges

LEMMA HeardNowFits ==
  ASSUME IInv
  PROVE  HeardNow = 0 \/ (HeardNow \in Sales /\ Open(HeardNow))
BY DEF HeardNow, NoneOpen

LEMMA SpeaksFits ==
  ASSUME IInv, last' = "customer", heard' = HeardNow, speaker' \in Slots \union {NoSlot},
         UNCHANGED <<sale, swept>>
  PROVE  TalkStep
<1>1. HeardNow = 0 \/ (HeardNow \in Sales /\ Open(HeardNow))
  BY HeardNowFits
<1>2. HeardNow \in 0..MaxSales
  BY <1>1, BoundsAssumption DEF Sales
<1>3. heard' = 0 \/ (Open(heard') /\ heard' \in Sales)
  BY <1>1
<1> QED BY <1>2, <1>3, Columns DEF TalkStep

LEMMA BeginsSteps ==
  ASSUME IInv, NEW s \in Slots, Begins(s)
  PROVE  Steps
<1> USE DEF Steps
<1>0. /\ \A a \in Appts : appt[a] \in ApptRows /\ appt[a].sale \in Existing \union {0}
      /\ speaker \in Slots \union {NoSlot}
      /\ 0 \in 0..MaxAppts /\ Appts \subseteq 0..MaxAppts
  BY Columns, BoundsAssumption DEF Appts
<1>1. ASSUME NEW op \in {"inbound", "inbound_ad"}, InboundMessage(s, op) PROVE Steps
  <2>1. Begin(s, [pc |-> "look", op |-> op, appt |-> 0, sale |-> 0])
    BY <1>1 DEF InboundMessage
  <2>2. last' = "customer" /\ speaker' = s /\ heard' = HeardNow /\ UNCHANGED <<sale, appt, swept>>
    BY <1>1 DEF InboundMessage
  <2>3. ReqStep
    BY <1>0, <2>1, BeginFits
  <2> QED BY <2>2, <2>3, SpeaksFits, ApptKept DEF SaleStep
<1>2. ASSUME NEW op \in Bookings, NEW a \in Appts, NEW talk \in BOOLEAN, CreateAppointment(s, op, a, talk)
      PROVE  Steps
  <2> DEFINE st == IF op = "walkin" THEN "completed" ELSE "active"
             x == [appt[a] EXCEPT !.status = st, !.talk = talk]
  <2>1. Begin(s, [pc |-> "look", op |-> op, appt |-> a, sale |-> 0])
    BY <1>2 DEF CreateAppointment
  <2>2. /\ appt' = [appt EXCEPT ![a].status = st, ![a].talk = talk]
        /\ UNCHANGED <<sale, last, speaker, heard, swept>>
    BY <1>2 DEF CreateAppointment
  <2>3. x \in ApptRows /\ x.sale = appt[a].sale
    BY <1>0 DEF ApptRows
  <2>4. appt' = [appt EXCEPT ![a] = x]
    BY <2>2, Columns DEF ApptRows
  <2>5. ReqStep
    BY <1>0, <2>1, BeginFits DEF Bookings
  <2> HIDE DEF x
  <2> QED BY <1>0, <2>2, <2>3, <2>4, <2>5, ApptChanges, TalkKept DEF SaleStep
<1>3. CASE BotQualifies(s)
  <2>1. Begin(s, [pc |-> "look", op |-> "bot", appt |-> 0, sale |-> 0])
    BY <1>3 DEF BotQualifies
  <2>2. UNCHANGED <<sale, appt, last, speaker, heard, swept>>
    BY <1>3 DEF BotQualifies
  <2>3. ReqStep
    BY <1>0, <2>1, BeginFits
  <2> QED BY <1>0, <2>2, <2>3, ApptKept, TalkKept DEF SaleStep
<1>7. ASSUME NEW op \in {"inbound", "inbound_ad"}, RepeatedMessage(s, op) PROVE Steps
  <2>1. Begin(s, [pc |-> "look", op |-> op, appt |-> 0, sale |-> 0])
    BY <1>7 DEF RepeatedMessage
  <2>2. UNCHANGED <<sale, appt, last, speaker, heard, swept>>
    BY <1>7 DEF RepeatedMessage
  <2>3. ReqStep
    BY <1>0, <2>1, BeginFits
  <2> QED BY <1>0, <2>2, <2>3, ApptKept, TalkKept DEF SaleStep
<1>4. ASSUME NEW a \in Appts, NEW op \in {"status", "charge"}, NEW t \in {"completed", "cancelled", "no_show"},
             TransitionStatus(s, a, t, op)
      PROVE  Steps
  <2> DEFINE x == [appt[a] EXCEPT !.status = t, !.paid = (op = "charge")]
  <2>1. Begin(s, [pc |-> "status", op |-> op, appt |-> a, sale |-> appt[a].sale])
    BY <1>4 DEF TransitionStatus
  <2>2. /\ appt' = [appt EXCEPT ![a].status = t, ![a].paid = (op = "charge")]
        /\ UNCHANGED <<sale, last, speaker, heard, swept>>
    BY <1>4 DEF TransitionStatus
  <2>3. x \in ApptRows /\ x.sale = appt[a].sale
    BY <1>0 DEF ApptRows
  <2>4. appt' = [appt EXCEPT ![a] = x]
    BY <2>2, Columns DEF ApptRows
  <2>5. ReqStep
    BY <1>0, <2>1, BeginFits
  <2> HIDE DEF x
  <2> QED BY <1>0, <2>2, <2>3, <2>4, <2>5, ApptChanges, TalkKept DEF SaleStep
<1>5. ASSUME NEW a \in Appts, ReadForPayment(s, a) PROVE Steps
  <2>1. Begin(s, [pc |-> "record", op |-> "payment", appt |-> a, sale |-> appt[a].sale])
    BY <1>5 DEF ReadForPayment
  <2>2. UNCHANGED <<sale, appt, last, speaker, heard, swept>>
    BY <1>5 DEF ReadForPayment
  <2>3. ReqStep
    BY <1>0, <2>1, BeginFits
  <2> QED BY <1>0, <2>2, <2>3, ApptKept, TalkKept DEF SaleStep
<1>6. ASSUME NEW a \in Appts, VoidPayment(s, a) PROVE Steps
  <2> DEFINE x == [appt[a] EXCEPT !.paid = FALSE]
  <2>1. Begin(s, [pc |-> "voided", op |-> "payment", appt |-> a, sale |-> 0])
    BY <1>6 DEF VoidPayment
  <2>2. appt' = [appt EXCEPT ![a].paid = FALSE] /\ UNCHANGED <<sale, last, speaker, heard, swept>>
    BY <1>6 DEF VoidPayment
  <2>3. x \in ApptRows /\ x.sale = appt[a].sale
    BY <1>0 DEF ApptRows
  <2>4. appt' = [appt EXCEPT ![a] = x]
    BY <2>2, Columns DEF ApptRows
  <2>5. ReqStep
    BY <1>0, <2>1, BeginFits
  <2> HIDE DEF x
  <2> QED BY <1>0, <2>2, <2>3, <2>4, <2>5, ApptChanges, TalkKept DEF SaleStep
<1> QED BY <1>1, <1>2, <1>3, <1>4, <1>5, <1>6, <1>7 DEF Begins
LEMMA BoardStep ==
  ASSUME IInv, NEW o \in Sales, NEW x \in Rows, RowFits(x), x.status # "none", x.reason # "no_respondio",
         RowMoves(sale[o], x), x.status = "open" /\ ~Open(o) => NoneOpen, ByHand(o, x)
  PROVE  Steps
<1>1. sale' = [sale EXCEPT ![o] = x] /\ UNCHANGED <<appt, last, speaker, heard, req, swept>>
  BY DEF ByHand
<1>2. SaleStep
  BY <1>1 DEF SaleStep, Writes
<1>3. ReqStep
  BY <1>1, Columns DEF ReqStep
<1> QED BY <1>1, <1>2, <1>3, Columns, ApptKept, TalkKept DEF Steps

LEMMA BoardSteps ==
  ASSUME IInv, NEW o \in Sales, MarkLost(o) \/ ReopenByHand(o) \/ Qualify(o) \/ Unqualify(o)
  PROVE  Steps
<1>0. sale[o] \in Rows /\ RowFits(sale[o])
  BY Columns
<1>1. CASE MarkLost(o)
  <2>1. sale[o].status = "open" /\ ByHand(o, Lost(sale[o], "other"))
    BY <1>1 DEF MarkLost, Open
  <2>2. /\ Lost(sale[o], "other") \in Rows /\ RowFits(Lost(sale[o], "other"))
        /\ RowMoves(sale[o], Lost(sale[o], "other"))
        /\ Lost(sale[o], "other").status = "lost" /\ Lost(sale[o], "other").reason = "other"
    BY <1>0, <2>1, LostFits
  <2> QED BY <2>1, <2>2, BoardStep
<1>2. CASE ReopenByHand(o)
  <2> DEFINE x == Reopened(sale[o], FALSE)
  <2>1. sale[o].status = "lost" /\ NoneOpen /\ ByHand(o, x)
    BY <1>2 DEF ReopenByHand, RecentlyLost
  <2>2. x \in Rows /\ RowFits(x) /\ x.status = "open" /\ x.stage = sale[o].stage
    BY <1>0, <2>1, ReopenedFits
  <2> HIDE DEF x
  <2>3. x.reason # "no_respondio" /\ RowMoves(sale[o], x)
    BY <2>1, <2>2 DEF RowFits, RowMoves, RowOpens, Rows
  <2> QED BY <2>1, <2>2, <2>3, BoardStep
<1>3. CASE Qualify(o)
  <2> DEFINE x == Served("bot", sale[o], TRUE)
  <2>1. sale[o].status = "open" /\ Open(o) /\ ByHand(o, x)
    BY <1>3 DEF Qualify, Open, Served, Bookings
  <2>2. x \in Rows /\ RowFits(x) /\ x.status = "open" /\ x.reason = "none" /\ RowOpens(sale[o], x)
    BY <1>0, <2>1, ServedFits
  <2> HIDE DEF x
  <2> QED BY <2>1, <2>2, BoardStep DEF RowMoves
<1>4. CASE Unqualify(o)
  <2> DEFINE x == [sale[o] EXCEPT !.stage = "lead"]
  <2>1. sale[o].status = "open" /\ Open(o) /\ sale[o].stage = "qualified" /\ ByHand(o, x)
    BY <1>4 DEF Unqualify, Open
  <2>2. x \in Rows /\ RowFits(x) /\ x.status = "open" /\ x.reason = "none" /\ RowMoves(sale[o], x)
    BY <1>0, <2>1 DEF Rows, RowFits, RowMoves, RowOpens, NoRow
  <2> HIDE DEF x
  <2> QED BY <2>1, <2>2, BoardStep
<1> QED BY <1>1, <1>2, <1>3, <1>4

LEMMA JobSteps ==
  ASSUME IInv, Job
  PROVE  Steps
<1>0. UNCHANGED <<appt, last, speaker, heard, req>> /\ swept' \in SUBSET Sales
  BY Columns DEF Job, SelectUnanswered, SweepDies, AutoLose, Candidates
<1>1. SaleStep
  <2>1. SUFFICES ASSUME NEW o \in Sales, Unanswered(o), sale' = [sale EXCEPT ![o] = Lost(@, "no_respondio")]
                 PROVE  SaleStep
    BY DEF Job, SelectUnanswered, SweepDies, AutoLose, SaleStep
  <2>2. sale[o] \in Rows /\ RowFits(sale[o]) /\ sale[o].status = "open" /\ last = "stale"
    BY <2>1, Columns DEF Unanswered, Open
  <2>3. /\ Lost(sale[o], "no_respondio") \in Rows /\ RowFits(Lost(sale[o], "no_respondio"))
        /\ RowMoves(sale[o], Lost(sale[o], "no_respondio")) /\ Lost(sale[o], "no_respondio").status = "lost"
    BY <2>2, LostFits
  <2> QED BY <2>1, <2>2, <2>3 DEF SaleStep, Writes
<1>2. ReqStep
  BY <1>0, Columns DEF ReqStep
<1>3. TalkStep
  BY <1>0, Columns DEF TalkStep
<1> QED BY <1>0, <1>1, <1>2, <1>3, ApptKept DEF Steps

LEMMA OtherSteps ==
  ASSUME IInv, Messages \/ Clock \/ (\E s \in Slots : HandlerDies(s))
  PROVE  Steps
<1> USE DEF Steps
<1>1. CASE PlainMessage
  <2>1. ReqStep
    BY <1>1, Columns DEF PlainMessage, ReqStep
  <2> QED BY <1>1, <2>1, SpeaksFits, ApptKept DEF PlainMessage, SaleStep
<1>2. CASE BusinessMessage
  <2>1. ReqStep
    BY <1>2, Columns DEF BusinessMessage, ReqStep
  <2>2. TalkStep
    BY <1>2, Columns, BoundsAssumption DEF BusinessMessage, TalkStep
  <2> QED BY <1>2, <2>1, <2>2, ApptKept DEF BusinessMessage, SaleStep
<1>3. CASE MessageAges
  <2>1. heard = 0
    BY <1>3 DEF MessageAges, IInv, HeardIsLive
  <2>2. ReqStep
    BY <1>3, Columns DEF MessageAges, ReqStep
  <2>3. TalkStep
    BY <1>3, <2>1, Columns DEF MessageAges, TalkStep
  <2> QED BY <1>3, <2>2, <2>3, ApptKept DEF MessageAges, SaleStep
<1>4. ASSUME NEW o \in Sales, WindowPasses(o) PROVE Steps
  <2> DEFINE x == [sale[o] EXCEPT !.recent = FALSE]
  <2>1. sale[o] \in Rows /\ RowFits(sale[o]) /\ sale[o].recent
    BY <1>4, Columns DEF WindowPasses
  <2>2. /\ x \in Rows /\ x.status = sale[o].status /\ x.stage = sale[o].stage
        /\ x.reason = sale[o].reason /\ x.recent = FALSE
    BY <2>1 DEF Rows
  <2>3. sale[o].status = "lost"
    BY <2>1 DEF RowFits
  <2>4. sale' = [sale EXCEPT ![o] = x] /\ UNCHANGED <<appt, last, speaker, heard, req, swept>>
    BY <1>4, <2>1 DEF WindowPasses
  <2> HIDE DEF x
  <2>5. RowFits(x) /\ RowMoves(sale[o], x)
    BY <2>1, <2>2, <2>3 DEF RowFits, RowMoves
  <2>6. SaleStep
    BY <2>2, <2>3, <2>4, <2>5 DEF SaleStep, Writes
  <2>7. ReqStep
    BY <2>4, Columns DEF ReqStep
  <2> QED BY <2>4, <2>6, <2>7, Columns, ApptKept, TalkKept
<1>5. ASSUME NEW s \in Slots, HandlerDies(s) PROVE Steps
  BY <1>5, EndsFits, ApptKept, TalkKept DEF HandlerDies, SaleStep
<1> QED BY <1>1, <1>2, <1>3, <1>4, <1>5 DEF Messages, Clock

LEMMA NextSteps ==
  ASSUME IInv, Next
  PROVE  Steps
<1>1. CASE \E s \in Slots : Begins(s) \/ Opening(s) \/ Paying(s)
  BY <1>1, BeginsSteps, OpeningSteps, PayingSteps
<1>2. CASE Board
  BY <1>2, BoardSteps DEF Board
<1> QED BY <1>1, <1>2, JobSteps, OtherSteps DEF Next, Handler
-----------------------------------------------------------------------------
(* The invariant and the promise. *)

LEMMA InitInv == Init => IInv
<1> SUFFICES ASSUME Init PROVE IInv
  OBVIOUS
<1>1. NoRow \in Rows /\ RowFits(NoRow) /\ NoRow.status = "none"
  BY DEF NoRow, Rows, RowFits
<1>2. NoAppt \in ApptRows /\ NoAppt.sale = 0
  BY BoundsAssumption DEF NoAppt, ApptRows
<1>3. ReqFits(Idle) /\ Idle.sale = 0 /\ ~NeedsAppt(Idle)
  BY BoundsAssumption DEF Idle, Reqs, ReqFits, NeedsAppt
<1>4. TypeOK
  BY <1>1, <1>2, <1>3, BoundsAssumption DEF Init, TypeOK, ReqFits
<1>5. LinksExist /\ HandlersHaveAppt
  BY <1>2, <1>3 DEF Init, LinksExist, HandlersHaveAppt
<1>6. OneOpenSale /\ HeardIsLive
  BY <1>1 DEF Init, OneOpenSale, HeardIsLive, Open
<1> QED BY <1>4, <1>5, <1>6 DEF IInv

\* A written row fits, no row is ever deleted, and an opened one finds none open.
LEMMA SalesKept ==
  ASSUME IInv, SaleStep
  PROVE  /\ sale' \in [Sales -> Rows] /\ \A o \in Sales : RowFits(sale'[o])
         /\ Existing \subseteq Existing'
         /\ OneOpenSale'
<1>0. sale \in [Sales -> Rows] /\ (\A o \in Sales : RowFits(sale[o])) /\ OneOpenSale
  BY Columns DEF IInv
<1>1. CASE UNCHANGED sale
  BY <1>0, <1>1 DEF OneOpenSale, Open, Existing
<1>2. CASE \E o, x : Writes(o, x)
  <2>1. PICK o, x : Writes(o, x)
    BY <1>2
  <2>2. sale' \in [Sales -> Rows] /\ sale'[o] = x /\ \A p \in Sales \ {o} : sale'[p] = sale[p]
    BY <1>0, <2>1 DEF Writes
  <2>3. \A p \in Sales : RowFits(sale'[p])
    BY <1>0, <2>1, <2>2 DEF Writes
  <2>4. Existing \subseteq Existing'
    BY <2>1, <2>2 DEF Writes, Existing
  <2>5. OneOpenSale'
    <3>1. \A p \in Sales : Open(p)' => p = o \/ Open(p)
      BY <2>2 DEF Open
    <3>2. Open(o)' => Open(o) \/ NoneOpen
      BY <2>1, <2>2 DEF Open, Writes
    <3> QED BY <1>0, <2>1, <3>1, <3>2 DEF OneOpenSale, NoneOpen, Writes
  <2> QED BY <2>2, <2>3, <2>4, <2>5
<1> QED BY <1>1, <1>2 DEF SaleStep

LEMMA StepsKeep ==
  ASSUME IInv, Steps
  PROVE  IInv'
<1>0. SaleStep /\ ApptStep /\ ReqStep /\ TalkStep
  BY DEF Steps
<1>1. /\ sale' \in [Sales -> Rows] /\ (\A o \in Sales : RowFits(sale'[o]))
      /\ Existing \subseteq Existing' /\ OneOpenSale'
  BY <1>0, SalesKept
<1>2. TypeOK'
  BY <1>0, <1>1 DEF TypeOK, ApptStep, ReqStep, TalkStep
<1>3. LinksExist'
  <2>1. \A s \in Slots : req'[s].sale # 0 => req'[s].sale \in Existing'
    BY <1>0, <1>1 DEF ReqStep
  <2>2. ASSUME NEW a \in Appts, appt'[a].sale # 0 PROVE appt'[a].sale \in Existing'
    <3>1. CASE appt'[a].sale = appt[a].sale
      BY <1>1, <2>2, <3>1, Columns
    <3>2. CASE appt'[a].sale # appt[a].sale
      <4>1. /\ appt'[a].sale \in Sales
            /\ sale'[appt'[a].sale].status = "open" \/ sale'[appt'[a].sale].stage = "paid"
        BY <1>0, <3>2 DEF ApptStep
      <4>2. RowFits(sale'[appt'[a].sale])
        BY <1>1, <4>1
      <4> QED BY <4>1, <4>2 DEF Existing, RowFits, NoRow
    <3> QED BY <3>1, <3>2
  <2> QED BY <2>1, <2>2 DEF LinksExist
<1>4. HandlersHaveAppt'
  BY <1>0 DEF ReqStep, ReqFits, HandlersHaveAppt, NeedsAppt
<1>5. HeardIsLive'
  <2>0. HeardIsLive
    BY DEF IInv
  <2>1. CASE heard' = 0
    BY <2>1 DEF HeardIsLive
  <2>2. CASE last' = last /\ heard' = heard /\ heard # 0
    <3>1. CASE UNCHANGED sale
      BY <2>0, <2>2, <3>1 DEF HeardIsLive
    <3>2. ASSUME NEW o, NEW x, Writes(o, x) PROVE HeardIsLive'
      BY <2>0, <2>2, <3>2, Columns DEF HeardIsLive, Writes
    <3> QED BY <1>0, <3>1, <3>2 DEF SaleStep
  <2>3. CASE last' = "customer" /\ Open(heard') /\ heard' \in Sales /\ UNCHANGED sale
    BY <2>3, Columns DEF HeardIsLive, Open, RowFits
  <2> QED BY <1>0, <2>1, <2>2, <2>3 DEF TalkStep
<1> QED BY <1>1, <1>2, <1>3, <1>4, <1>5 DEF IInv

LEMMA NextInv == IInv /\ [Next]_vars => IInv'
<1>1. CASE UNCHANGED vars
  BY <1>1 DEF vars, IInv, TypeOK, LinksExist, HandlersHaveAppt, OneOpenSale, HeardIsLive, Existing, Open, NeedsAppt
<1>2. ASSUME IInv, Next PROVE IInv'
  BY <1>2, NextSteps, StepsKeep
<1> QED BY <1>1, <1>2

\* The inductive invariant: types, links to rows that exist, one open sale per contact.
THEOREM SalesIInvHolds == Spec => []IInv
<1> QED BY InitInv, NextInv, PTL DEF Spec

\* The columns and the funnel of every row agree, whatever two transactions do to it.
THEOREM SalesTypesHold == Spec => []TypeOK
<1>1. IInv => TypeOK
  BY DEF IInv
<1> QED BY <1>1, SalesIInvHolds, PTL

\* The auto-lost job takes no sale whose customer has answered (autoLoseIfUnanswered).
THEOREM AnsweredSalesStay == Spec => []AnsweredStays
<1>1. IInv => AnsweredStays
  BY DEF IInv, HeardIsLive, AnsweredStays
<1> QED BY <1>1, SalesIInvHolds, PTL
LEMMA WriteMoves ==
  ASSUME IInv, NEW o, NEW x, Writes(o, x)
  PROVE  Contact!SaleMoves
<1>1. o \in Sales /\ RowMoves(sale[o], x) /\ sale' = [sale EXCEPT ![o] = x] /\ sale \in [Sales -> Rows]
  BY Columns DEF Writes
<1>2. sale'[o] = x /\ \A p \in Sales \ {o} : sale'[p] = sale[p]
  BY <1>1
<1>3. \A p \in Sales \ {o} : Contact!Stays(p)
  BY <1>2 DEF Contact!Stays
<1>4. \/ Contact!Opens(o) \/ Contact!Loses(o) \/ Contact!Attends(o) \/ Contact!Pays(o)
      \/ Contact!Voids(o) \/ Contact!Stays(o)
  <2>1. CASE RowOpens(sale[o], x)
    BY <1>1, <1>2, <2>1 DEF RowOpens, Contact!Opens, Contact!Stays, Early, Contact!Early
  <2>2. CASE ~RowOpens(sale[o], x)
    BY <1>1, <1>2, <2>2 DEF RowMoves, Contact!Loses, Contact!Attends, Contact!Pays, Contact!Voids, Contact!Stays
  <2> QED BY <2>1, <2>2
<1> QED BY <1>1, <1>3, <1>4 DEF Contact!SaleMoves

LEMMA ContactSteps ==
  ASSUME IInv, Steps
  PROVE  Contact!SaleMoves /\ Contact!OwnersFollow /\ Contact!OneOpen
<1>0. SaleStep /\ ApptStep
  BY DEF Steps
<1>1. Contact!SaleMoves
  <2>1. CASE UNCHANGED sale
    <3>1. \A p \in Sales : Contact!Stays(p)
      BY <2>1 DEF Contact!Stays
    <3>2. 1 \in Sales
      BY BoundsAssumption DEF Sales
    <3> QED BY <3>1, <3>2 DEF Contact!SaleMoves
  <2>2. CASE \E o, x : Writes(o, x)
    BY <2>2, WriteMoves
  <2> QED BY <1>0, <2>1, <2>2 DEF SaleStep
<1>2. Contact!OwnersFollow
  BY <1>0 DEF ApptStep, Contact!OwnersFollow
<1>3. Contact!OneOpen
  BY <1>0, SalesKept DEF OneOpenSale, Open, Contact!OneOpen
<1> QED BY <1>1, <1>2, <1>3

\* The promise to the contact, ContactSales, is implemented, the hooks that lose a race and the
\* handlers that die included.
THEOREM ContactIsKept == Spec => ContactSpec
<1>1. Init => Contact!ContactInit
  BY DEF Init, NoRow, NoAppt, Contact!ContactInit
<1>2. IInv /\ [Next]_vars
        => [Contact!SaleMoves /\ Contact!OwnersFollow /\ Contact!OneOpen]_(Contact!contact)
  <2>1. CASE UNCHANGED vars
    BY <2>1 DEF vars, Contact!contact
  <2>2. ASSUME IInv, Next
        PROVE  Contact!SaleMoves /\ Contact!OwnersFollow /\ Contact!OneOpen
    BY <2>2, NextSteps, ContactSteps
  <2> QED BY <2>1, <2>2
<1> QED BY <1>1, <1>2, SalesIInvHolds, PTL DEF Spec, ContactSpec, Contact!ContactSpec
-----------------------------------------------------------------------------
(* The hook of the customer's last message. While it runs the customer is the   *)
(* last to have spoken, so no sale becomes lost as unanswered; at its reopening *)
(* no sale later than the one it has read is.                                   *)
Answering(r) ==
  /\ r.op \in {"inbound", "inbound_ad"} /\ r.pc \in {"look", "decide", "reopen", "open"}
  /\ r.pc = "reopen" => \A p \in Sales : p > r.sale => sale[p].reason # "no_respondio"

Hearing == speaker # NoSlot => last = "customer" /\ Answering(req[speaker])

\* Nobody is heard any more, or somebody else moves, or a message comes, or its hook goes on.
HearStep ==
  \/ speaker' = NoSlot
  \/ UNCHANGED <<speaker, last>> /\ speaker \in Slots /\ req'[speaker] = req[speaker]
  \/ speaker' \in Slots /\ last' = "customer" /\ req'[speaker'].op \in {"inbound", "inbound_ad"}
     /\ req'[speaker'].pc = "look"
  \/ /\ UNCHANGED <<speaker, last>> /\ speaker \in Slots /\ req'[speaker].op = req[speaker].op
     /\ \/ req'[speaker].pc \in {"decide", "open"}
        \/ UNCHANGED sale /\ req'[speaker].pc = "reopen" /\ Latest(req'[speaker].sale)

LEMMA HearStepKeeps == IInv /\ Hearing /\ SaleStep /\ HearStep => Hearing'
<1> SUFFICES ASSUME IInv, Hearing, SaleStep, HearStep, speaker' # NoSlot PROVE Hearing'
  BY DEF Hearing
<1>0. sale \in [Sales -> Rows] /\ \A p \in Sales : RowFits(sale[p])
  BY Columns
<1>1. CASE UNCHANGED <<speaker, last>> /\ speaker \in Slots /\ req'[speaker] = req[speaker]
  <2>1. last = "customer" /\ Answering(req[speaker])
    BY <1>1 DEF Hearing
  <2>2. \A p \in Sales : sale'[p].reason = "no_respondio" => sale[p].reason = "no_respondio"
    BY <1>0, <2>1 DEF SaleStep, Writes
  <2> QED BY <1>1, <2>1, <2>2 DEF Hearing, Answering
<1>2. CASE /\ speaker' \in Slots /\ last' = "customer" /\ req'[speaker'].op \in {"inbound", "inbound_ad"}
           /\ req'[speaker'].pc = "look"
  BY <1>2 DEF Hearing, Answering
<1>3. CASE /\ UNCHANGED <<speaker, last>> /\ speaker \in Slots /\ req'[speaker].op = req[speaker].op
           /\ req'[speaker].pc \in {"decide", "open"}
  BY <1>3 DEF Hearing, Answering
<1>4. CASE /\ UNCHANGED <<speaker, last, sale>> /\ speaker \in Slots /\ req'[speaker].op = req[speaker].op
           /\ req'[speaker].pc = "reopen" /\ Latest(req'[speaker].sale)
  <2>1. \A p \in Sales : p > req'[speaker].sale => p \notin Existing
    BY <1>4 DEF Latest, Existing, Sales
  <2>2. \A p \in Sales : p > req'[speaker].sale => sale[p].reason # "no_respondio"
    BY <1>0, <2>1 DEF Existing, RowFits, NoRow
  <2> QED BY <1>4, <2>2 DEF Hearing, Answering
<1> QED BY <1>1, <1>2, <1>3, <1>4 DEF HearStep

\* A step of one handler leaves the others alone, and quiets itself only.
LEMMA OthersHear ==
  ASSUME IInv, NEW s \in Slots, NEW r, req' = [req EXCEPT ![s] = r], last' = last,
         UNCHANGED speaker \/ Quiets(s), speaker # s
  PROVE  HearStep
<1>1. speaker \in Slots => req'[speaker] = req[speaker]
  BY Columns
<1>2. speaker' = speaker /\ speaker \in Slots \union {NoSlot}
  BY Columns DEF Quiets
<1> QED BY <1>1, <1>2 DEF HearStep

LEMMA EndsQuiet ==
  ASSUME IInv, NEW s \in Slots, Ends(s), last' = last
  PROVE  HearStep
<1>1. CASE speaker = s
  BY <1>1 DEF Ends, Quiets, HearStep
<1>2. CASE speaker # s
  BY <1>2, OthersHear DEF Ends
<1> QED BY <1>1, <1>2

LEMMA GotoHears ==
  ASSUME IInv, NEW s \in Slots, NEW pc, NEW o, Goto(s, pc, o), UNCHANGED <<speaker, last>>,
         speaker = s => pc \in {"decide", "open"} \/ (pc = "reopen" /\ Latest(o) /\ UNCHANGED sale)
  PROVE  HearStep
<1>1. req' = [req EXCEPT ![s] = [req[s] EXCEPT !.pc = pc, !.sale = o]] /\ req[s] \in Reqs
  BY Columns DEF Goto
<1>2. CASE speaker = s
  <2>1. req'[s].op = req[s].op /\ req'[s].pc = pc /\ req'[s].sale = o
    BY <1>1, Columns DEF Reqs
  <2> QED BY <1>2, <2>1 DEF HearStep
<1>3. CASE speaker # s
  BY <1>1, <1>3, OthersHear
<1> QED BY <1>2, <1>3

LEMMA HookEndsHears ==
  ASSUME IInv, Hearing, NEW s \in Slots, HookEnds(s), last' = last
  PROVE  HearStep
<1>1. CASE req[s].op = "walkin"
  <2>1. speaker # s
    BY <1>1, SlotsAssumption DEF Hearing, Answering
  <2> QED BY <1>1, <2>1, GotoHears DEF HookEnds
<1>2. CASE req[s].op # "walkin"
  BY <1>2, EndsQuiet DEF HookEnds
<1> QED BY <1>1, <1>2

LEMMA OpeningHears ==
  ASSUME IInv, Hearing, NEW s \in Slots, Opening(s)
  PROVE  HearStep
<1>0. speaker = s => Answering(req[s])
  BY SlotsAssumption DEF Hearing
<1>1. CASE FindNone(s)
  BY <1>1, GotoHears DEF FindNone
<1>2. CASE DecideOpen(s)
  BY <1>2, GotoHears, HookEndsHears DEF DecideOpen
<1>3. CASE OpenLosesRace(s)
  <2>1. req[s].op \in Bookings \union {"bot"} => speaker # s
    BY <1>0 DEF Answering, Bookings
  <2> QED BY <1>3, <2>1, GotoHears, HookEndsHears DEF OpenLosesRace
<1>4. CASE FindRacedNone(s)
  BY <1>4, HookEndsHears DEF FindRacedNone
<1>5. CASE RereadWalkIn(s)
  <2>1. speaker # s
    BY <1>0, <1>5 DEF Answering, RereadWalkIn, At
  <2> QED BY <1>5, <2>1, GotoHears DEF RereadWalkIn
<1>6. ASSUME NEW o \in Sales, DecideReopen(s, o) PROVE HearStep
  BY <1>6, GotoHears DEF DecideReopen
<1>7. ASSUME NEW o \in Sales, FindOpen(s, o) \/ ReopenLost(s, o) \/ ReopenThrows(s, o) \/ OpenNew(s, o) \/ FindRaced(s, o)
      PROVE  HearStep
  BY <1>7, HookEndsHears DEF FindOpen, ReopenLost, ReopenThrows, OpenNew, FindRaced
<1> QED BY <1>1, <1>2, <1>3, <1>4, <1>5, <1>6, <1>7 DEF Opening

LEMMA PayingHears ==
  ASSUME IInv, Hearing, NEW s \in Slots, Paying(s)
  PROVE  HearStep
<1>1. speaker # s
  <2>1. req[s].pc \in {"status", "record", "paid", "paynew", "voided", "unpay"}
    BY DEF Paying, StatusHook, RecordPayment, PayFindsNone, ReadVoided, RevertPaid, PayLinked, PayOpen, PayNew, At
  <2> QED BY <2>1, SlotsAssumption DEF Hearing, Answering
<1>2. last' = last
  BY DEF Paying, StatusHook, RecordPayment, PayFindsNone, ReadVoided, RevertPaid, PayLinked, PayOpen, PayNew
<1>3. \/ Ends(s)
      \/ \E pc, o : Goto(s, pc, o) /\ UNCHANGED speaker
  BY DEF Paying, StatusHook, RecordPayment, PayFindsNone, ReadVoided, RevertPaid, PayLinked, PayOpen, PayNew
<1> QED BY <1>1, <1>2, <1>3, EndsQuiet, GotoHears

LEMMA BeginsHears ==
  ASSUME IInv, Hearing, NEW s \in Slots, Begins(s)
  PROVE  HearStep
<1>1. ASSUME NEW op \in {"inbound", "inbound_ad"}, InboundMessage(s, op) PROVE HearStep
  <2>1. req'[s].pc = "look" /\ req'[s].op = op
    BY <1>1, Columns DEF InboundMessage, Begin
  <2> QED BY <1>1, <2>1 DEF InboundMessage, HearStep
<1>2. ASSUME NEW r, Begin(s, r), UNCHANGED <<last, speaker>> PROVE HearStep
  <2>1. speaker # s
    BY <1>2, SlotsAssumption DEF Begin, Hearing, Answering
  <2> QED BY <1>2, <2>1, OthersHear DEF Begin
<1> QED BY <1>1, <1>2
     DEF Begins, RepeatedMessage, CreateAppointment, BotQualifies, TransitionStatus, ReadForPayment, VoidPayment

LEMMA OthersHearNothing ==
  ASSUME IInv, Hearing, Messages \/ Clock \/ Job \/ Board
  PROVE  HearStep
<1>1. CASE Messages
  BY <1>1 DEF Messages, PlainMessage, BusinessMessage, HearStep
<1>2. CASE MessageAges
  BY <1>2 DEF MessageAges, Hearing, HearStep
<1>3. CASE UNCHANGED <<last, speaker, req>>
  BY <1>3, Columns DEF HearStep
<1>4. CASE Job
  BY <1>3, <1>4 DEF Job, SelectUnanswered, SweepDies, AutoLose
<1>5. CASE Board
  BY <1>3, <1>5 DEF Board, MarkLost, ReopenByHand, Qualify, Unqualify, ByHand
<1>6. CASE \E o \in Sales : WindowPasses(o)
  BY <1>3, <1>6 DEF WindowPasses
<1> QED BY <1>1, <1>2, <1>4, <1>5, <1>6 DEF Clock

LEMMA NextHears == IInv /\ Hearing /\ [Next]_vars => Hearing'
<1>1. CASE UNCHANGED vars
  BY <1>1 DEF vars, Hearing, Answering
<1>2. ASSUME IInv, Hearing, Next PROVE Hearing'
  <2>1. HearStep
    BY <1>2, OpeningHears, PayingHears, BeginsHears, OthersHearNothing, EndsQuiet
    DEF Next, Handler, HandlerDies
  <2>2. SaleStep
    BY <1>2, NextSteps DEF Steps
  <2> QED BY <1>2, <2>1, <2>2, HearStepKeeps
<1> QED BY <1>1, <1>2

\* What the last step of the hook leaves.
LEMMA HookLeaves ==
  ASSUME IInv, Hearing, NEW s \in Slots, HookOver(s)
  PROVE  (\E o \in Sales : Open(o)') \/ \A o \in Sales : ~LostUnanswered(o)'
<1>0. /\ speaker = s /\ Opening(s) /\ req'[s].pc = "idle" /\ Answering(req[s]) /\ req[s] \in Reqs
      /\ sale \in [Sales -> Rows] /\ \A p \in Sales : RowFits(sale[p])
  BY Columns, SlotsAssumption DEF HookOver, Hearing
<1>1. ASSUME NEW o \in Sales, FindOpen(s, o) \/ ReopenLost(s, o) \/ OpenNew(s, o) PROVE Open(o)'
  <2>1. Talk(s) \in BOOLEAN /\ sale[o] \in Rows /\ RowFits(sale[o])
    BY <1>0, <1>1, TalkIsBoolean DEF FindOpen, ReopenLost, OpenNew
  <2>2. CASE FindOpen(s, o)
    BY <1>0, <2>1, <2>2, ServedFits DEF FindOpen, Open
  <2>3. CASE ReopenLost(s, o)
    BY <1>0, <2>1, <2>3, ReopenedServed DEF ReopenLost, Open, RowOpens
  <2>4. CASE OpenNew(s, o)
    BY <1>0, <2>4 DEF OpenNew, Open, Opened
  <2> QED BY <1>1, <2>2, <2>3, <2>4
<1>2. CASE DecideOpen(s)
  <2>1. \A o \in Sales : ~LostUnanswered(o)'
    BY <1>2 DEF DecideOpen, LostUnanswered, RecentlyLost, Latest, Existing
  <2> QED BY <2>1
<1>3. CASE OpenLosesRace(s)
  BY <1>3 DEF OpenLosesRace, NoneOpen, Open
<1>4. ASSUME NEW o \in Sales, ReopenThrows(s, o)
      PROVE  (\E p \in Sales : Open(p)') \/ \A p \in Sales : ~LostUnanswered(p)'
  <2>1. CASE ~NoneOpen
    BY <1>4, <2>1 DEF ReopenThrows, NoneOpen, Open
  <2>2. CASE NoneOpen
    <3>1. sale[o].status # "lost" /\ req[s].pc = "reopen" /\ req[s].sale = o
      BY <1>4, <2>2 DEF ReopenThrows, At
    <3>2. ASSUME NEW p \in Sales, LostUnanswered(p) PROVE FALSE
      <4>1. p # o /\ Latest(p) /\ sale[p].reason = "no_respondio"
        BY <3>1, <3>2 DEF LostUnanswered, RecentlyLost
      <4>2. p < o
        BY <1>0, <3>1, <4>1 DEF Answering, Sales
      <4>3. o \in Existing
        BY <1>0, <3>1, Columns DEF IInv, LinksExist, Sales
      <4> QED BY <4>1, <4>2, <4>3 DEF Latest, Existing, Sales
    <3> QED BY <1>4, <3>2 DEF ReopenThrows, LostUnanswered, RecentlyLost, Latest, Existing
  <2> QED BY <2>1, <2>2
<1>5. CASE FindNone(s) \/ (\E o \in Sales : DecideReopen(s, o))
  <2>1. PICK pc, o : pc \in {"decide", "reopen"} /\ Goto(s, pc, o)
    BY <1>5 DEF FindNone, DecideReopen
  <2>2. req'[s].pc = pc
    BY <1>0, <2>1, Columns DEF Goto, Reqs
  <2> QED BY <1>0, <2>1, <2>2
<1>6. CASE FindRacedNone(s) \/ RereadWalkIn(s) \/ \E o \in Sales : FindRaced(s, o)
  BY <1>0, <1>6 DEF FindRacedNone, RereadWalkIn, FindRaced, At, Answering
<1> QED BY <1>0, <1>1, <1>2, <1>3, <1>4, <1>5, <1>6 DEF Opening

(* The hook of the customer's last message (openOnInbound, hooks.ts) leaves no latest sale  *)
(* that was lost as unanswered within the window, unless another is open: whatever reopened *)
(* or closed sales between what it read and what it wrote.                                  *)
THEOREM HeardReopens == Spec => HeardIsReopened
<1>1. Init => Hearing
  BY DEF Init, Hearing
<1>2. Spec => []Hearing
  BY <1>1, NextHears, SalesIInvHolds, PTL DEF Spec
<1>3. IInv /\ Hearing /\ [Next]_vars
        => [\A s \in Slots : HookOver(s) =>
              (\E o \in Sales : Open(o)') \/ \A o \in Sales : ~LostUnanswered(o)']_vars
  BY HookLeaves
<1> QED BY <1>2, <1>3, SalesIInvHolds, PTL DEF Spec, HeardIsReopened

-----------------------------------------------------------------------------
(* Liveness of the auto-lost job. StepsAreEnabled stays a hypothesis, which TLC checks: ENABLED is  *)
(* beyond the provers.                                                                             *)

Tries(o) == SF_vars(AutoLose(o))
Tried == \A o \in Sales : Tries(o)
Running == [][Next]_vars /\ []IInv /\ []StepsAreEnabled /\ WF_vars(SelectUnanswered) /\ Tried

LEMMA TriedStays == Tried => []Tried
<1>1. ASSUME NEW o \in Sales PROVE Tries(o) => []Tries(o)
  BY PTL DEF Tries
<1>2. (\A o \in Sales : Tries(o)) => \A o \in Sales : []Tries(o)
  BY <1>1
<1>3. (\A o \in Sales : []Tries(o)) => [](\A o \in Sales : Tries(o))
  OBVIOUS
<1> QED BY <1>2, <1>3 DEF Tried

LEMMA RunningStays == Running => []Running
BY TriedStays, PTL DEF Running

LEMMA Runs == FairSpec /\ []StepsAreEnabled => Running
<1>1. FairSpec => Tried
  BY PTL DEF FairSpec, Tried, Tries
<1> QED BY <1>1, SalesIInvHolds, PTL DEF FairSpec, Spec, Running

LEMMA SweptSteps ==
  ASSUME IInv, [Next]_vars
  PROVE  swept' \subseteq swept \/ SelectUnanswered
<1>1. CASE Messages \/ Clock \/ Board \/ UNCHANGED vars
  BY <1>1 DEF Messages, PlainMessage, BusinessMessage, Clock, MessageAges, WindowPasses, Board, MarkLost, ReopenByHand,
              Qualify, Unqualify, ByHand, vars
<1>2. CASE Job
  BY <1>2 DEF Job, SweepDies, AutoLose
<1>3. ASSUME NEW s \in Slots, Begins(s) PROVE UNCHANGED swept
  BY <1>3 DEF Begins, InboundMessage, RepeatedMessage, CreateAppointment, BotQualifies, TransitionStatus, ReadForPayment, VoidPayment
<1>4. ASSUME NEW s \in Slots, Opening(s) PROVE UNCHANGED swept
  BY <1>4 DEF Opening, FindNone, DecideOpen, OpenLosesRace, FindRacedNone, RereadWalkIn, FindOpen, DecideReopen, ReopenLost,
              ReopenThrows, OpenNew, FindRaced
<1>5. ASSUME NEW s \in Slots, Paying(s) \/ HandlerDies(s) PROVE UNCHANGED swept
  BY <1>5 DEF Paying, StatusHook, RecordPayment, PayFindsNone, ReadVoided, RevertPaid, PayLinked, PayOpen, PayNew, HandlerDies
<1> QED BY <1>1, <1>2, <1>3, <1>4, <1>5 DEF Next, Handler

\* What the job has selected it can try.
LEMMA SelectedCanBeTried == ASSUME NEW o, StepsAreEnabled, o \in swept PROVE ENABLED <<AutoLose(o)>>_vars
BY DEF StepsAreEnabled

\* A sale the job has selected, it loses.
LEMMA SelectedIsLost == ASSUME NEW o \in Sales PROVE Running /\ []Unanswered(o) => <>[](o \notin swept)
<1>1. IInv /\ Unanswered(o) /\ <<AutoLose(o)>>_vars => ~Unanswered(o)'
  BY Columns DEF AutoLose, Unanswered, Open, Lost
<1>2. StepsAreEnabled /\ o \in swept => ENABLED <<AutoLose(o)>>_vars
  BY SelectedCanBeTried
<1>3. Tried => Tries(o)
  BY DEF Tried
<1>4. o \in swept \/ o \notin swept
  OBVIOUS
<1> QED BY <1>1, <1>2, <1>3, <1>4, PTL DEF Running, Tries

\* What else it has selected, it tries and drops.
LEMMA OthersAreTried == ASSUME NEW U, NEW o \in Sales, o \in U PROVE Running => ~[](swept = U)
<1>1. swept = U /\ <<AutoLose(o)>>_vars => ~(swept = U)'
  BY DEF AutoLose
<1>2. swept = U => o \in swept
  OBVIOUS
<1>3. StepsAreEnabled /\ o \in swept => ENABLED <<AutoLose(o)>>_vars
  BY SelectedCanBeTried
<1>4. Tried => Tries(o)
  BY DEF Tried
<1> QED BY <1>1, <1>2, <1>3, <1>4, PTL DEF Running, Tries

LEMMA EmptyIsFilled == ASSUME NEW o \in Sales PROVE Running /\ []Unanswered(o) => ~[](swept = {})
<1>1. Unanswered(o) /\ <<SelectUnanswered>>_vars => ~(swept = {})'
  BY DEF SelectUnanswered
<1>2. StepsAreEnabled /\ Unanswered(o) /\ swept = {} => ENABLED <<SelectUnanswered>>_vars
  BY DEF StepsAreEnabled, Candidates
<1> QED BY <1>1, <1>2, PTL DEF Running

-----------------------------------------------------------------------------
(* Finitely many sales are selected at a time: induction over those still to be tried. *)

LEMMA FiniteInduction ==
  ASSUME NEW S, IsFiniteSet(S), NEW g,
         \A U \in SUBSET S : (\A x \in U : g[U \ {x}]) => g[U]
  PROVE  \A U \in SUBSET S : g[U]
<1> SUFFICES ASSUME NEW V \in SUBSET S, ~g[V] PROVE FALSE
  OBVIOUS
<1>1. PICK T : T = {U \in SUBSET S : ~g[U]}
  OBVIOUS
<1>2. IsWellFoundedOn(StrictSubsetOrdering(S), SUBSET S)
  BY FS_StrictSubsetOrderingWellFounded, FS_FiniteSubsetsOfFinite
<1>3. PICK U \in T : \A W \in T : ~(<<W, U>> \in StrictSubsetOrdering(S))
  <2>1. V \in T /\ T \subseteq SUBSET S /\ T # {}
    BY <1>1
  <2> QED BY <1>2, <2>1, WFMin
<1>4. PICK x \in U : ~g[U \ {x}]
  BY <1>1, <1>3
<1>5. U \ {x} \in T /\ U \in SUBSET S
  BY <1>1, <1>3, <1>4
<1>6. <<U \ {x}, U>> \in StrictSubsetOrdering(S)
  BY <1>5, <1>4 DEF StrictSubsetOrdering
<1> QED BY <1>3, <1>5, <1>6


\* The job has at most U to try, and o never comes.
Passes(o, U) == Running /\ []Unanswered(o) /\ [](o \notin swept) /\ [](swept \subseteq U)
Never(o, U) == []~Passes(o, U)
Outcomes(o) == [U \in SUBSET Sales |-> Never(o, U)]
Given(t) == t \/ TRUE

LEMMA JobComesRound ==
  ASSUME NEW o \in Sales, NEW U \in SUBSET Sales
  PROVE  (\A p \in U : Never(o, U \ {p})) => Never(o, U)
<1> DEFINE Skips == Running /\ []Unanswered(o) /\ [](o \notin swept)
<1>1. (\A p \in U : Never(o, U \ {p})) => [](\A p \in U : ~Passes(o, U \ {p}))
  BY DEF Never
<1>2. ASSUME NEW p \in U PROVE ~Passes(o, U \ {p}) => (Skips => ~(swept \subseteq U \ {p}))
  <2>1. IInv /\ [Next]_vars /\ Unanswered(o) /\ (o \notin swept)' /\ swept \subseteq U \ {p} => (swept \subseteq U \ {p})'
    <3>1. Unanswered(o) /\ SelectUnanswered => o \in swept'
      BY DEF SelectUnanswered, Candidates
    <3> QED BY <3>1, SweptSteps
  <2> QED BY <2>1, PTL DEF Passes, Running
<1>3. (\A p \in U : ~Passes(o, U \ {p})) => (Skips => \A p \in U : ~(swept \subseteq U \ {p}))
  <2> HIDE DEF Skips
  <2> QED BY <1>2
<1>4. swept \subseteq U /\ (\A p \in U : ~(swept \subseteq U \ {p})) => swept = U
  OBVIOUS
<1>5. Running /\ []Unanswered(o) => ~[](swept = U)
  <2>1. CASE U = {}
    <3>1. swept = U <=> swept = {}
      BY <2>1
    <3> QED BY <3>1, EmptyIsFilled, PTL
  <2>2. CASE U # {}
    <3>1. PICK p : p \in U /\ p \in Sales
      BY <2>2
    <3>2. Running => ~[](swept = U)
      BY <3>1, OthersAreTried
    <3> QED BY <3>2
  <2> QED BY <2>1, <2>2
<1> QED BY <1>1, <1>3, <1>4, <1>5, RunningStays, PTL DEF Never, Passes

LEMMA UnansweredIsSelected == ASSUME NEW o \in Sales PROVE Running => ~([]Unanswered(o) /\ [](o \notin swept))
<1>1. PICK g : \A U \in SUBSET Sales : g[U] <=> Never(o, U)
  <2>1. Given(Outcomes(o))
    BY DEF Given
  <2> QED BY <2>1, SMTT(20) DEF Outcomes
<1>2. \A U \in SUBSET Sales : (\A p \in U : g[U \ {p}]) => g[U]
  <2>1. ASSUME NEW U \in SUBSET Sales PROVE (\A p \in U : Never(o, U \ {p})) => Never(o, U)
    BY JobComesRound
  <2> QED BY <1>1, <2>1
<1>3. IsFiniteSet(Sales)
  BY BoundsAssumption, FS_Interval DEF Sales
<1>4. g[Sales]
  BY <1>2, <1>3, FiniteInduction
<1>5. Never(o, Sales)
  BY <1>1, <1>4
<1>6. IInv => swept \subseteq Sales
  BY DEF IInv, TypeOK
<1> QED BY <1>5, <1>6, PTL DEF Never, Passes, Running

(* A sale the business has written to in vain does not stay open for ever: the job selects  *)
(* it in one of its cycles and loses it, if nobody has answered or closed it before.        *)
THEOREM UnansweredIsLostInTheEnd == FairSpec /\ []StepsAreEnabled => UnansweredIsLost
<1>1. ASSUME NEW o \in Sales PROVE FairSpec /\ []StepsAreEnabled => (Unanswered(o) ~> ~Unanswered(o))
  BY UnansweredIsSelected, SelectedIsLost, Runs, RunningStays, PTL
<1> QED BY <1>1 DEF UnansweredIsLost
=============================================================================
