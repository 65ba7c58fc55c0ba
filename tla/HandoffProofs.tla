---------------------------- MODULE HandoffProofs ----------------------------
(***************************************************************************)
(* Theorems about Handoff for every number of conversations, agents,       *)
(* replies and requests in flight.                                         *)
(*                                                                         *)
(* Ok says what a request in flight may rely on at its step, Apart what    *)
(* two of them never share: a conversation's row, the module's row, a      *)
(* reply. A step moves one request (RequestStep), commits a mode           *)
(* (ModeStep), writes a reply (ReplyStep) or the module (ModuleStep).      *)
(***************************************************************************)
EXTENDS Handoff, TLAPS, FiniteSetTheorems, WellFoundedInduction

Fit(t) ==
  /\ t \in Requests
  /\ t.pc \in {"gate", "lock", "write"} => t.conv \in Convs /\ t.op \in DOMAIN ToMode
  /\ t.op \in {"take", "dismiss", "return"} => t.by \in Agents
  /\ t.pc = "gate" => t.op = "escalate"
  /\ t.pc = "list" => t.op = "release"
  /\ t.pc \in {"count", "off"} => t.op = "disable"
  /\ t.pc \in {"insert", "claim", "post", "answered"} => t.msg \in Messages /\ t.conv \in Convs /\ t.op \in {"send", "retry"}
  /\ t.pc = "answered" => t.outcome \in {"sent", "failed"}

Sharing(t) == t.op = "escalate" /\ t.pc \in {"lock", "write"}
Excluding(t) == t.op = "disable" /\ t.pc \in {"count", "off"}
Delivering(t) == t.pc \in {"post", "answered"}

NoEscalation == \A c \in Convs : ~(conv[c].mode = "pending" /\ last[c].source = "workflow")

Ok(t) ==
  /\ Fit(t)
  /\ t.pc = "write" => /\ t.expected = {conv[t.conv].mode}
                       /\ <<conv[t.conv].mode, ToMode[t.op], Source[t.op]>> \in LegalTransitions
  /\ Sharing(t) => inbox
  /\ t.pc = "off" => NoEscalation
  /\ Delivering(t) => msgs[t.msg].status = "sending"
  /\ t.pc = "insert" => msgs[t.msg].status = "none"

Apart(t, u) ==
  /\ t.pc = "write" /\ u.pc = "write" => t.conv # u.conv
  /\ Excluding(t) => ~Sharing(u)
  /\ Excluding(t) => ~Excluding(u)
  /\ Delivering(t) /\ Delivering(u) => t.msg # u.msg
  /\ t.pc = "insert" => u.msg # t.msg

Requesting ==
  /\ \A h \in Tasks : Ok(req[h])
  /\ \A g, h \in Tasks : g # h => Apart(req[g], req[h])
  /\ req[Sweeper].op \in {"none", "sweep"} /\ req[Sweeper].msg = NoMessage

Unwritten == \A m \in Messages : msgs[m].status = "none" <=> msgs[m].conv = NoConv

IInv == TypeOK /\ Requesting /\ Unwritten /\ EscalationNeedsInbox

-----------------------------------------------------------------------------
(* The forms of a step. *)

Joins(h, t) ==
  /\ h \in Tasks /\ req' = [req EXCEPT ![h] = t]
  /\ \A g \in Tasks \ {h} : Apart(t, req[g]) /\ Apart(req[g], t)
  /\ h = Sweeper => t.op \in {"none", "sweep"} /\ t.msg = NoMessage

Ages == aged' \in [Convs -> [change : BOOLEAN, reply : {"never", "recent", "old"}]]

RequestStep(h, t) ==
  /\ Joins(h, t) /\ Ok(t)
  /\ Ages /\ access' \subseteq Agents
  /\ UNCHANGED <<conv, last, inbox, msgs>>

\* A mode is committed by the request that holds the row; what it does next holds none.
ModeStep(h, t) ==
  LET r == req[h]
      c == r.conv
      to == ToMode[r.op] IN
  /\ r.pc = "write"
  /\ Joins(h, t) /\ Fit(t) /\ t.pc \in {"idle", "lock"} /\ t.op \in {"none", r.op}
  /\ conv' = [conv EXCEPT ![c] = [mode |-> to, agent |-> IF to = "human" THEN r.by ELSE NoAgent]]
  /\ last' = [last EXCEPT ![c] = [from |-> conv[c].mode, to |-> to, source |-> Source[r.op],
                                  by |-> IF Source[r.op] = "agent" THEN r.by ELSE NoAgent]]
  /\ Ages
  /\ UNCHANGED <<inbox, access, msgs>>

\* A reply is written by the request that has it.
ReplyStep(h, t, s) ==
  LET r == req[h] IN
  /\ h \in Tasks /\ r.pc \in {"insert", "claim", "answered"}
  /\ r.pc = "claim" => msgs[r.msg].status = "failed"
  /\ Joins(h, t) /\ Fit(t)
  /\ \/ t = Idle /\ s \in {"sent", "failed"} /\ r.pc = "answered"
     \/ t.pc = "post" /\ t.msg = r.msg /\ s = "sending" /\ r.pc \in {"insert", "claim"}
  /\ \E c \in Convs : msgs' = [msgs EXCEPT ![r.msg] = [status |-> s, conv |-> c]]
  /\ Ages
  /\ UNCHANGED <<conv, last, inbox, access>>

ModuleStep ==
  /\ \/ inbox' = TRUE /\ UNCHANGED req
     \/ /\ inbox' = FALSE
        /\ \E h \in Tasks : req[h].pc = "off" /\ req' = [req EXCEPT ![h] = Idle]
  /\ UNCHANGED <<conv, last, aged, access, msgs>>

Steps ==
  \/ \E h, t : RequestStep(h, t)
  \/ \E h, t : ModeStep(h, t)
  \/ \E h, t, s : ReplyStep(h, t, s)
  \/ ModuleStep

-----------------------------------------------------------------------------
LEMMA IdleIsOk ==
  /\ Idle \in Requests /\ Fit(Idle) /\ Ok(Idle)
  /\ Idle.op = "none" /\ Idle.pc = "idle" /\ Idle.msg = NoMessage
<1>1. Idle \in Requests
  BY DEF Idle, Requests, Modes
<1> QED BY <1>1 DEF Idle, Fit, Ok, Sharing, Delivering

LEMMA IdleIsApart == \A u : u.msg \in Messages \/ u.pc # "insert" => Apart(Idle, u) /\ Apart(u, Idle)
BY NamesAssumption DEF Idle, Apart, Excluding, Sharing, Delivering

LEMMA JoinsKeeps ==
  ASSUME IInv, NEW h, NEW t, Joins(h, t), Fit(t)
  PROVE  /\ req' \in [Tasks -> Requests]
         /\ req'[h] = t /\ \A g \in Tasks \ {h} : req'[g] = req[g]
         /\ \A g, k \in Tasks : g # k => Apart(req'[g], req'[k])
         /\ req'[Sweeper].op \in {"none", "sweep"} /\ req'[Sweeper].msg = NoMessage
<1>1. req \in [Tasks -> Requests] /\ h \in Tasks /\ t \in Requests /\ req' = [req EXCEPT ![h] = t] /\ Sweeper \in Tasks
  BY DEF IInv, TypeOK, Joins, Fit, Tasks
<1>2. req'[h] = t /\ \A g \in Tasks \ {h} : req'[g] = req[g]
  BY <1>1
<1>3. \A g, k \in Tasks : g # k => Apart(req'[g], req'[k])
  BY <1>1, <1>2 DEF Joins, IInv, Requesting
<1>4. req'[Sweeper].op \in {"none", "sweep"} /\ req'[Sweeper].msg = NoMessage
  BY <1>1, <1>2 DEF Joins, IInv, Requesting
<1> QED BY <1>1, <1>2, <1>3, <1>4

LEMMA RequestKeeps ==
  ASSUME IInv, NEW h, NEW t, RequestStep(h, t)
  PROVE  IInv'
<1>1. Joins(h, t) /\ Ok(t) /\ Fit(t) /\ UNCHANGED <<conv, last, inbox, msgs>> /\ h \in Tasks
  BY DEF RequestStep, Ok, Joins
<1>2. \A g \in Tasks : Ok(req'[g])
  BY <1>1, JoinsKeeps DEF IInv, Requesting
<1>3. \A g \in Tasks : Ok(req[g])'
  BY <1>1, <1>2 DEF Ok, Fit, Sharing, Delivering, NoEscalation
<1>4. TypeOK'
  BY <1>1, JoinsKeeps DEF RequestStep, Ages, IInv, TypeOK
<1>5. Unwritten' /\ EscalationNeedsInbox'
  BY <1>1 DEF IInv, Unwritten, EscalationNeedsInbox
<1> QED BY <1>1, <1>3, <1>4, <1>5, JoinsKeeps DEF IInv, Requesting, Apart, Excluding, Sharing, Delivering

LEMMA ModeKeeps ==
  ASSUME IInv, NEW h, NEW t, ModeStep(h, t)
  PROVE  IInv'
<1> DEFINE r == req[h]
           c == r.conv
           to == ToMode[r.op]
<1>1. /\ Joins(h, t) /\ Fit(t) /\ h \in Tasks /\ r.pc = "write" /\ c \in Convs /\ r.op \in DOMAIN ToMode /\ r \in Requests
      /\ Ok(r) /\ t.pc \in {"idle", "lock"} /\ t.op \in {"none", r.op} /\ UNCHANGED <<inbox, access, msgs>> /\ Ages
  BY DEF ModeStep, Joins, IInv, Requesting, Ok, Fit
<1>2. /\ conv' = [conv EXCEPT ![c] = [mode |-> to, agent |-> IF to = "human" THEN r.by ELSE NoAgent]]
      /\ last' = [last EXCEPT ![c] = [from |-> conv[c].mode, to |-> to, source |-> Source[r.op],
                                      by |-> IF Source[r.op] = "agent" THEN r.by ELSE NoAgent]]
  BY DEF ModeStep
<1>3. /\ to \in Modes /\ Source[r.op] \in {"workflow", "platform_rule", "agent"}
      /\ to = "human" => r.by \in Agents
      /\ to = "pending" /\ Source[r.op] = "workflow" => r.op = "escalate"
      /\ to = "pending" => r.op \in {"escalate", "release"}
  BY <1>1 DEF ToMode, Source, Modes, Fit, Ok
<1>4. r.by \in Agents \cup {NoAgent}
  BY <1>1 DEF Requests
<1>5. TypeOK'
  <2>1. conv' \in [Convs -> [mode : Modes, agent : Agents \cup {NoAgent}]]
    BY <1>1, <1>2, <1>3, <1>4 DEF IInv, TypeOK
  <2>2. \A d \in Convs : conv'[d].mode = "human" <=> conv'[d].agent # NoAgent
    BY <1>1, <1>2, <1>3, NamesAssumption DEF IInv, TypeOK
  <2>3. last' \in [Convs -> [from : Modes \cup {"none"}, to : Modes,
                             source : {"none", "workflow", "platform_rule", "agent"}, by : Agents \cup {NoAgent}]]
    BY <1>1, <1>2, <1>3, <1>4 DEF IInv, TypeOK
  <2> QED BY <1>1, <2>1, <2>2, <2>3, JoinsKeeps DEF IInv, TypeOK, Ages
<1>6. \A d \in Convs \ {c} : conv'[d] = conv[d] /\ last'[d] = last[d]
  BY <1>2 DEF IInv, TypeOK
<1>7. EscalationNeedsInbox'
  <2>1. conv'[c].mode = "pending" /\ last'[c].source = "workflow" => inbox
    BY <1>1, <1>2, <1>3 DEF IInv, TypeOK, Ok, Sharing
  <2> QED BY <1>1, <1>6, <2>1 DEF IInv, EscalationNeedsInbox
<1>8. ASSUME NEW g \in Tasks PROVE Ok(req[g])'
  <2>1. CASE g = h
    <3>1. req'[g] = t
      BY <1>1, <2>1, JoinsKeeps
    <3>2. Sharing(t) => inbox'
      BY <1>1 DEF Sharing, Ok
    <3> QED BY <1>1, <3>1, <3>2 DEF Ok, Fit, Sharing, Delivering
  <2>2. CASE g # h
    <3>1. req'[g] = req[g] /\ Ok(req[g]) /\ Apart(req[g], r) /\ Apart(r, req[g])
      BY <1>1, <2>2, JoinsKeeps DEF IInv, Requesting
    <3>2. req[g].pc = "write" => req[g].conv \in Convs \ {c}
      BY <1>1, <3>1 DEF Apart, Ok, Fit
    <3>3. req[g].pc = "off" => NoEscalation'
      <4> SUFFICES ASSUME req[g].pc = "off" PROVE NoEscalation'
        OBVIOUS
      <4>1. NoEscalation /\ r.op # "escalate"
        BY <1>1, <3>1 DEF Ok, Fit, Apart, Excluding, Sharing
      <4>2. ~(conv'[c].mode = "pending" /\ last'[c].source = "workflow")
        BY <1>1, <1>2, <1>3, <4>1 DEF IInv, TypeOK
      <4> QED BY <1>6, <4>1, <4>2 DEF NoEscalation
    <3> QED BY <1>1, <1>6, <3>1, <3>2, <3>3 DEF Ok, Fit, Sharing, Delivering
  <2> QED BY <2>1, <2>2
<1>9. Unwritten'
  BY <1>1 DEF IInv, Unwritten
<1> QED BY <1>1, <1>5, <1>7, <1>8, <1>9, JoinsKeeps DEF IInv, Requesting, Apart, Excluding, Sharing, Delivering

LEMMA ReplyKeeps ==
  ASSUME IInv, NEW h, NEW t, NEW s, ReplyStep(h, t, s)
  PROVE  IInv'
<1> DEFINE r == req[h]
           m == r.msg
<1>1. /\ h \in Tasks /\ r.pc \in {"insert", "claim", "answered"} /\ (r.pc = "claim" => msgs[m].status = "failed")
      /\ Joins(h, t) /\ Fit(t) /\ Ages /\ UNCHANGED <<conv, last, inbox, access>>
      /\ \/ t = Idle /\ s \in {"sent", "failed"} /\ r.pc = "answered"
         \/ t.pc = "post" /\ t.msg = m /\ s = "sending" /\ r.pc \in {"insert", "claim"}
  BY DEF ReplyStep
<1>2. PICK c \in Convs : msgs' = [msgs EXCEPT ![m] = [status |-> s, conv |-> c]]
  BY DEF ReplyStep
<1>3. Ok(r) /\ m \in Messages /\ s \in {"sending", "sent", "failed"}
  BY <1>1 DEF IInv, Requesting, Ok, Fit
<1>4. /\ msgs'[m] = [status |-> s, conv |-> c]
      /\ \A n \in Messages \ {m} : msgs'[n] = msgs[n]
      /\ msgs' \in [Messages -> [status : {"none", "sending", "sent", "failed"}, conv : Convs \cup {NoConv}]]
  BY <1>2, <1>3 DEF IInv, TypeOK
<1>5. TypeOK'
  BY <1>1, <1>4, JoinsKeeps DEF IInv, TypeOK, Ages
<1>6. Unwritten' /\ EscalationNeedsInbox'
  BY <1>1, <1>3, <1>4, NamesAssumption DEF IInv, Unwritten, EscalationNeedsInbox
<1>7. ASSUME NEW g \in Tasks PROVE Ok(req[g])'
  <2>1. CASE g = h
    <3>1. req'[g] = t
      BY <1>1, <2>1, JoinsKeeps
    <3>2. CASE t = Idle
      <4>1. Fit(t) /\ t.pc = "idle"
        BY <1>1, <3>2, IdleIsOk
      <4> QED BY <3>1, <4>1 DEF Ok, Fit, Sharing, Delivering
    <3>3. CASE t.pc = "post" /\ t.msg = m /\ s = "sending"
      BY <1>1, <1>4, <3>1, <3>3 DEF Ok, Fit, Sharing, Delivering
    <3> QED BY <1>1, <3>2, <3>3
  <2>2. CASE g # h
    <3>1. req'[g] = req[g] /\ Ok(req[g]) /\ Apart(req[g], r) /\ Apart(r, req[g])
      BY <1>1, <2>2, JoinsKeeps DEF IInv, Requesting
    <3>2. req[g].pc \in {"insert", "post", "answered"} => req[g].msg \in Messages \ {m}
      BY <1>1, <1>3, <3>1 DEF Apart, Ok, Fit, Delivering
    <3> QED BY <1>1, <1>4, <3>1, <3>2 DEF Ok, Fit, Sharing, Delivering, NoEscalation
  <2> QED BY <2>1, <2>2
<1> QED BY <1>1, <1>5, <1>6, <1>7, JoinsKeeps DEF IInv, Requesting, Apart, Excluding, Sharing, Delivering

LEMMA ModuleKeeps ==
  ASSUME IInv, ModuleStep
  PROVE  IInv'
<1>1. UNCHANGED <<conv, last, aged, access, msgs>>
  BY DEF ModuleStep
<1>2. CASE inbox' = TRUE /\ UNCHANGED req
  <2>1. \A h \in Tasks : Ok(req[h])'
    BY <1>1, <1>2 DEF IInv, Requesting, Ok, Fit, Sharing, Delivering, NoEscalation
  <2> QED BY <1>1, <1>2, <2>1
      DEF IInv, TypeOK, Requesting, Unwritten, EscalationNeedsInbox, Apart, Excluding, Sharing, Delivering
<1>3. CASE inbox' = FALSE /\ \E h \in Tasks : req[h].pc = "off" /\ req' = [req EXCEPT ![h] = Idle]
  <2>1. PICK h \in Tasks : req[h].pc = "off" /\ req' = [req EXCEPT ![h] = Idle]
    BY <1>3
  <2>2. Excluding(req[h]) /\ NoEscalation
    BY <2>1 DEF IInv, Requesting, Ok, Fit, Excluding
  <2>3. Joins(h, Idle)
    <3>1. \A g \in Tasks \ {h} : Apart(Idle, req[g]) /\ Apart(req[g], Idle)
      BY IdleIsApart DEF IInv, Requesting, Ok, Fit
    <3> QED BY <2>1, <3>1, IdleIsOk DEF Joins
  <2>4. req'[h] = Idle /\ \A g \in Tasks \ {h} : req'[g] = req[g] /\ ~Sharing(req[g])
    BY <2>1, <2>2, <2>3, JoinsKeeps, IdleIsOk DEF IInv, Requesting, Apart
  <2>5. ASSUME NEW g \in Tasks PROVE Ok(req[g])'
    <3>1. CASE g = h
      <4>1. Fit(Idle) /\ Idle.pc = "idle" /\ Idle.op = "none" /\ req'[g] = Idle
        BY <2>4, <3>1, IdleIsOk
      <4> QED BY <4>1 DEF Ok, Fit, Sharing, Delivering
    <3>2. CASE g # h
      BY <1>1, <2>4, <3>2 DEF IInv, Requesting, Ok, Fit, Sharing, Delivering, NoEscalation
    <3> QED BY <3>1, <3>2
  <2>6. TypeOK' /\ Unwritten' /\ EscalationNeedsInbox'
    BY <1>1, <1>3, <2>2, <2>3, JoinsKeeps, IdleIsOk
    DEF IInv, TypeOK, Unwritten, EscalationNeedsInbox, NoEscalation
  <2> QED BY <2>3, <2>5, <2>6, JoinsKeeps, IdleIsOk DEF IInv, Requesting, Apart, Excluding, Sharing, Delivering
<1> QED BY <1>2, <1>3 DEF ModuleStep

LEMMA StepsKeep == IInv /\ Steps => IInv'
BY RequestKeeps, ModeKeeps, ReplyKeeps, ModuleKeeps DEF Steps

-----------------------------------------------------------------------------
(* Every action is one of the forms. *)

\* What h may take up next, given what it and the others hold.
MayBecome(h, t) ==
  /\ h \in Tasks /\ req' = [req EXCEPT ![h] = t]
  /\ t.pc = "write" => RowFree(t.conv)
  /\ Sharing(t) => Sharing(req[h]) \/ \A g \in Tasks : ~Switching(g)
  /\ Excluding(t) => Excluding(req[h]) \/ \A g \in Tasks : ~Shares(g) /\ ~Switching(g)
  /\ Delivering(t) => Delivering(req[h]) /\ t.msg = req[h].msg
  /\ \A g \in Tasks : req[g].pc = "insert" => g = h \/ t.msg # req[g].msg
  /\ t.pc = "insert" => \A g \in Tasks \ {h} : req[g].msg # t.msg
  /\ h = Sweeper => t.op \in {"none", "sweep"} /\ t.msg = NoMessage

LEMMA MovesJoin ==
  ASSUME IInv, NEW h, NEW t, MayBecome(h, t)
  PROVE  Joins(h, t)
<1> USE DEF MayBecome
<1>1. ASSUME NEW g \in Tasks \ {h} PROVE Apart(t, req[g]) /\ Apart(req[g], t)
  <2>1. Apart(req[h], req[g]) /\ Apart(req[g], req[h])
    BY <1>1 DEF IInv, Requesting
  <2>2. t.pc = "write" /\ req[g].pc = "write" => t.conv # req[g].conv
    BY DEF RowFree
  <2>3. /\ Excluding(t) => ~Sharing(req[g]) /\ ~Excluding(req[g])
        /\ Excluding(req[g]) => ~Sharing(t) /\ ~Excluding(t)
    BY <2>1 DEF Apart, Excluding, Sharing, Switching, Shares
  <2>4. Delivering(t) /\ Delivering(req[g]) => t.msg # req[g].msg
    BY <2>1 DEF Apart
  <2> QED BY <2>2, <2>3, <2>4 DEF Apart
<1> QED BY <1>1 DEF Joins

LEMMA EndsJoin ==
  ASSUME IInv, NEW h \in Tasks, Ends(h)
  PROVE  Joins(h, Idle) /\ Ok(Idle)
<1>1. \A g \in Tasks \ {h} : Apart(Idle, req[g]) /\ Apart(req[g], Idle)
  BY IdleIsApart DEF IInv, Requesting, Ok, Fit
<1> QED BY <1>1, IdleIsOk DEF Joins, Ends

LEMMA UntouchedIsRequest ==
  ASSUME IInv, NEW h, NEW t, Joins(h, t), Ok(t), Untouched
  PROVE  Steps
BY DEF Steps, RequestStep, Ages, Untouched, IInv, TypeOK

LEMMA UntouchedEnds ==
  ASSUME IInv, NEW h \in Tasks, Ends(h), Untouched
  PROVE  Steps
BY EndsJoin, UntouchedIsRequest

LEMMA FitsNow ==
  ASSUME IInv, NEW h \in Tasks
  PROVE  /\ Ok(req[h]) /\ Fit(req[h]) /\ req[h] \in Requests
         /\ req \in [Tasks -> Requests]
         /\ h = Sweeper => req[h].op \in {"none", "sweep"} /\ req[h].msg = NoMessage
         /\ \A g \in Tasks : g # h /\ req[g].pc = "insert" => req[h].msg # req[g].msg
         /\ \A g \in Tasks : req[g].pc = "insert" => req[g].msg \in Messages
BY DEF IInv, TypeOK, Requesting, Ok, Fit, Apart

LEMMA DoneJoins ==
  ASSUME IInv, NEW h \in Tasks, req[h].pc \in {"lock", "write"}, Done(h)
  PROVE  \E t : Joins(h, t) /\ Ok(t) /\ Fit(t) /\ t.pc \in {"idle", "lock"} /\ t.op \in {"none", req[h].op}
<1>1. CASE Ends(h)
  BY <1>1, EndsJoin, IdleIsOk
<1>2. CASE \E c \in req[h].todo : req' = [req EXCEPT ![h].pc = "lock", ![h].conv = c, ![h].todo = @ \ {c}]
  <2>1. PICK c \in req[h].todo : req' = [req EXCEPT ![h].pc = "lock", ![h].conv = c, ![h].todo = @ \ {c}]
    BY <1>2
  <2> DEFINE t == [req[h] EXCEPT !.pc = "lock", !.conv = c, !.todo = @ \ {c}]
  <2>2. /\ t \in Requests /\ t.pc = "lock" /\ t.op = req[h].op /\ t.msg = req[h].msg /\ t.by = req[h].by
        /\ t.conv = c /\ c \in Convs
    BY FitsNow DEF Requests
  <2>3. req' = [req EXCEPT ![h] = t]
    BY <2>1, FitsNow
  <2>4. Ok(t) /\ Fit(t)
    BY <2>2, FitsNow DEF Ok, Fit, Sharing, Delivering
  <2>5. Joins(h, t)
    <3>1. MayBecome(h, t)
      BY <2>2, <2>3, FitsNow DEF MayBecome, Sharing, Excluding, Delivering
    <3> QED BY <3>1, MovesJoin
  <2> QED BY <2>2, <2>4, <2>5
<1> QED BY <1>1, <1>2 DEF Done

LEMMA GateSteps == ASSUME IInv, NEW h \in Tasks, Gate(h) PROVE Steps
<1>1. CASE inbox /\ Goes(h, "lock")
  <2> DEFINE t == [req[h] EXCEPT !.pc = "lock"]
  <2>1. /\ t \in Requests /\ t.pc = "lock" /\ t.op = req[h].op /\ t.msg = req[h].msg /\ t.by = req[h].by
        /\ t.conv = req[h].conv /\ req' = [req EXCEPT ![h] = t]
    BY <1>1, FitsNow DEF Requests, Goes
  <2>2. Ok(t)
    BY <1>1, <2>1, FitsNow DEF Ok, Fit, Sharing, Delivering, Gate
  <2>3. Joins(h, t)
    <3>1. MayBecome(h, t)
      BY <2>1, FitsNow DEF MayBecome, Sharing, Excluding, Delivering, Gate
    <3> QED BY <3>1, MovesJoin
  <2> QED BY <2>2, <2>3, UntouchedIsRequest DEF Gate
<1> QED BY <1>1, UntouchedEnds DEF Gate

LEMMA LockRowSteps == ASSUME IInv, NEW h \in Tasks, LockRow(h) PROVE Steps
<1>1. CASE Allowed(h) /\ req' = [req EXCEPT ![h].pc = "write", ![h].expected = {conv[req[h].conv].mode}]
  <2>1. PICK e \in SUBSET Modes : e = {conv[req[h].conv].mode}
    <3>1. conv[req[h].conv].mode \in Modes
      BY FitsNow DEF LockRow, Fit, IInv, TypeOK
    <3> QED BY <3>1
  <2> DEFINE t == [req[h] EXCEPT !.pc = "write", !.expected = e]
  <2>2. /\ t \in Requests /\ t.pc = "write" /\ t.op = req[h].op /\ t.msg = req[h].msg /\ t.by = req[h].by
        /\ t.conv = req[h].conv /\ t.expected = e
    BY FitsNow DEF Requests
  <2>3. req' = [req EXCEPT ![h] = t]
    BY <1>1, <2>1, FitsNow
  <2>4. Ok(t)
    BY <1>1, <2>1, <2>2, FitsNow DEF Ok, Fit, Sharing, Delivering, LockRow, Allowed
  <2>5. MayBecome(h, t)
    BY <2>2, <2>3, FitsNow DEF MayBecome, Sharing, Excluding, Delivering, LockRow
  <2> QED BY <2>4, <2>5, MovesJoin, UntouchedIsRequest DEF LockRow
<1>2. CASE Done(h)
  BY <1>2, DoneJoins, UntouchedIsRequest DEF LockRow
<1> QED BY <1>1, <1>2 DEF LockRow

LEMMA CommitModeSteps == ASSUME IInv, NEW h \in Tasks, CommitMode(h) PROVE Steps
<1>1. PICK t : Joins(h, t) /\ Fit(t) /\ t.pc \in {"idle", "lock"} /\ t.op \in {"none", req[h].op}
  BY DoneJoins DEF CommitMode
<1>2. req[h].expected = {conv[req[h].conv].mode}
  BY FitsNow DEF Ok, CommitMode
<1>3. aged' = [aged EXCEPT ![req[h].conv].change = FALSE]
  BY DEF CommitMode
<1>4. Ages
  BY <1>3 DEF Ages, IInv, TypeOK
<1>5. ModeStep(h, t)
  BY <1>1, <1>2, <1>4 DEF ModeStep, CommitMode
<1> QED BY <1>5 DEF Steps

LEMMA StatusExcept ==
  ASSUME IInv, NEW m \in Messages, NEW s
  PROVE  [msgs EXCEPT ![m].status = s] = [msgs EXCEPT ![m] = [status |-> s, conv |-> msgs[m].conv]]
<1>1. [msgs[m] EXCEPT !.status = s] = [status |-> s, conv |-> msgs[m].conv]
  BY DEF IInv, TypeOK
<1> QED BY <1>1

LEMMA ListReleasedSteps == ASSUME IInv, NEW h \in Handlers, ListReleased(h), ~Ends(h) PROVE Steps
<1> h \in Tasks /\ h # Sweeper
  BY NamesAssumption DEF Tasks
<1> DEFINE held == {c \in Convs : conv[c].mode = "human" /\ conv[c].agent = req[h].by}
<1>1. PICK c \in held : req' = [req EXCEPT ![h].pc = "lock", ![h].conv = c, ![h].todo = held \ {c}]
  BY DEF ListReleased
<1> DEFINE t == [req[h] EXCEPT !.pc = "lock", !.conv = c, !.todo = held \ {c}]
<1>2. /\ t \in Requests /\ t.pc = "lock" /\ t.op = "release" /\ t.msg = req[h].msg /\ t.conv \in Convs
      /\ req' = [req EXCEPT ![h] = t]
  <2>1. req[h].pc = "list" /\ c \in Convs /\ held \ {c} \in SUBSET Convs
    BY DEF ListReleased
  <2>2. req' = [req EXCEPT ![h] = t]
    BY <1>1, FitsNow
  <2> HIDE DEF held
  <2>3. t \in Requests /\ t.pc = "lock" /\ t.op = req[h].op /\ t.msg = req[h].msg /\ t.conv = c
    BY <2>1, FitsNow DEF Requests
  <2> QED BY <2>1, <2>2, <2>3, FitsNow DEF Fit
<1>3. Ok(t)
  BY <1>2 DEF Ok, Fit, Sharing, Delivering, ToMode
<1>4. MayBecome(h, t)
  BY <1>2, FitsNow DEF MayBecome, Sharing, Excluding, Delivering
<1> QED BY <1>3, <1>4, MovesJoin, UntouchedIsRequest DEF ListReleased

LEMMA ContinueSteps == ASSUME IInv, NEW h \in Handlers, Continue(h) PROVE Steps
<1> h \in Tasks /\ h # Sweeper
  BY NamesAssumption DEF Tasks
<1>1. CASE Gate(h) \/ Transition(h)
  BY <1>1, GateSteps, LockRowSteps, CommitModeSteps DEF Transition
<1>2. CASE ListReleased(h)
  BY <1>2, ListReleasedSteps, UntouchedEnds DEF ListReleased
<1>3. CASE CountActive(h) /\ ~Ends(h)
  <2> DEFINE t == [req[h] EXCEPT !.pc = "off"]
  <2>1. /\ t \in Requests /\ t.pc = "off" /\ t.op = "disable" /\ req[h].op = "disable" /\ req[h].pc = "count"
        /\ t.msg = req[h].msg /\ req' = [req EXCEPT ![h] = t]
    BY <1>3, FitsNow DEF Requests, CountActive, Goes, Fit
  <2>2. Ok(t)
    BY <1>3, <2>1 DEF Ok, Fit, Sharing, Delivering, CountActive, NoEscalation
  <2>3. MayBecome(h, t)
    BY <2>1, FitsNow DEF MayBecome, Sharing, Excluding, Delivering
  <2> QED BY <1>3, <2>2, <2>3, MovesJoin, UntouchedIsRequest DEF CountActive
<1>4. CASE DisableInbox(h)
  BY <1>4 DEF Steps, ModuleStep, DisableInbox, Ends
<1>5. CASE InsertMessage(h)
  <2> DEFINE t == [req[h] EXCEPT !.pc = "post"]
  <2>1. /\ t \in Requests /\ t.pc = "post" /\ t.op \in {"send", "retry"} /\ t.msg = req[h].msg /\ t.msg \in Messages
        /\ t.conv = req[h].conv /\ t.conv \in Convs /\ req' = [req EXCEPT ![h] = t] /\ req[h].pc = "insert"
    BY <1>5, FitsNow DEF Requests, InsertMessage, Goes, Fit
  <2>2. Fit(t)
    BY <2>1 DEF Fit
  <2>3. Joins(h, t)
    <3>1. ASSUME NEW g \in Tasks \ {h} PROVE Apart(t, req[g]) /\ Apart(req[g], t)
      <4>1. req[g].msg # t.msg
        BY <2>1 DEF IInv, Requesting, Apart
      <4> QED BY <2>1, <4>1 DEF Apart, Excluding, Sharing, Delivering
    <3> QED BY <2>1, <3>1 DEF Joins
  <2>4. Ages
    BY <1>5 DEF InsertMessage, Ages, IInv, TypeOK
  <2>5. ReplyStep(h, t, "sending")
    BY <1>5, <2>1, <2>2, <2>3, <2>4 DEF ReplyStep, InsertMessage
  <2> QED BY <2>5 DEF Steps
<1>6. CASE ClaimFailedMessage(h) /\ msgs[req[h].msg].status = "failed"
  <2> DEFINE t == [req[h] EXCEPT !.pc = "post"]
             m == req[h].msg
  <2>1. /\ t \in Requests /\ t.pc = "post" /\ t.op \in {"send", "retry"} /\ t.msg = m /\ m \in Messages
        /\ t.conv = req[h].conv /\ t.conv \in Convs /\ req' = [req EXCEPT ![h] = t] /\ req[h].pc = "claim"
    BY <1>6, FitsNow DEF Requests, ClaimFailedMessage, Goes, Fit
  <2>2. Fit(t)
    BY <2>1 DEF Fit
  <2>3. Joins(h, t)
    <3>1. ASSUME NEW g \in Tasks \ {h} PROVE Apart(t, req[g]) /\ Apart(req[g], t)
      <4>1. req[g].pc = "insert" \/ Delivering(req[g]) => req[g].msg # m
        BY <1>6 DEF IInv, Requesting, Ok
      <4> QED BY <2>1, <4>1 DEF Apart, Excluding, Sharing, Delivering
    <3> QED BY <2>1, <3>1 DEF Joins
  <2>4. \E c \in Convs : msgs' = [msgs EXCEPT ![m] = [status |-> "sending", conv |-> c]]
    <3>1. msgs[m].conv \in Convs /\ msgs' = [msgs EXCEPT ![m].status = "sending"]
      BY <1>6, <2>1 DEF ClaimFailedMessage, IInv, TypeOK, Unwritten
    <3>2. msgs' = [msgs EXCEPT ![m] = [status |-> "sending", conv |-> msgs[m].conv]]
      BY <2>1, <3>1, StatusExcept
    <3> QED BY <3>1, <3>2
  <2>5. ReplyStep(h, t, "sending")
    BY <1>6, <2>1, <2>2, <2>3, <2>4 DEF ReplyStep, ClaimFailedMessage, Ages, IInv, TypeOK
  <2> QED BY <2>5 DEF Steps
<1>7. CASE ClaimFailedMessage(h) /\ msgs[req[h].msg].status # "failed"
  BY <1>7, UntouchedEnds DEF ClaimFailedMessage, Untouched
<1>8. CASE SendToWebhook(h)
  <2>1. PICK o \in {"sent", "failed"} : req' = [req EXCEPT ![h].pc = "answered", ![h].outcome = o]
    BY <1>8 DEF SendToWebhook
  <2> DEFINE t == [req[h] EXCEPT !.pc = "answered", !.outcome = o]
  <2>2. /\ t \in Requests /\ t.pc = "answered" /\ t.op \in {"send", "retry"} /\ t.msg = req[h].msg /\ t.msg \in Messages
        /\ t.conv \in Convs /\ t.outcome = o /\ req' = [req EXCEPT ![h] = t] /\ req[h].pc = "post"
    <3>1. req[h].pc = "post" /\ Fit(req[h])
      BY <1>8, FitsNow DEF SendToWebhook
    <3>2. req' = [req EXCEPT ![h] = t]
      BY <2>1, FitsNow
    <3>3. t \in Requests /\ t.pc = "answered" /\ t.outcome = o /\ t.op = req[h].op /\ t.msg = req[h].msg /\ t.conv = req[h].conv
      BY FitsNow DEF Requests
    <3> QED BY <3>1, <3>2, <3>3 DEF Fit
  <2>3. Ok(t)
    BY <2>2, FitsNow DEF Ok, Fit, Sharing, Delivering
  <2>4. MayBecome(h, t)
    BY <2>2, FitsNow DEF MayBecome, Sharing, Excluding, Delivering
  <2> QED BY <1>8, <2>3, <2>4, MovesJoin, UntouchedIsRequest DEF SendToWebhook
<1>9. CASE UpdateMessageDelivery(h)
  <2> DEFINE r == req[h]
             m == r.msg
  <2>1. /\ m \in Messages /\ r.outcome \in {"sent", "failed"} /\ Ends(h) /\ r.pc = "answered"
        /\ msgs' = [msgs EXCEPT ![m].status = r.outcome] /\ msgs[m].status = "sending"
    BY <1>9, FitsNow DEF UpdateMessageDelivery, Ok, Fit, Delivering
  <2>2. \E c \in Convs : msgs' = [msgs EXCEPT ![m] = [status |-> r.outcome, conv |-> c]]
    <3>1. msgs[m].conv \in Convs
      BY <2>1 DEF IInv, TypeOK, Unwritten
    <3>2. msgs' = [msgs EXCEPT ![m] = [status |-> r.outcome, conv |-> msgs[m].conv]]
      BY <2>1, <3>1, StatusExcept
    <3> QED BY <3>1, <3>2
  <2>3. ReplyStep(h, Idle, r.outcome)
    BY <1>9, <2>1, <2>2, EndsJoin, IdleIsOk DEF ReplyStep, UpdateMessageDelivery, Ages, IInv, TypeOK
  <2> QED BY <2>3 DEF Steps
<1>10. CASE CountActive(h) /\ Ends(h)
  BY <1>10, UntouchedEnds DEF CountActive
<1> QED BY <1>1, <1>2, <1>3, <1>4, <1>5, <1>6, <1>7, <1>8, <1>9, <1>10 DEF Continue

LEMMA AskSteps ==
  ASSUME IInv, NEW h \in Tasks, req[h] = Idle, Untouched,
         NEW t, MayBecome(h, t), Ok(t)
  PROVE  Steps
BY MovesJoin, UntouchedIsRequest

\* A request without a reply, by its name, its step and who asks.
Fresh(op, pc, c, a, e) ==
  [Idle EXCEPT !.op = op, !.pc = pc, !.conv = c, !.by = a, !.expected = e]

LEMMA FreshFields ==
  ASSUME NEW op, NEW pc, NEW c, NEW a, NEW e
  PROVE  LET t == Fresh(op, pc, c, a, e) IN t.op = op /\ t.pc = pc /\ t.conv = c /\ t.by = a /\ t.expected = e /\ t.msg = NoMessage
BY DEF Fresh, Idle

LEMMA FreshIsFit ==
  ASSUME NEW op \in {"escalate", "take", "dismiss", "return", "sweep", "release", "disable"},
         NEW pc \in {"gate", "lock", "list", "count"}, NEW c \in Convs \cup {NoConv},
         NEW a \in Agents \cup {NoAgent}, NEW e \in SUBSET Modes,
         op \in {"take", "dismiss", "return"} => a \in Agents,
         pc = "gate" => op = "escalate",
         pc = "lock" => op \in {"take", "dismiss", "return", "sweep"},
         pc \in {"gate", "lock"} => c \in Convs,
         pc = "count" => op = "disable",
         pc = "list" => op = "release"
  PROVE  Ok(Fresh(op, pc, c, a, e))
<1>1. Fresh(op, pc, c, a, e) \in Requests
  BY DEF Fresh, Idle, Requests
<1> QED BY <1>1, FreshFields DEF Ok, Fit, Sharing, Delivering, ToMode

LEMMA FreshMay ==
  ASSUME IInv, NEW h \in Tasks, NEW op, NEW pc \in {"gate", "lock", "list", "count"}, NEW c, NEW a, NEW e,
         req[h] = Idle, Asks(h, op, pc, c, a, e),
         pc = "lock" => op # "escalate",
         op = "disable" => \A g \in Tasks : ~Shares(g) /\ ~Switching(g),
         h = Sweeper => op = "sweep"
  PROVE  MayBecome(h, Fresh(op, pc, c, a, e))
<1>1. req' = [req EXCEPT ![h] = Fresh(op, pc, c, a, e)]
  BY DEF Fresh, Asks
<1>2. \A g \in Tasks : req[g].pc = "insert" => req[g].msg # NoMessage
  BY FitsNow, NamesAssumption
<1> QED BY <1>1, <1>2, FreshFields DEF MayBecome, Sharing, Excluding, Delivering

LEMMA StartsSteps == ASSUME IInv, NEW h \in Handlers, Starts(h) PROVE Steps
<1> h \in Tasks /\ h # Sweeper
  BY NamesAssumption DEF Tasks
<1>1. CASE \E c \in Convs : Escalate(h, c)
  <2>1. PICK c \in Convs : Escalate(h, c)
    BY <1>1
  <2>2. Ok(Fresh("escalate", "gate", c, NoAgent, Modes))
    BY FreshIsFit
  <2>3. MayBecome(h, Fresh("escalate", "gate", c, NoAgent, Modes))
    BY <2>1, FreshMay DEF Escalate
  <2> QED BY <2>1, <2>2, <2>3, AskSteps DEF Escalate
<1>2. ASSUME NEW a \in Agents, NEW c \in Convs, Take(h, a, c) PROVE Steps
  <2>1. Ok(Fresh("take", "lock", c, a, Modes))
    BY FreshIsFit
  <2>2. MayBecome(h, Fresh("take", "lock", c, a, Modes))
    BY <1>2, FreshMay DEF Take
  <2> QED BY <1>2, <2>1, <2>2, AskSteps DEF Take
<1>3. ASSUME NEW a \in Agents, NEW c \in Convs, Dismiss(h, a, c) PROVE Steps
  <2>1. Ok(Fresh("dismiss", "lock", c, a, {"pending"}))
    <3>1. {"pending"} \in SUBSET Modes
      BY DEF Modes
    <3> QED BY <3>1, FreshIsFit
  <2>2. MayBecome(h, Fresh("dismiss", "lock", c, a, {"pending"}))
    BY <1>3, FreshMay DEF Dismiss
  <2> QED BY <1>3, <2>1, <2>2, AskSteps DEF Dismiss
<1>4. ASSUME NEW a \in Agents, NEW c \in Convs, ReturnToBot(h, a, c) PROVE Steps
  <2>1. Ok(Fresh("return", "lock", c, a, {"human"}))
    <3>1. {"human"} \in SUBSET Modes
      BY DEF Modes
    <3> QED BY <3>1, FreshIsFit
  <2>2. MayBecome(h, Fresh("return", "lock", c, a, {"human"}))
    BY <1>4, FreshMay DEF ReturnToBot
  <2> QED BY <1>4, <2>1, <2>2, AskSteps DEF ReturnToBot
<1>5. ASSUME NEW a \in Agents, RemoveAgent(h, a) PROVE Steps
  <2>1. Ok(Fresh("release", "list", NoConv, a, Modes))
    BY FreshIsFit
  <2>2. MayBecome(h, Fresh("release", "list", NoConv, a, Modes))
    BY <1>5, FreshMay DEF RemoveAgent
  <2>3. Joins(h, Fresh("release", "list", NoConv, a, Modes))
    BY <2>2, MovesJoin
  <2> QED BY <1>5, <2>1, <2>3 DEF RemoveAgent, Steps, RequestStep, Ages, IInv, TypeOK
<1>6. CASE LockModule(h)
  <2>1. Ok(Fresh("disable", "count", NoConv, NoAgent, Modes))
    BY FreshIsFit
  <2>2. MayBecome(h, Fresh("disable", "count", NoConv, NoAgent, Modes))
    BY <1>6, FreshMay DEF LockModule
  <2> QED BY <1>6, <2>1, <2>2, AskSteps DEF LockModule
<1>7. ASSUME NEW a \in Agents, NEW c \in Convs, NEW m \in Messages, SendMessage(h, a, c, m) PROVE Steps
  <2> DEFINE t == [Idle EXCEPT !.op = "send", !.pc = "insert", !.conv = c, !.by = a, !.msg = m]
  <2>1. /\ t \in Requests /\ t.op = "send" /\ t.pc = "insert" /\ t.conv = c /\ t.msg = m
        /\ req' = [req EXCEPT ![h] = t]
    BY <1>7 DEF SendMessage, AsksAbout, Idle, Requests, Modes
  <2>2. Ok(t)
    BY <1>7, <2>1 DEF Ok, Fit, Sharing, Delivering, SendMessage
  <2>3. \A g \in Tasks : req[g].msg # m
    BY <1>7, NamesAssumption DEF SendMessage, Tasks, IInv, Requesting
  <2>4. MayBecome(h, t)
    BY <2>1, <2>3, FitsNow DEF MayBecome, Sharing, Excluding, Delivering
  <2> QED BY <1>7, <2>2, <2>4, AskSteps DEF SendMessage
<1>8. ASSUME NEW a \in Agents, NEW c \in Convs, NEW m \in Messages, RetrySend(h, a, c, m) PROVE Steps
  <2> DEFINE t == [Idle EXCEPT !.op = "retry", !.pc = "claim", !.conv = c, !.by = a, !.msg = m]
  <2>1. /\ t \in Requests /\ t.op = "retry" /\ t.pc = "claim" /\ t.conv = c /\ t.msg = m
        /\ req' = [req EXCEPT ![h] = t]
    BY <1>8 DEF RetrySend, AsksAbout, Idle, Requests, Modes
  <2>2. Ok(t)
    BY <2>1 DEF Ok, Fit, Sharing, Delivering
  <2>3. \A g \in Tasks : req[g].pc = "insert" => req[g].msg # m
    BY <1>8, NamesAssumption DEF RetrySend, IInv, Requesting, Ok, Unwritten
  <2>4. MayBecome(h, t)
    BY <2>1, <2>3 DEF MayBecome, Sharing, Excluding, Delivering
  <2> QED BY <1>8, <2>2, <2>4, AskSteps DEF RetrySend
<1> QED BY <1>1, <1>2, <1>3, <1>4, <1>5, <1>6, <1>7, <1>8 DEF Starts

LEMMA NextSteps == IInv /\ [Next]_vars => Steps
<1> SUFFICES ASSUME IInv, [Next]_vars PROVE Steps
  OBVIOUS
<1> Sweeper \in Tasks /\ Handlers \subseteq Tasks
  BY DEF Tasks
<1>1. CASE \E h \in Handlers : Starts(h) \/ Continue(h) \/ Dies(h)
  BY <1>1, StartsSteps, ContinueSteps, UntouchedEnds DEF Dies
<1>2. ASSUME NEW c \in Convs, Sweep(c) PROVE Steps
  <2>1. PICK e \in SUBSET Modes : e = {conv[c].mode}
    <3>1. conv[c].mode \in Modes
      BY DEF IInv, TypeOK
    <3> QED BY <3>1
  <2>2. Ok(Fresh("sweep", "lock", c, NoAgent, e))
    BY FreshIsFit
  <2>3. MayBecome(Sweeper, Fresh("sweep", "lock", c, NoAgent, e))
    BY <1>2, <2>1, FreshMay DEF Sweep
  <2> QED BY <1>2, <2>2, <2>3, AskSteps DEF Sweep
<1>3. CASE Transition(Sweeper)
  BY <1>3, LockRowSteps, CommitModeSteps DEF Transition
<1>4. CASE Dies(Sweeper)
  BY <1>4, UntouchedEnds DEF Dies
<1>5. CASE EnableInbox
  BY <1>5 DEF Steps, ModuleStep, EnableInbox
<1>6. CASE (\E c \in Convs : TimePasses(c)) \/ UNCHANGED vars
  <2>1. UNCHANGED <<conv, last, inbox, access, msgs, req>>
    BY <1>6 DEF TimePasses, vars
  <2>2. Ages
    <3>1. ASSUME NEW c \in Convs, TimePasses(c) PROVE Ages
      <4>1. PICK p \in {"never", "old"} : aged' = [aged EXCEPT ![c] = [change |-> TRUE, reply |-> p]]
        BY <3>1 DEF TimePasses
      <4> QED BY <4>1 DEF Ages, IInv, TypeOK
    <3>2. CASE UNCHANGED vars
      BY <3>2 DEF vars, Ages, IInv, TypeOK
    <3> QED BY <1>6, <3>1, <3>2
  <2>3. req' = [req EXCEPT ![Sweeper] = req[Sweeper]]
    BY <2>1, FitsNow
  <2>4. Joins(Sweeper, req[Sweeper])
    BY <2>3, FitsNow DEF Joins, IInv, Requesting
  <2> QED BY <2>1, <2>2, <2>4, FitsNow DEF Steps, RequestStep, IInv, TypeOK
<1> QED BY <1>1, <1>2, <1>3, <1>4, <1>5, <1>6 DEF Next

LEMMA InitHolds == Init => IInv
<1> SUFFICES ASSUME Init PROVE IInv
  OBVIOUS
<1>1. \A h \in Tasks : req[h] = Idle
  BY DEF Init
<1>2. TypeOK
  BY IdleIsOk, NamesAssumption DEF Init, TypeOK, Modes
<1>3. Requesting
  BY <1>1, IdleIsOk, IdleIsApart DEF Requesting, Tasks
<1> QED BY <1>2, <1>3 DEF IInv, Init, Unwritten, EscalationNeedsInbox

LEMMA Invariance == Spec => []IInv
<1>1. IInv /\ [Next]_vars => IInv'
  BY NextSteps, StepsKeep
<1> QED BY <1>1, InitHolds, PTL DEF Spec

-----------------------------------------------------------------------------
(* The columns of conversations, transitions and messages keep their types, and a *)
(* conversation has an agent exactly while a human answers it.                    *)
THEOREM TypesHold == Spec => []TypeOK
BY Invariance, PTL DEF IInv

(* No escalation of the workflow waits while the module is off: the shared lock of *)
(* a gated transition and the exclusive one of the switch never meet.              *)
THEOREM EscalationsNeedTheInbox == Spec => []EscalationNeedsInbox
BY Invariance, PTL DEF IInv

LEMMA OkPosts == IInv => PostedByOne
<1> SUFFICES ASSUME IInv, NEW m \in Messages, NEW g \in Tasks, NEW h \in Tasks, Posting(g, m), Posting(h, m),
                    g \in Handlers, h \in Handlers
             PROVE  g = h /\ msgs[m].status = "sending"
  BY DEF PostedByOne, Tasks
<1>1. Delivering(req[g]) /\ Delivering(req[h]) /\ req[g].msg = m /\ req[h].msg = m
  BY DEF Posting, Delivering
<1> QED BY <1>1 DEF IInv, Requesting, Apart, Ok

(* A reply is in the hands of one request at a time: of two retries of a failed    *)
(* one, claimFailedMessageForRetry lets one post.                                  *)
THEOREM RepliesArePostedByOne == Spec => []PostedByOne
BY Invariance, OkPosts, PTL

LEMMA StepSent == IInv /\ [Next]_vars => [\A m \in Messages : msgs[m].status = "sent" => msgs'[m].status = "sent"]_vars
<1> SUFFICES ASSUME IInv, [Next]_vars, NEW m \in Messages, msgs[m].status = "sent"
             PROVE  msgs'[m].status = "sent"
  OBVIOUS
<1>1. CASE UNCHANGED msgs
  BY <1>1
<1>2. ASSUME NEW h, NEW t, NEW s, ReplyStep(h, t, s) PROVE msgs'[m].status = "sent"
  <2>1. h \in Tasks /\ req[h].pc \in {"insert", "claim", "answered"} /\ (req[h].pc = "claim" => msgs[req[h].msg].status = "failed")
    BY <1>2 DEF ReplyStep
  <2>2. req[h].msg # m
    BY <2>1, FitsNow DEF Ok, Delivering
  <2> QED BY <1>2, <2>2 DEF ReplyStep, IInv, TypeOK
<1> QED BY <1>1, <1>2, NextSteps DEF Steps, RequestStep, ModeStep, ModuleStep

(* What is recorded as sent is never claimed, posted or recorded anew.             *)
THEOREM SentIsFinal == Spec => SentStays
BY Invariance, StepSent, PTL DEF Spec, SentStays

LEMMA StepKeepsModes == IInv /\ [Next]_vars => [Promised!ModesNext]_<<conv, last>>
<1> SUFFICES ASSUME IInv, [Next]_vars PROVE [Promised!ModesNext]_<<conv, last>>
  OBVIOUS
<1>1. CASE UNCHANGED <<conv, last>>
  BY <1>1
<1>2. ASSUME NEW h, NEW t, ModeStep(h, t) PROVE Promised!ModesNext
  <2> DEFINE r == req[h]
             c == r.conv
             to == ToMode[r.op]
             source == Source[r.op]
             by == IF source = "agent" THEN r.by ELSE NoAgent
  <2>1. /\ h \in Tasks /\ r.pc = "write"
        /\ conv' = [conv EXCEPT ![c] = [mode |-> to, agent |-> IF to = "human" THEN r.by ELSE NoAgent]]
        /\ last' = [last EXCEPT ![c] = [from |-> conv[c].mode, to |-> to, source |-> source, by |-> by]]
    BY <1>2 DEF ModeStep, Joins
  <2>2. Ok(r) /\ Fit(r) /\ r \in Requests /\ r.op \in DOMAIN ToMode /\ c \in Convs
    BY <2>1, FitsNow DEF Fit
  <2>3. /\ to \in {"bot", "pending", "human"} /\ source \in {"agent", "workflow", "platform_rule"}
        /\ to = "human" => source = "agent"
        /\ source = "agent" => r.by \in Agents
        /\ by \in Agents \cup {NoAgent} /\ (by \in Agents <=> source = "agent")
    BY <2>2, NamesAssumption DEF ToMode, Source, Fit
  <2>4. <<conv[c].mode, to, source>> \in LegalTransitions
    BY <2>1, <2>2 DEF Ok
  <2>5. <<conv[c].mode, to>> \in Promised!Edges[source] /\ source \in DOMAIN Promised!Edges
    <3> HIDE DEF to, source
    <3> QED BY <2>3, <2>4 DEF LegalTransitions, Promised!Edges
  <2>6. (IF to = "human" THEN by ELSE NoAgent) = (IF to = "human" THEN r.by ELSE NoAgent)
    BY <2>3
  <2>7. Promised!Change(c, to, source, by)
    BY <2>1, <2>3, <2>5, <2>6 DEF Promised!Change
  <2> HIDE DEF c, to, source, by
  <2> QED BY <2>2, <2>3, <2>5, <2>7 DEF Promised!ModesNext
<1> QED BY <1>1, <1>2, NextSteps DEF Steps, RequestStep, ReplyStep, ModuleStep

(* Whatever requests, sweep, releases and crashes interleave, the modes change as  *)
(* ConversationModes says: along legal edges, each with its true entry in the trail. *)
THEOREM ModesAreKept == Spec => ModesSpec
<1>1. Init => Promised!ModesInit
  BY DEF Init, Promised!ModesInit
<1> QED BY <1>1, Invariance, StepKeepsModes, PTL DEF Spec, ModesSpec, Promised!ModesSpec

-----------------------------------------------------------------------------
(* Liveness. StepsAreEnabled stays a hypothesis, which TLC checks: ENABLED is beyond the provers. *)

(* What the fairness of FairSpec leaves once the sweep no longer fails. *)
WorksOn(h) == WF_vars(Continue(h))
LooksAt(c) == SF_vars(Sweep(c))
GrowsOld(c) == WF_vars(TimePasses(c))
Works == \A h \in Handlers : WorksOn(h)
Looks == \A c \in Convs : LooksAt(c) /\ GrowsOld(c)
NeverFails == [][Dies(Sweeper) => LockRow(Sweeper)]_vars

\* The sweep is idle or has one conversation, with the mode it saw.
SweepOk(t) == t = Idle \/ (t.op = "sweep" /\ t.pc \in {"lock", "write"} /\ t.todo = {})

Settled ==
  /\ [][Next]_vars /\ []IInv /\ []SweepOk(req[Sweeper]) /\ []StepsAreEnabled
  /\ Works /\ Looks /\ SF_vars(Transition(Sweeper))
  /\ NeverFails

-----------------------------------------------------------------------------
(* How the requests move. *)

LEMMA OthersStay ==
  ASSUME req \in [Tasks -> Requests], NEW h \in Tasks, Starts(h) \/ Continue(h) \/ Dies(h),
         NEW g \in Tasks, g # h
  PROVE  req'[g] = req[g]
<1>1. CASE Starts(h)
  BY <1>1 DEF Starts, Escalate, Take, Dismiss, ReturnToBot, RemoveAgent, SendMessage, RetrySend, LockModule, Asks, AsksAbout
<1>2. CASE Gate(h) \/ ListReleased(h) \/ CountActive(h) \/ DisableInbox(h) \/ Dies(h)
  BY <1>2 DEF Gate, ListReleased, CountActive, DisableInbox, Dies, Goes, Ends
<1>3. CASE Transition(h)
  BY <1>3 DEF Transition, LockRow, CommitMode, Done, Ends
<1>4. CASE InsertMessage(h) \/ ClaimFailedMessage(h) \/ SendToWebhook(h) \/ UpdateMessageDelivery(h)
  BY <1>4 DEF InsertMessage, ClaimFailedMessage, SendToWebhook, UpdateMessageDelivery, Goes, Ends
<1> QED BY <1>1, <1>2, <1>3, <1>4 DEF Continue

LEMMA SweeperMoves ==
  ASSUME IInv, [Next]_vars
  PROVE  \/ req'[Sweeper] = req[Sweeper]
         \/ \E c \in Convs : Sweep(c)
         \/ Transition(Sweeper)
         \/ Dies(Sweeper)
<1>1. Sweeper \in Tasks /\ Handlers \subseteq Tasks /\ Sweeper \notin Handlers /\ req \in [Tasks -> Requests]
  BY NamesAssumption DEF Tasks, IInv, TypeOK
<1>2. ASSUME NEW h \in Handlers, Starts(h) \/ Continue(h) \/ Dies(h) PROVE req'[Sweeper] = req[Sweeper]
  BY <1>1, <1>2, OthersStay
<1>3. CASE EnableInbox \/ (\E c \in Convs : TimePasses(c)) \/ UNCHANGED vars
  BY <1>3 DEF EnableInbox, TimePasses, vars
<1> QED BY <1>2, <1>3 DEF Next

LEMMA StepSweepOk == IInv /\ SweepOk(req[Sweeper]) /\ [Next]_vars => SweepOk(req[Sweeper])'
<1> SUFFICES ASSUME IInv, SweepOk(req[Sweeper]), [Next]_vars PROVE SweepOk(req'[Sweeper])
  BY DEF SweepOk
<1>1. Sweeper \in Tasks /\ req \in [Tasks -> Requests]
  BY DEF Tasks, IInv, TypeOK
<1>2. ASSUME NEW c \in Convs, Sweep(c) PROVE SweepOk(req'[Sweeper])
  BY <1>1, <1>2 DEF Sweep, Asks, Idle, SweepOk
<1>3. CASE Dies(Sweeper)
  BY <1>1, <1>3 DEF Dies, Ends, SweepOk
<1>4. CASE Transition(Sweeper)
  <2>1. req[Sweeper].op = "sweep" /\ req[Sweeper].todo = {}
    BY <1>4, IdleIsOk DEF Transition, LockRow, CommitMode, SweepOk
  <2>2. CASE Done(Sweeper)
    BY <1>1, <2>1, <2>2 DEF Done, Ends, SweepOk
  <2>3. CASE ~Done(Sweeper)
    <3>1. req' = [req EXCEPT ![Sweeper].pc = "write", ![Sweeper].expected = {conv[req[Sweeper].conv].mode}]
      BY <1>4, <2>3 DEF Transition, LockRow, CommitMode
    <3>2. req[Sweeper] \in Requests
      BY <1>1
    <3> QED BY <1>1, <2>1, <3>1, <3>2 DEF Requests, SweepOk
  <2> QED BY <2>2, <2>3
<1> QED BY <1>2, <1>3, <1>4, SweeperMoves

LEMMA SweepStaysOk == Spec => []SweepOk(req[Sweeper])
<1>1. Init => SweepOk(req[Sweeper])
  BY DEF Init, SweepOk, Tasks
<1> QED BY <1>1, StepSweepOk, Invariance, PTL DEF Spec

-----------------------------------------------------------------------------
(* Fairness holds of every suffix, and at last the sweep does not fail any more. *)

LEMMA FairnessStays == (Works => []Works) /\ (Looks => []Looks)
<1>1. Works => []Works
  <2>1. ASSUME NEW h \in Handlers PROVE WorksOn(h) => []WorksOn(h)
    BY PTL DEF WorksOn
  <2>2. (\A h \in Handlers : WorksOn(h)) => \A h \in Handlers : []WorksOn(h)
    BY <2>1
  <2>3. (\A h \in Handlers : []WorksOn(h)) => [](\A h \in Handlers : WorksOn(h))
    OBVIOUS
  <2> QED BY <2>2, <2>3 DEF Works
<1>2. Looks => []Looks
  <2>1. ASSUME NEW c \in Convs PROVE LooksAt(c) /\ GrowsOld(c) => [](LooksAt(c) /\ GrowsOld(c))
    BY PTL DEF LooksAt, GrowsOld
  <2>2. (\A c \in Convs : LooksAt(c) /\ GrowsOld(c)) => \A c \in Convs : [](LooksAt(c) /\ GrowsOld(c))
    BY <2>1
  <2>3. (\A c \in Convs : [](LooksAt(c) /\ GrowsOld(c))) => [](\A c \in Convs : LooksAt(c) /\ GrowsOld(c))
    OBVIOUS
  <2> QED BY <2>2, <2>3 DEF Looks
<1> QED BY <1>1, <1>2

LEMMA SettledStays == Settled => []Settled
BY FairnessStays, PTL DEF Settled, NeverFails

LEMMA Settles == FairSpec /\ []StepsAreEnabled => <>Settled
<1>1. Fairness => Works /\ Looks /\ SF_vars(Transition(Sweeper)) /\ SweepSettles
  BY PTL DEF Fairness, Works, Looks, WorksOn, LooksAt, GrowsOld
<1> QED BY <1>1, FairnessStays, Invariance, SweepStaysOk, PTL DEF FairSpec, Spec, Settled, SweepSettles, NeverFails

-----------------------------------------------------------------------------
(* Every row is free time and again, and so is the sweep. *)

Holds(h, d) == req[h].pc = "write" /\ req[h].conv = d

LEMMA HolderSteps ==
  ASSUME IInv, [Next]_vars, NEW h \in Tasks, NEW d \in Convs, Holds(h, d)
  PROVE  Holds(h, d)' \/ RowFree(d)'
<1>1. \A g \in Tasks \ {h} : ~Holds(g, d)
  BY DEF IInv, Requesting, Apart, Holds
<1>2. CASE req'[h] = req[h]
  BY <1>2 DEF Holds
<1>3. CASE \A g \in Tasks \ {h} : req'[g] = req[g]
  BY <1>1, <1>3 DEF Holds, RowFree
<1>4. ASSUME NEW g, NEW t, Joins(g, t), Fit(t) PROVE req'[h] = req[h] \/ \A k \in Tasks \ {h} : req'[k] = req[k]
  BY <1>4, JoinsKeeps
<1>5. CASE ModuleStep
  BY <1>5, FitsNow DEF ModuleStep, Holds
<1> QED BY <1>2, <1>3, <1>4, <1>5, NextSteps DEF Steps, RequestStep, ModeStep, ReplyStep, Ok

LEMMA HolderCommits ==
  ASSUME IInv, NEW h \in Tasks, NEW d \in Convs, Holds(h, d), Continue(h) \/ Transition(h)
  PROVE  RowFree(d)'
<1>1. \A g \in Tasks \ {h} : ~Holds(g, d)
  BY DEF IInv, Requesting, Apart, Holds
<1>2. CommitMode(h)
  BY DEF Holds, Continue, Transition, Gate, LockRow, ListReleased, CountActive, DisableInbox, InsertMessage,
         ClaimFailedMessage, SendToWebhook, UpdateMessageDelivery
<1>3. PICK t : Joins(h, t) /\ Fit(t) /\ t.pc \in {"idle", "lock"}
  BY <1>2, DoneJoins DEF CommitMode
<1>4. req'[h].pc # "write" /\ \A g \in Tasks \ {h} : req'[g] = req[g]
  BY <1>3, JoinsKeeps
<1> QED BY <1>1, <1>4 DEF Holds, RowFree

\* The request that holds a row lets it go, by its commit or with its death.
LetsGo(h, d) == [](Holds(h, d) => <>RowFree(d))

LEMMA HandlerLetsGo == ASSUME NEW h \in Handlers, NEW d \in Convs PROVE Settled => LetsGo(h, d)
<1>1. h \in Tasks
  BY DEF Tasks
<1>2. IInv /\ Holds(h, d) /\ [Next]_vars => Holds(h, d)' \/ RowFree(d)'
  BY <1>1, HolderSteps
<1>3. IInv /\ Holds(h, d) /\ <<Continue(h)>>_vars => RowFree(d)'
  BY <1>1, HolderCommits
<1>4. StepsAreEnabled /\ Holds(h, d) => ENABLED <<Continue(h)>>_vars
  BY DEF StepsAreEnabled, Holds
<1>5. Works => WorksOn(h)
  BY DEF Works
<1> QED BY <1>2, <1>3, <1>4, <1>5, PTL DEF Settled, WorksOn, LetsGo

LEMMA SweeperLetsGo == ASSUME NEW d \in Convs PROVE Settled => LetsGo(Sweeper, d)
<1>1. Sweeper \in Tasks
  BY DEF Tasks
<1>2. IInv /\ Holds(Sweeper, d) /\ [Next]_vars => Holds(Sweeper, d)' \/ RowFree(d)'
  BY <1>1, HolderSteps
<1>3. IInv /\ Holds(Sweeper, d) /\ <<Transition(Sweeper)>>_vars => RowFree(d)'
  BY <1>1, HolderCommits
<1>4. StepsAreEnabled /\ Holds(Sweeper, d) => ENABLED <<Transition(Sweeper)>>_vars
  BY DEF StepsAreEnabled, Holds
<1> QED BY <1>2, <1>3, <1>4, PTL DEF Settled, LetsGo

LEMMA RowsAreFreed == ASSUME NEW d \in Convs PROVE Settled => []<>RowFree(d)
<1>1. RowFree(d) \/ Holds(Sweeper, d) \/ \E h \in Handlers : Holds(h, d)
  BY DEF RowFree, Holds, Tasks
<1>2. Settled => \A h \in Handlers : LetsGo(h, d)
  BY HandlerLetsGo
<1>3. (\A h \in Handlers : LetsGo(h, d)) => [](\A h \in Handlers : (Holds(h, d) => <>RowFree(d)))
  BY DEF LetsGo
<1>4. (\A h \in Handlers : (Holds(h, d) => <>RowFree(d))) => ((\E h \in Handlers : Holds(h, d)) => <>RowFree(d))
  OBVIOUS
<1> QED BY <1>1, <1>2, <1>3, <1>4, SweeperLetsGo, PTL DEF LetsGo

At(pc) == req[Sweeper].pc = pc
Free == req[Sweeper] = Idle

LEMMA SweeperAt ==
  ASSUME IInv, SweepOk(req[Sweeper])
  PROVE  /\ Free \/ At("lock") \/ At("write")
         /\ At("lock") \/ At("write") => req[Sweeper].conv \in Convs
         /\ ~Free => req[Sweeper].op = "sweep" /\ req[Sweeper].todo = {}
<1> Sweeper \in Tasks
  BY DEF Tasks
<1> QED BY FitsNow DEF SweepOk, At, Free, Fit

LEMMA SweeperSteps ==
  ASSUME IInv, SweepOk(req[Sweeper]), [Next]_vars
  PROVE  /\ At("lock") => \/ UNCHANGED req[Sweeper]
                          \/ Free'
                          \/ At("write")' /\ LockRow(Sweeper)
         /\ At("write") => UNCHANGED req[Sweeper] \/ Free'
<1> SUFFICES ASSUME At("lock") \/ At("write"), ~(UNCHANGED req[Sweeper]), ~Free'
             PROVE  At("lock") /\ At("write")' /\ LockRow(Sweeper)
  BY DEF At
<1>1. Sweeper \in Tasks /\ req \in [Tasks -> Requests]
  BY DEF Tasks, IInv, TypeOK
<1>2. ~Dies(Sweeper) /\ ~Ends(Sweeper)
  BY <1>1 DEF Dies, Ends, Free
<1>3. Idle.pc = "idle"
  BY IdleIsOk
<1>4. req[Sweeper] # Idle /\ req[Sweeper].todo = {}
  BY <1>3 DEF At, SweepOk
<1>5. \A c \in Convs : ~Sweep(c)
  BY <1>4 DEF Sweep
<1>6. ~Done(Sweeper)
  BY <1>2, <1>4 DEF Done
<1>7. LockRow(Sweeper) /\ Allowed(Sweeper)
  BY <1>2, <1>5, <1>6, SweeperMoves DEF Transition, LockRow, CommitMode
<1>8. req' = [req EXCEPT ![Sweeper].pc = "write", ![Sweeper].expected = {conv[req[Sweeper].conv].mode}]
  BY <1>6, <1>7 DEF LockRow
<1> QED BY <1>1, <1>7, <1>8 DEF At, LockRow

LEMMA SweeperTurns ==
  ASSUME IInv, SweepOk(req[Sweeper]), [Next]_vars, Transition(Sweeper)
  PROVE  /\ At("lock") => Free' \/ At("write")'
         /\ At("write") => Free'
<1>1. Sweeper \in Tasks /\ req \in [Tasks -> Requests] /\ Idle.pc = "idle"
  BY IdleIsOk DEF Tasks, IInv, TypeOK
<1>2. At("lock") \/ At("write")
  BY DEF Transition, LockRow, CommitMode, At
<1>3. req[Sweeper].todo = {}
  BY <1>1, <1>2 DEF SweepOk, At
<1>4. CASE Done(Sweeper)
  BY <1>1, <1>3, <1>4 DEF Done, Ends, Free
<1>5. CASE ~Done(Sweeper)
  <2>1. At("lock") /\ req' = [req EXCEPT ![Sweeper].pc = "write", ![Sweeper].expected = {conv[req[Sweeper].conv].mode}]
    BY <1>5 DEF Transition, LockRow, CommitMode, At
  <2> QED BY <1>1, <2>1 DEF At
<1> QED BY <1>4, <1>5

LEMMA SweeperCommits == Settled => [](At("write") => <>Free)
<1>1. IInv /\ SweepOk(req[Sweeper]) /\ [Next]_vars /\ At("write") => At("write")' \/ Free'
  BY SweeperSteps DEF At
<1>2. IInv /\ SweepOk(req[Sweeper]) /\ <<Next /\ Transition(Sweeper)>>_vars /\ At("write") => Free'
  BY SweeperTurns
<1>3. StepsAreEnabled /\ At("write") => ENABLED <<Transition(Sweeper)>>_vars
  BY PTL DEF StepsAreEnabled, At
<1> QED BY <1>1, <1>2, <1>3, PTL DEF Settled

LEMMA SweeperGetsTheRow ==
  ASSUME NEW d \in Convs
  PROVE  Settled => [](At("lock") /\ req[Sweeper].conv = d => <>~At("lock"))
<1> DEFINE Waits == At("lock") /\ req[Sweeper].conv = d
<1>1. IInv /\ SweepOk(req[Sweeper]) /\ [Next]_vars /\ Waits => Waits' \/ ~At("lock")'
  BY SweeperSteps, IdleIsOk DEF At, Free
<1>2. IInv /\ SweepOk(req[Sweeper]) /\ <<Next /\ Transition(Sweeper)>>_vars /\ Waits => ~At("lock")'
  BY SweeperTurns, IdleIsOk DEF At, Free
<1>3. StepsAreEnabled /\ Waits /\ RowFree(d) => ENABLED <<Transition(Sweeper)>>_vars
  BY DEF StepsAreEnabled, At
<1> HIDE DEF Waits
<1>4. Settled => [](Waits => <>~At("lock"))
  BY <1>1, <1>2, <1>3, RowsAreFreed, PTL DEF Settled
<1> QED BY <1>4 DEF Waits

LEMMA SweeperComesBack == Settled => []<>Free
<1>1. Settled => \A d \in Convs : [](At("lock") /\ req[Sweeper].conv = d => <>~At("lock"))
  BY SweeperGetsTheRow
<1>2. (\A d \in Convs : [](At("lock") /\ req[Sweeper].conv = d => <>~At("lock")))
        => [](\A d \in Convs : (At("lock") /\ req[Sweeper].conv = d => <>~At("lock")))
  OBVIOUS
<1>3. (\A d \in Convs : (At("lock") /\ req[Sweeper].conv = d => <>~At("lock")))
        => ((\E d \in Convs : At("lock") /\ req[Sweeper].conv = d) => <>~At("lock"))
  OBVIOUS
<1>4. IInv /\ SweepOk(req[Sweeper]) /\ At("lock") => \E d \in Convs : At("lock") /\ req[Sweeper].conv = d
  BY SweeperAt
<1>5. IInv /\ SweepOk(req[Sweeper]) => Free \/ At("lock") \/ At("write")
  BY SweeperAt
<1> QED BY <1>1, <1>2, <1>3, <1>4, <1>5, SweeperCommits, PTL DEF Settled

-----------------------------------------------------------------------------
(* A conversation that stays stale is returned: the sweep sees it, gets its row and commits. *)

Stays(c, m) == [](conv[c].mode = m)
\* The sweep has c at the step.
Has(c, m, pc) ==
  LET t == req[Sweeper] IN t.op = "sweep" /\ t.pc = pc /\ t.conv = c /\ t.todo = {} /\ (pc = "lock" => t.expected = {m})

LEMMA SweepHas ==
  ASSUME IInv, NEW c \in Convs, NEW m, conv[c].mode = m, Sweep(c)
  PROVE  Has(c, m, "lock")'
<1> Sweeper \in Tasks /\ req \in [Tasks -> Requests]
  BY DEF Tasks, IInv, TypeOK
<1> QED BY DEF Sweep, Asks, Idle, Has

LEMMA HeldSteps ==
  ASSUME IInv, SweepOk(req[Sweeper]), [Next]_vars, [Dies(Sweeper) => LockRow(Sweeper)]_vars,
         NEW c \in Convs, NEW m \in {"pending", "human"}, conv[c].mode = m, conv'[c].mode = m
  PROVE  /\ Has(c, m, "lock") => Has(c, m, "lock")' \/ Has(c, m, "write")'
         /\ Has(c, m, "write") => Has(c, m, "write")'
<1>1. Sweeper \in Tasks /\ req \in [Tasks -> Requests] /\ req[Sweeper] \in Requests /\ Idle.pc = "idle"
  BY IdleIsOk DEF Tasks, IInv, TypeOK
<1> SUFFICES ASSUME req'[Sweeper] # req[Sweeper], NEW pc \in {"lock", "write"}, Has(c, m, pc)
             PROVE  pc = "lock" /\ Has(c, m, "write")'
  BY <1>1 DEF Has
<1>2. req[Sweeper] # Idle
  BY <1>1 DEF Has
<1>3. Transition(Sweeper) \/ Dies(Sweeper)
  BY <1>2, SweeperMoves DEF Sweep
<1>4. LockRow(Sweeper) \/ CommitMode(Sweeper)
  BY <1>3 DEF Transition, vars
<1>5. ~CommitMode(Sweeper)
  <2> SUFFICES ASSUME CommitMode(Sweeper) PROVE FALSE
    OBVIOUS
  <2>1. req[Sweeper].conv = c /\ ToMode[req[Sweeper].op] = "bot"
    BY DEF Has, ToMode
  <2> QED BY <2>1 DEF CommitMode, IInv, TypeOK
<1>6. Allowed(Sweeper) /\ pc = "lock"
  <2>1. LockRow(Sweeper) /\ pc = "lock"
    BY <1>4, <1>5 DEF LockRow, Has
  <2>2. <<m, "bot", "platform_rule">> \in LegalTransitions
    BY DEF LegalTransitions
  <2>3. conv[c].mode \in req[Sweeper].expected /\ req[Sweeper].conv = c /\ req[Sweeper].op = "sweep"
    BY <2>1 DEF Has
  <2> QED BY <2>1, <2>2, <2>3 DEF Allowed, ToMode, Source
<1>7. req' = [req EXCEPT ![Sweeper].pc = "write", ![Sweeper].expected = {conv[req[Sweeper].conv].mode}]
  BY <1>4, <1>5, <1>6 DEF LockRow
<1> QED BY <1>1, <1>6, <1>7 DEF Has, Requests

LEMMA StaleIsReturned ==
  ASSUME NEW c \in Convs, NEW m \in {"pending", "human"}
  PROVE  Settled /\ Stays(c, m) => ~[]Stale(c)
<1>1. IInv /\ SweepOk(req[Sweeper]) /\ [Next]_vars /\ [Dies(Sweeper) => LockRow(Sweeper)]_vars
      /\ conv[c].mode = m /\ (conv[c].mode = m)'
        => /\ Has(c, m, "lock") => Has(c, m, "lock")' \/ Has(c, m, "write")'
           /\ Has(c, m, "write") => Has(c, m, "write")'
  BY HeldSteps
<1>2. IInv /\ conv[c].mode = m /\ <<Sweep(c)>>_vars => Has(c, m, "lock")'
  BY SweepHas
<1>3. StepsAreEnabled /\ Free /\ Stale(c) => ENABLED <<Sweep(c)>>_vars
  BY DEF StepsAreEnabled, Free
<1>4. Looks => LooksAt(c)
  BY DEF Looks
<1>5. (Has(c, m, "lock") => ~Free) /\ (Has(c, m, "write") => ~Free)
  BY IdleIsOk DEF Has, Free
<1> QED BY <1>1, <1>2, <1>3, <1>4, <1>5, SweeperComesBack, SettledStays, PTL DEF Settled, LooksAt, Stays, NeverFails

-----------------------------------------------------------------------------
(* A conversation that keeps its mode grows stale. *)

Quiet(c) == aged[c].change /\ aged[c].reply # "recent"
Unsent == {n \in Messages : msgs[n].status = "none"}

LEMMA AgedSteps ==
  ASSUME IInv, [Next]_vars, NEW c \in Convs, conv'[c].mode = conv[c].mode
  PROVE  /\ aged[c].change => aged'[c].change
         /\ Unsent' = Unsent /\ aged[c].reply # "recent" => aged'[c].reply # "recent"
<1> USE DEF IInv, TypeOK
<1>1. CASE UNCHANGED aged
  BY <1>1
<1>2. ASSUME NEW h \in Tasks, CommitMode(h) PROVE req[h].conv # c /\ aged'[c] = aged[c]
  <2>1. /\ req[h].pc = "write" /\ Ok(req[h]) /\ req[h].conv \in Convs /\ req[h].op \in DOMAIN ToMode
        /\ <<conv[req[h].conv].mode, ToMode[req[h].op], Source[req[h].op]>> \in LegalTransitions
    BY <1>2, FitsNow DEF CommitMode, Ok, Fit
  <2>2. conv[req[h].conv].mode # ToMode[req[h].op]
    BY <2>1 DEF LegalTransitions
  <2>3. conv'[req[h].conv].mode = ToMode[req[h].op]
    BY <1>2, <2>1 DEF CommitMode
  <2> QED BY <1>2, <2>2, <2>3 DEF CommitMode
<1>3. ASSUME NEW h \in Tasks, InsertMessage(h)
      PROVE  aged'[c].change = aged[c].change /\ Unsent' # Unsent
  <2>1. /\ req[h].msg \in Messages /\ msgs[req[h].msg].status = "none" /\ req[h].pc = "insert"
    BY <1>3, FitsNow DEF InsertMessage, Ok, Fit
  <2>2. msgs'[req[h].msg].status = "sending"
    BY <1>3, <2>1 DEF InsertMessage
  <2>3. aged' = [aged EXCEPT ![req[h].conv].reply = "recent"]
    BY <1>3 DEF InsertMessage
  <2> QED BY <2>1, <2>2, <2>3 DEF Unsent
<1>4. ASSUME NEW d \in Convs, TimePasses(d)
      PROVE  (aged[c].change => aged'[c].change) /\ (aged[c].reply # "recent" => aged'[c].reply # "recent")
  <2>1. PICK p \in {"never", "old"} : aged' = [aged EXCEPT ![d] = [change |-> TRUE, reply |-> p]]
    BY <1>4 DEF TimePasses
  <2> QED BY <2>1
<1>5. ASSUME NEW h \in Handlers, Starts(h) \/ Dies(h) PROVE UNCHANGED aged
  BY <1>5 DEF Starts, Escalate, Take, Dismiss, ReturnToBot, RemoveAgent, SendMessage, RetrySend, LockModule, Dies, Untouched
<1>6. ASSUME NEW h \in Handlers, Continue(h) PROVE UNCHANGED aged \/ CommitMode(h) \/ InsertMessage(h)
  BY <1>6 DEF Continue, Transition, Gate, LockRow, ListReleased, CountActive, DisableInbox, ClaimFailedMessage,
              SendToWebhook, UpdateMessageDelivery, Untouched
<1>7. CASE EnableInbox \/ (\E d \in Convs : Sweep(d)) \/ LockRow(Sweeper) \/ Dies(Sweeper) \/ UNCHANGED vars
  BY <1>7 DEF EnableInbox, Sweep, LockRow, Dies, Untouched, vars
<1>8. Sweeper \in Tasks /\ Handlers \subseteq Tasks
  BY DEF Tasks
<1> QED BY <1>1, <1>2, <1>3, <1>4, <1>5, <1>6, <1>7, <1>8 DEF Next, Transition

LEMMA UnsentSteps ==
  ASSUME IInv, [Next]_vars
  PROVE  Unsent' \subseteq Unsent
<1> SUFFICES ASSUME NEW m \in Messages, msgs'[m].status = "none" PROVE msgs[m].status = "none"
  BY DEF Unsent
<1>1. CASE UNCHANGED msgs
  BY <1>1
<1>2. ASSUME NEW h, NEW t, NEW s, ReplyStep(h, t, s) PROVE msgs[m].status = "none"
  <2>1. s # "none" /\ \E d \in Convs : msgs' = [msgs EXCEPT ![req[h].msg] = [status |-> s, conv |-> d]]
    BY <1>2 DEF ReplyStep
  <2> QED BY <2>1 DEF IInv, TypeOK
<1> QED BY <1>1, <1>2, NextSteps DEF Steps, RequestStep, ModeStep, ModuleStep

\* Time goes by over a conversation that is not quiet.
LEMMA TimeGoesBy == ASSUME NEW c \in Convs PROVE Settled => []<>Quiet(c)
<1>1. IInv /\ <<TimePasses(c)>>_vars => Quiet(c)'
  <2> SUFFICES ASSUME IInv, TimePasses(c) PROVE Quiet(c)'
    OBVIOUS
  <2>1. PICK p \in {"never", "old"} : aged' = [aged EXCEPT ![c] = [change |-> TRUE, reply |-> p]]
    BY DEF TimePasses
  <2> QED BY <2>1 DEF Quiet, IInv, TypeOK
<1>2. StepsAreEnabled /\ ~Quiet(c) => ENABLED <<TimePasses(c)>>_vars
  BY DEF StepsAreEnabled, Quiet
<1>3. Looks => GrowsOld(c)
  BY DEF Looks
<1> QED BY <1>1, <1>2, <1>3, PTL DEF Settled, GrowsOld

LEMMA PendingIsEnded == ASSUME NEW c \in Convs PROVE Settled => ~Stays(c, "pending")
<1>1. IInv /\ [Next]_vars /\ conv[c].mode = "pending" /\ (conv[c].mode = "pending")' => (aged[c].change => aged[c].change')
  BY AgedSteps
<1>2. conv[c].mode = "pending" /\ aged[c].change => Stale(c)
  BY DEF Stale
<1>3. Settled /\ Stays(c, "pending") => ~[]Stale(c)
  BY StaleIsReturned
<1>4. Quiet(c) => aged[c].change
  BY DEF Quiet
<1> QED BY <1>1, <1>2, <1>3, <1>4, TimeGoesBy, SettledStays, PTL DEF Settled, Stays

\* Once nobody replies any more.
LEMMA SilenceIsEnded == ASSUME NEW c \in Convs, NEW U PROVE Settled /\ Stays(c, "human") => ~[](Unsent = U)
<1>1. IInv /\ [Next]_vars /\ conv[c].mode = "human" /\ (conv[c].mode = "human")' /\ Unsent = U /\ (Unsent = U)'
        => (Quiet(c) => Quiet(c)')
  BY AgedSteps DEF Quiet
<1>2. IInv /\ conv[c].mode = "human" /\ Quiet(c) => Stale(c)
  BY DEF Stale, Quiet, IInv, TypeOK
<1>3. Settled /\ Stays(c, "human") => ~[]Stale(c)
  BY StaleIsReturned
<1> QED BY <1>1, <1>2, <1>3, TimeGoesBy, SettledStays, PTL DEF Settled, Stays

-----------------------------------------------------------------------------
(* Of finitely many replies each is sent once: induction over those still unsent. *)

LEMMA FiniteInduction ==
  ASSUME NEW S, IsFiniteSet(S), NEW g,
         \A U \in SUBSET S : (\A x \in U : g[U \ {x}]) => g[U]
  PROVE  \A U \in SUBSET S : g[U]
<1> SUFFICES ASSUME NEW V \in SUBSET S, ~g[V] PROVE FALSE
  OBVIOUS
<1>1. PICK T : T = {U \in SUBSET S : ~g[U]}
  OBVIOUS
<1>2. IsWellFoundedOn(StrictSubsetOrdering(S), SUBSET S)
  BY FS_StrictSubsetOrderingWellFounded, FS_FiniteSubsetsOfFinite
<1>3. PICK U \in T : \A W \in T : ~(<<W, U>> \in StrictSubsetOrdering(S))
  <2>1. V \in T /\ T \subseteq SUBSET S /\ T # {}
    BY <1>1
  <2> QED BY <1>2, <2>1, WFMin
<1>4. PICK x \in U : ~g[U \ {x}]
  BY <1>1, <1>3
<1>5. U \ {x} \in T /\ U \in SUBSET S
  BY <1>1, <1>3, <1>4
<1>6. <<U \ {x}, U>> \in StrictSubsetOrdering(S)
  BY <1>5, <1>4 DEF StrictSubsetOrdering
<1> QED BY <1>3, <1>5, <1>6

Lasts(c, U) == Settled /\ Stays(c, "human") /\ [](Unsent \subseteq U)
Never(c, U) == []~Lasts(c, U)
Outcomes(c) == [U \in SUBSET Messages |-> Never(c, U)]
Given(t) == t \/ TRUE

LEMMA HumanIsEnded ==
  ASSUME IsFiniteSet(Messages), NEW c \in Convs
  PROVE  Settled => ~Stays(c, "human")
<1>1. ASSUME NEW U \in SUBSET Messages PROVE (\A x \in U : Never(c, U \ {x})) => Never(c, U)
  <2>1. (\A x \in U : Never(c, U \ {x})) => [](\A x \in U : ~Lasts(c, U \ {x}))
    BY DEF Never
  <2>2. ASSUME NEW x \in U PROVE ~Lasts(c, U \ {x}) => (Settled /\ Stays(c, "human") => ~(Unsent \subseteq U \ {x}))
    <3>1. IInv /\ [Next]_vars /\ Unsent \subseteq U \ {x} => (Unsent \subseteq U \ {x})'
      BY UnsentSteps
    <3> QED BY <3>1, PTL DEF Lasts, Settled
  <2>3. (\A x \in U : ~Lasts(c, U \ {x})) => (Settled /\ Stays(c, "human") => \A x \in U : ~(Unsent \subseteq U \ {x}))
    BY <2>2
  <2>4. Unsent \subseteq U /\ (\A x \in U : ~(Unsent \subseteq U \ {x})) => Unsent = U
    OBVIOUS
  <2>5. Settled /\ Stays(c, "human") => ~[](Unsent = U)
    BY SilenceIsEnded
  <2> QED BY <2>1, <2>3, <2>4, <2>5, SettledStays, PTL DEF Never, Lasts, Stays
<1>2. PICK g : \A U \in SUBSET Messages : g[U] <=> Never(c, U)
  <2>1. Given(Outcomes(c))
    BY DEF Given
  <2> QED BY <2>1, SMTT(20) DEF Outcomes
<1>3. \A U \in SUBSET Messages : g[U]
  <2>1. \A U \in SUBSET Messages : (\A x \in U : g[U \ {x}]) => g[U]
    BY <1>1, <1>2
  <2> QED BY <2>1, FiniteInduction
<1>4. Never(c, Messages)
  BY <1>2, <1>3
<1>5. Unsent \subseteq Messages
  BY DEF Unsent
<1> QED BY <1>4, <1>5, PTL DEF Never, Lasts

-----------------------------------------------------------------------------
(* A conversation that waits for a person does not wait for ever: where nobody takes *)
(* or dismisses it, auto_return_minutes go by and the sweep returns it to the bot.   *)
THEOREM EscalationsEnd == FairSpec /\ []StepsAreEnabled => EscalationEnds
<1>1. ASSUME NEW c \in Convs PROVE FairSpec /\ []StepsAreEnabled => (conv[c].mode = "pending" ~> conv[c].mode # "pending")
  <2>1. conv[c].mode = "pending" \/ conv[c].mode # "pending"
    OBVIOUS
  <2> QED BY <2>1, PendingIsEnded, Settles, SettledStays, PTL DEF Stays
<1> QED BY <1>1 DEF EscalationEnds

(* Whoever lost access, their conversations are not theirs for ever: finitely many  *)
(* replies keep the sweep off only so long.                                         *)
THEOREM StrandedAreReturned ==
  ASSUME IsFiniteSet(Messages)
  PROVE  FairSpec /\ []StepsAreEnabled => StrandedIsReturned
<1>1. ASSUME NEW c \in Convs PROVE FairSpec /\ []StepsAreEnabled => (Stranded(c) ~> ~Stranded(c))
  <2>1. Stranded(c) => conv[c].mode = "human"
    BY DEF Stranded
  <2> QED BY <2>1, HumanIsEnded, Settles, SettledStays, PTL DEF Stays
<1> QED BY <1>1 DEF StrandedIsReturned
=============================================================================
