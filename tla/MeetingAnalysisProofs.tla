------------------------ MODULE MeetingAnalysisProofs ------------------------
(***************************************************************************)
(* Theorems about MeetingAnalysis for every set of documents and requests. *)
(*                                                                         *)
(* RowOk ties the calls that were paid to the row: none under a free row,  *)
(* one once the holder's call is answered and one for a finished document. *)
(* RequestOk says what a request has left behind it at each step.          *)
(***************************************************************************)
EXTENDS MeetingAnalysis, TLAPS, FiniteSetTheorems, WellFoundedInduction

RowOk(d) ==
  /\ rows[d].by # Nobody => rows[d].status = "pending"
  /\ rows[d].status \in {"none", "failed"} => paid[d] = 0
  /\ rows[d].status = "pending" /\ ~rows[d].fresh => paid[d] = 0
  /\ paid[d] \in {0, 1}
  /\ \A h \in Handlers : rows[d].by = h => /\ req[h].doc = d /\ req[h].pc \in {"call", "answered"}
                                           /\ req[h].pc = "call" => paid[d] = 0

RequestOk(h) ==
  /\ req[h].pc # "idle" => req[h].doc \in Documents
  /\ req[h].pc = "activate" => /\ req[h].doc[2] = Summary
                               /\ rows[req[h].doc].status = "ready" \/ meeting = Gone

MeetingOk == meeting.state = "gone" => meeting = Gone /\ \A d \in Documents : rows[d] = NoRow

IInv ==
  /\ ColumnsOk
  /\ \A d \in Documents : RowOk(d)
  /\ \A h \in Handlers : RequestOk(h)
  /\ MeetingOk

Ready == {d \in Documents : rows[d].status = "ready"}

-----------------------------------------------------------------------------
LEMMA RecordsFit ==
  /\ Idle.pc = "idle" /\ Idle \in [pc : {"idle", "reserve", "call", "answered", "activate"}, doc : Documented]
  /\ NoRow.by = Nobody /\ NoRow.status = "none"
  /\ NoRow \in [status : {"none", "pending", "ready", "failed"}, by : Handlers \cup {Nobody}, fresh : BOOLEAN]
  /\ Gone.state = "gone" /\ Gone.transcript = NoTranscript
  /\ Gone \in [state : {"live", "deleting", "gone"}, transcript : Transcripts \cup {NoTranscript}, active : Documented]
BY DEF Idle, NoRow, Gone, Documented

LEMMA InitHolds == Init => IInv /\ Catalogue!CatalogueInit
<1> SUFFICES ASSUME Init PROVE IInv /\ Catalogue!CatalogueInit
  OBVIOUS
<1>1. ColumnsOk
  BY RecordsFit DEF Init, ColumnsOk, Documented
<1>2. \A d \in Documents : RowOk(d)
  BY RecordsFit, NamesAssumption DEF Init, RowOk
<1>3. (\A h \in Handlers : RequestOk(h)) /\ MeetingOk
  BY RecordsFit DEF Init, RequestOk, MeetingOk
<1>4. Catalogue!CatalogueInit
  BY RecordsFit DEF Init, Catalogue!CatalogueInit
<1> QED BY <1>1, <1>2, <1>3, <1>4 DEF IInv

-----------------------------------------------------------------------------
(* A step of a request that writes at most the row of its document. *)
Writes(h, d, r, n, pc) ==
  /\ h \in Handlers /\ d \in Documents /\ req[h].doc = d /\ req[h].pc # "idle"
  /\ meeting' = meeting
  /\ rows' = [rows EXCEPT ![d] = r] /\ paid' = [paid EXCEPT ![d] = n]
  /\ \/ pc = "idle" /\ Ends(h)
     \/ pc \in {"call", "answered", "activate"} /\ Goes(h, pc)

LEMMA WritesKeeps ==
  ASSUME IInv, NEW h, NEW d, NEW r, NEW n, NEW pc, Writes(h, d, r, n, pc),
         r \in [status : {"none", "pending", "ready", "failed"}, by : Handlers \cup {Nobody}, fresh : BOOLEAN],
         r = rows[d] \/ meeting # Gone,
         rows[d].status = "ready" => r.status = "ready",
         r.by # Nobody => r.status = "pending",
         r.status \in {"none", "failed"} => n = 0,
         r.status = "pending" /\ ~r.fresh => n = 0,
         n \in {0, 1},
         \A g \in Handlers : r.by = g => IF g = h THEN pc = "answered" \/ (pc = "call" /\ n = 0)
                                         ELSE rows[d].by = g /\ n = paid[d],
         pc = "activate" => d[2] = Summary /\ r.status = "ready",
         \A e \in Documents \ {d} : rows[e].by # h
  PROVE  IInv'
<1>1. /\ h \in Handlers /\ d \in Documents /\ req[h].doc = d /\ meeting' = meeting /\ ColumnsOk
      /\ rows' = [rows EXCEPT ![d] = r] /\ paid' = [paid EXCEPT ![d] = n]
  BY DEF Writes, IInv
<1>2. /\ rows'[d] = r /\ paid'[d] = n
      /\ \A e \in Documents \ {d} : rows'[e] = rows[e] /\ paid'[e] = paid[e]
  BY <1>1 DEF ColumnsOk
<1>3. /\ req'[h].pc = pc /\ (pc # "idle" => req'[h].doc = d)
      /\ \A g \in Handlers \ {h} : req'[g] = req[g]
      /\ req' \in [Handlers -> [pc : {"idle", "reserve", "call", "answered", "activate"}, doc : Documented]]
  <2>1. req \in [Handlers -> [pc : {"idle", "reserve", "call", "answered", "activate"}, doc : Documented]]
    BY <1>1 DEF ColumnsOk
  <2>2. CASE pc = "idle" /\ Ends(h)
    BY <1>1, <2>1, <2>2, RecordsFit DEF Ends
  <2>3. CASE pc \in {"call", "answered", "activate"} /\ Goes(h, pc)
    BY <1>1, <2>1, <2>3 DEF Goes
  <2> QED BY <2>2, <2>3 DEF Writes
<1>4. ColumnsOk'
  BY <1>1, <1>3 DEF ColumnsOk
<1>5. ASSUME NEW e \in Documents PROVE RowOk(e)'
  <2>1. CASE e = d
    <3>1. ASSUME NEW g \in Handlers, r.by = g
          PROVE  req'[g].doc = d /\ req'[g].pc \in {"call", "answered"} /\ (req'[g].pc = "call" => n = 0)
      BY <1>1, <1>3, <3>1 DEF IInv, RowOk
    <3> QED BY <1>2, <2>1, <3>1 DEF RowOk
  <2>2. CASE e # d
    <3>1. RowOk(e) /\ rows[e].by # h
      BY <2>2 DEF IInv
    <3> QED BY <1>2, <1>3, <2>2, <3>1 DEF RowOk
  <2> QED BY <2>1, <2>2
<1>6. ASSUME NEW g \in Handlers PROVE RequestOk(g)'
  <2>1. \A e \in Documents : rows[e].status = "ready" => rows'[e].status = "ready"
    BY <1>2
  <2> QED BY <1>1, <1>2, <1>3, <2>1 DEF IInv, RequestOk
<1>7. MeetingOk'
  BY <1>1, <1>2, RecordsFit DEF IInv, MeetingOk
<1> QED BY <1>4, <1>5, <1>6, <1>7 DEF IInv

-----------------------------------------------------------------------------
(* The actions. *)

LEMMA Now ==
  ASSUME IInv, NEW h \in Handlers
  PROVE  /\ req[h] \in [pc : {"idle", "reserve", "call", "answered", "activate"}, doc : Documented]
         /\ RequestOk(h)
         /\ \A d \in Documents : /\ RowOk(d) /\ (rows[d].by = h => d = req[h].doc)
                                 /\ rows[d] \in [status : {"none", "pending", "ready", "failed"},
                                                 by : Handlers \cup {Nobody}, fresh : BOOLEAN]
BY DEF IInv, ColumnsOk, RowOk

LEMMA Closed == ASSUME NEW s \in {"ready", "failed"}
                PROVE  LET r == [status |-> s, by |-> Nobody, fresh |-> FALSE]
                       IN  /\ r.status = s /\ r.by = Nobody
                           /\ r \in [status : {"none", "pending", "ready", "failed"}, by : Handlers \cup {Nobody}, fresh : BOOLEAN]
OBVIOUS

LEMMA OneRowKeeps ==
  ASSUME IInv, NEW h \in Handlers,
         (\E d \in Documents : Reserve(h, d)) \/ CallModel(h) \/ FailReservation(h) \/ Complete(h) \/ NotOwned(h)
  PROVE  IInv'
<1> DEFINE d == req[h].doc
           Others == \A e \in Documents \ {d} : rows[e].by # h
<1>1. Others
  BY Now
<1>2. CASE \E e \in Documents : Reserve(h, e)
  <2> DEFINE r == [status |-> "pending", by |-> h, fresh |-> TRUE]
  <2>0. meeting # Gone /\ Free(d) /\ d \in Documents
    BY <1>2 DEF Reserve
  <2>1. Writes(h, d, r, 0, "call")
    <3>1. paid[d] = 0 /\ paid' = paid
      BY <1>2, <2>0 DEF Reserve, Free, IInv, RowOk
    <3>2. paid' = [paid EXCEPT ![d] = 0]
      BY <2>0, <3>1 DEF IInv, ColumnsOk
    <3> QED BY <1>2, <2>0, <3>2 DEF Reserve, Writes
  <2>2. /\ r.status = "pending" /\ r.by = h /\ r.fresh /\ rows[d].status # "ready" /\ d \in Documents
        /\ r \in [status : {"none", "pending", "ready", "failed"}, by : Handlers \cup {Nobody}, fresh : BOOLEAN]
    BY <2>0 DEF Free
  <2> HIDE DEF r, d
  <2>3. \A g \in Handlers : r.by = g => g = h
    BY <2>2
  <2> QED BY <1>1, <2>0, <2>1, <2>2, <2>3, WritesKeeps
<1>3. CASE CallModel(h)
  <2> DEFINE n == IF Holds(h, d) /\ rows[d].fresh THEN paid[d] + 1 ELSE paid[d]
  <2>1. d \in Documents /\ RowOk(d) /\ req[h].pc = "call"
    BY <1>3, Now DEF CallModel, RequestOk
  <2>2. rows' = [rows EXCEPT ![d] = rows[d]] /\ paid' = [paid EXCEPT ![d] = n]
    BY <1>3, <2>1 DEF CallModel, IInv, ColumnsOk
  <2>3. n \in {0, 1} /\ (rows[d].by # h => n = paid[d])
    BY <2>1, NamesAssumption DEF RowOk, Holds
  <2>4. Writes(h, d, rows[d], n, "answered")
    BY <1>3, <2>1, <2>2 DEF CallModel, Writes
  <2>5. /\ rows[d].by # Nobody => rows[d].status = "pending"
        /\ rows[d].status \in {"none", "failed"} => n = 0
        /\ rows[d].status = "pending" /\ ~rows[d].fresh => n = 0
    BY <2>1 DEF RowOk, Holds
  <2>6. rows[d] \in [status : {"none", "pending", "ready", "failed"}, by : Handlers \cup {Nobody}, fresh : BOOLEAN]
    BY <2>1, Now
  <2> HIDE DEF d, n
  <2> QED BY <1>1, <2>3, <2>4, <2>5, <2>6, WritesKeeps
<1>4. CASE FailReservation(h) /\ Holds(h, d)
  <2> DEFINE r == [status |-> "failed", by |-> Nobody, fresh |-> FALSE]
  <2>1. d \in Documents
    BY <1>4, Now DEF FailReservation, RequestOk
  <2>2. Writes(h, d, r, 0, "idle")
    BY <1>4, <2>1 DEF FailReservation, Writes
  <2>3. meeting # Gone /\ rows[d].status # "ready"
    BY <1>4, <2>1, RecordsFit DEF Holds, IInv, MeetingOk
  <2>4. r.status = "failed" /\ r.by = Nobody
    OBVIOUS
  <2>5. r \in [status : {"none", "pending", "ready", "failed"}, by : Handlers \cup {Nobody}, fresh : BOOLEAN]
    BY Closed
  <2> HIDE DEF r, d
  <2> QED BY <1>1, <2>2, <2>3, <2>4, <2>5, WritesKeeps, NamesAssumption
<1>5. CASE Complete(h) /\ Holds(h, d)
  <2> DEFINE r == [status |-> "ready", by |-> Nobody, fresh |-> FALSE]
             pc == IF d[2] = Summary THEN "activate" ELSE "idle"
  <2>1. d \in Documents /\ req[h].pc = "answered"
    BY <1>5, Now DEF Complete, RequestOk
  <2> DEFINE n == paid[d]
  <2>2. n \in {0, 1}
    BY <1>5, <2>1 DEF RowOk, IInv
  <2>3. Writes(h, d, r, n, pc)
    <3>1. paid' = [paid EXCEPT ![d] = n]
      BY <1>5, <2>1, <2>2 DEF Complete, IInv, ColumnsOk
    <3> QED BY <1>5, <2>1, <3>1 DEF Complete, Writes
  <2>4. meeting # Gone
    BY <1>5, <2>1, RecordsFit DEF Holds, IInv, MeetingOk
  <2>5. r.status = "ready" /\ r.by = Nobody /\ (pc = "activate" => d[2] = Summary)
    OBVIOUS
  <2>6. r \in [status : {"none", "pending", "ready", "failed"}, by : Handlers \cup {Nobody}, fresh : BOOLEAN]
    BY Closed
  <2> HIDE DEF r, d, pc, n
  <2> QED BY <1>1, <2>2, <2>3, <2>4, <2>5, <2>6, WritesKeeps, NamesAssumption
<1>6. CASE (FailReservation(h) \/ Complete(h) \/ NotOwned(h)) /\ ~Holds(h, d)
  <2>1. Ends(h) /\ UNCHANGED <<meeting, rows, paid>> /\ d \in Documents /\ req[h].pc # "idle"
    BY <1>6, Now DEF FailReservation, Complete, NotOwned, RequestOk
  <2>2. Writes(h, d, rows[d], paid[d], "idle")
    BY <2>1 DEF Writes, IInv, ColumnsOk
  <2>3. RowOk(d) /\ rows[d] \in [status : {"none", "pending", "ready", "failed"}, by : Handlers \cup {Nobody}, fresh : BOOLEAN]
    BY <2>1, Now
  <2>4. rows[d].by # h
    BY <1>6, <2>3, NamesAssumption DEF RowOk, Holds
  <2> HIDE DEF d
  <2> QED BY <1>1, <2>2, <2>3, <2>4, WritesKeeps DEF RowOk
<1>7. CASE NotOwned(h) /\ Holds(h, d)
  <2>1. d \in Documents /\ req[h].pc = "reserve"
    BY <1>7, Now DEF NotOwned, RequestOk
  <2> QED BY <1>7, <2>1, Now DEF Holds, RowOk
<1> QED BY <1>2, <1>3, <1>4, <1>5, <1>6, <1>7

LEMMA AskKeeps == ASSUME IInv, NEW h \in Handlers, NEW d \in Documents, Ask(h, d) PROVE IInv'
<1>1. /\ req'[h].pc = "reserve" /\ req'[h].doc = d /\ req[h].pc = "idle"
      /\ \A g \in Handlers \ {h} : req'[g] = req[g]
      /\ req' \in [Handlers -> [pc : {"idle", "reserve", "call", "answered", "activate"}, doc : Documented]]
  BY RecordsFit DEF Ask, Idle, IInv, ColumnsOk, Documented
<1>2. ASSUME NEW e \in Documents PROVE RowOk(e)'
  BY <1>1, Now DEF Ask, RowOk
<1>3. ASSUME NEW g \in Handlers PROVE RequestOk(g)'
  BY <1>1 DEF Ask, RequestOk, IInv
<1> QED BY <1>1, <1>2, <1>3 DEF Ask, IInv, ColumnsOk, MeetingOk

LEMMA ActivateKeeps == ASSUME IInv, NEW h \in Handlers, ActivateIfTranscriptUnchanged(h) PROVE IInv'
<1> DEFINE d == req[h].doc
<1>1. /\ req'[h] = Idle /\ req[h].pc = "activate" /\ d \in Documents
      /\ \A g \in Handlers \ {h} : req'[g] = req[g]
      /\ req' \in [Handlers -> [pc : {"idle", "reserve", "call", "answered", "activate"}, doc : Documented]]
  BY RecordsFit, Now DEF ActivateIfTranscriptUnchanged, Ends, IInv, ColumnsOk, RequestOk
<1>2. meeting' \in [state : {"live", "deleting", "gone"}, transcript : Transcripts \cup {NoTranscript}, active : Documented]
  BY <1>1 DEF ActivateIfTranscriptUnchanged, IInv, ColumnsOk, Documented
<1>3. meeting'.state = meeting.state /\ (meeting = Gone => meeting' = Gone)
  <2>1. d[1] # NoTranscript
    BY <1>1, DocumentsAssumption, NamesAssumption
  <2> QED BY <2>1, RecordsFit DEF ActivateIfTranscriptUnchanged, IInv, ColumnsOk
<1>4. ASSUME NEW e \in Documents PROVE RowOk(e)'
  BY <1>1, Now DEF ActivateIfTranscriptUnchanged, RowOk
<1>5. ASSUME NEW g \in Handlers PROVE RequestOk(g)'
  BY <1>1, <1>3, RecordsFit DEF ActivateIfTranscriptUnchanged, RequestOk, IInv
<1>6. MeetingOk'
  BY <1>3 DEF ActivateIfTranscriptUnchanged, MeetingOk, IInv
<1> QED BY <1>1, <1>2, <1>4, <1>5, <1>6 DEF ActivateIfTranscriptUnchanged, IInv, ColumnsOk

LEMMA ExpireKeeps == ASSUME IInv, NEW d \in Documents, Expire(d) PROVE IInv'
<1>1. /\ \A e \in Documents : rows'[e].status = rows[e].status /\ rows'[e].by = rows[e].by
      /\ \A e \in Documents \ {d} : rows'[e] = rows[e] /\ paid'[e] = paid[e]
      /\ paid'[d] = 0 /\ paid' \in [Documents -> Nat]
      /\ rows' \in [Documents -> [status : {"none", "pending", "ready", "failed"}, by : Handlers \cup {Nobody}, fresh : BOOLEAN]]
  BY DEF Expire, IInv, ColumnsOk
<1>2. meeting.state # "gone"
  BY RecordsFit DEF Expire, IInv, MeetingOk
<1>3. ASSUME NEW e \in Documents PROVE RowOk(e)'
  <2>1. RowOk(e)
    BY DEF IInv
  <2>2. CASE e = d
    BY <1>1, <2>1, <2>2 DEF Expire, RowOk
  <2>3. CASE e # d
    BY <1>1, <2>1, <2>3 DEF Expire, RowOk
  <2> QED BY <2>2, <2>3
<1>4. \A h \in Handlers : RequestOk(h)'
  BY <1>1 DEF Expire, RequestOk, IInv
<1> QED BY <1>1, <1>2, <1>3, <1>4 DEF Expire, IInv, ColumnsOk, MeetingOk

LEMMA DiesKeeps == ASSUME IInv, NEW h \in Handlers, Dies(h) PROVE IInv'
<1>1. /\ req'[h] = Idle /\ \A g \in Handlers \ {h} : req'[g] = req[g]
      /\ req' \in [Handlers -> [pc : {"idle", "reserve", "call", "answered", "activate"}, doc : Documented]]
  BY RecordsFit DEF Dies, Ends, IInv, ColumnsOk
<1>2. ASSUME NEW e \in Documents
      PROVE  /\ rows'[e].status = rows[e].status
             /\ rows'[e].by = IF rows[e].by = h THEN Nobody ELSE rows[e].by
             /\ rows'[e] \in [status : {"none", "pending", "ready", "failed"}, by : Handlers \cup {Nobody}, fresh : BOOLEAN]
  <2>1. rows[e] \in [status : {"none", "pending", "ready", "failed"}, by : Handlers \cup {Nobody}, fresh : BOOLEAN]
    BY DEF IInv, ColumnsOk
  <2>2. rows'[e] = IF rows[e].by = h THEN [rows[e] EXCEPT !.by = Nobody] ELSE rows[e]
    BY DEF Dies
  <2> QED BY <2>1, <2>2
<1>3. rows' \in [Documents -> [status : {"none", "pending", "ready", "failed"}, by : Handlers \cup {Nobody}, fresh : BOOLEAN]]
  BY <1>2 DEF Dies
<1>4. ASSUME NEW e \in Documents PROVE RowOk(e)'
  BY <1>1, <1>2, NamesAssumption DEF Dies, RowOk, IInv
<1>5. ASSUME NEW g \in Handlers PROVE RequestOk(g)'
  BY <1>1, <1>2, RecordsFit DEF Dies, RequestOk, IInv
<1>6. MeetingOk'
  <2> SUFFICES ASSUME meeting.state = "gone" PROVE meeting = Gone /\ \A d \in Documents : rows'[d] = NoRow
    BY DEF Dies, MeetingOk
  <2>1. meeting = Gone /\ \A d \in Documents : rows[d] = NoRow
    BY DEF IInv, MeetingOk
  <2> QED BY <2>1, RecordsFit, NamesAssumption DEF Dies
<1> QED BY <1>1, <1>3, <1>4, <1>5, <1>6 DEF Dies, IInv, ColumnsOk

LEMMA MeetingKeeps ==
  ASSUME IInv, (\E t \in Transcripts : ActivateTranscript(t)) \/ RequestDeletion
  PROVE  IInv'
<1>1. meeting # Gone /\ UNCHANGED <<rows, req, paid>>
  BY RecordsFit DEF ActivateTranscript, RequestDeletion
<1>2. meeting.state # "gone"
  BY <1>1 DEF IInv, MeetingOk
<1>3. /\ meeting' \in [state : {"live", "deleting", "gone"}, transcript : Transcripts \cup {NoTranscript}, active : Documented]
      /\ meeting'.state # "gone"
  BY <1>2 DEF ActivateTranscript, RequestDeletion, IInv, ColumnsOk
<1>4. (\A e \in Documents : RowOk(e)') /\ \A h \in Handlers : RequestOk(h)'
  BY <1>1 DEF IInv, RowOk, RequestOk
<1> QED BY <1>1, <1>3, <1>4 DEF IInv, ColumnsOk, MeetingOk

LEMMA DeleteKeeps == ASSUME IInv, DeleteMeetingRow PROVE IInv'
<1>1. \A d \in Documents : rows'[d] = NoRow /\ paid'[d] = 0
  BY DEF DeleteMeetingRow
<1>2. \A e \in Documents : RowOk(e)'
  BY <1>1, RecordsFit, NamesAssumption DEF RowOk
<1>3. \A h \in Handlers : RequestOk(h)'
  BY DEF DeleteMeetingRow, RequestOk, IInv
<1> QED BY <1>1, <1>2, <1>3, RecordsFit DEF DeleteMeetingRow, IInv, ColumnsOk, MeetingOk

LEMMA Invariance == Spec => []IInv
<1>1. IInv /\ [Next]_vars => IInv'
  <2> SUFFICES ASSUME IInv, [Next]_vars PROVE IInv'
    OBVIOUS
  <2>1. CASE UNCHANGED vars
    BY <2>1 DEF vars, IInv, ColumnsOk, RowOk, RequestOk, MeetingOk
  <2> QED BY <2>1, OneRowKeeps, AskKeeps, ActivateKeeps, ExpireKeeps, DiesKeeps, MeetingKeeps, DeleteKeeps
          DEF Next, Continue
<1> QED BY <1>1, InitHolds, PTL DEF Spec

-----------------------------------------------------------------------------
LEMMA ShownHolds == Spec => []ShownIsFinished
<1>1. Init => ShownIsFinished
  BY DEF Init, ShownIsFinished
<1>2. IInv /\ ShownIsFinished /\ [Next]_vars => ShownIsFinished'
  <2> SUFFICES ASSUME IInv, ShownIsFinished, [Next]_vars PROVE ShownIsFinished'
    OBVIOUS
  <2> DEFINE a == meeting.active
  <2>1. CASE meeting' = meeting /\ (a \in Documents /\ rows[a].status = "ready" => rows'[a].status = "ready")
    BY <2>1 DEF ShownIsFinished, IInv, ColumnsOk, Documented
  <2>2. ASSUME NEW h \in Handlers, NEW d \in Documents, Reserve(h, d) PROVE ShownIsFinished'
    BY <2>1, <2>2 DEF Reserve, Free, IInv, ColumnsOk
  <2>3. ASSUME NEW h \in Handlers, FailReservation(h) PROVE ShownIsFinished'
    BY <2>1, <2>3 DEF FailReservation, Holds, IInv, ColumnsOk
  <2>4. ASSUME NEW h \in Handlers, Complete(h) PROVE ShownIsFinished'
    BY <2>1, <2>4 DEF Complete, Holds, IInv, ColumnsOk
  <2>5. ASSUME NEW h \in Handlers, ActivateIfTranscriptUnchanged(h) PROVE ShownIsFinished'
    <3>1. CASE UNCHANGED <<meeting, rows>>
      BY <2>1, <3>1
    <3>2. CASE req[h].doc[1] = meeting.transcript /\ meeting' = [meeting EXCEPT !.active = req[h].doc] /\ UNCHANGED rows
      <4>1. req[h].doc \in Documents /\ req[h].doc[2] = Summary /\ (rows[req[h].doc].status = "ready" \/ meeting = Gone)
        BY <2>5 DEF ActivateIfTranscriptUnchanged, IInv, RequestOk
      <4>2. meeting # Gone
        BY <3>2, <4>1, RecordsFit, DocumentsAssumption, NamesAssumption
      <4> QED BY <3>2, <4>1, <4>2 DEF ShownIsFinished, IInv, ColumnsOk
    <3> QED BY <2>5, <3>1, <3>2 DEF ActivateIfTranscriptUnchanged
  <2>6. ASSUME NEW d \in Documents, Expire(d) PROVE ShownIsFinished'
    BY <2>1, <2>6 DEF Expire, IInv, ColumnsOk
  <2>7. ASSUME NEW h \in Handlers, Dies(h) PROVE ShownIsFinished'
    BY <2>1, <2>7 DEF Dies, IInv, ColumnsOk
  <2>8. CASE (\E t \in Transcripts : ActivateTranscript(t)) \/ RequestDeletion
    BY <2>8 DEF ActivateTranscript, RequestDeletion, ShownIsFinished, IInv, ColumnsOk
  <2>9. CASE DeleteMeetingRow
    BY <2>9 DEF DeleteMeetingRow, ShownIsFinished, Gone
  <2>10. CASE UNCHANGED <<meeting, rows>>
    BY <2>1, <2>10
  <2>11. ASSUME NEW h \in Handlers, NEW d \in Documents, Ask(h, d) \/ NotOwned(h) \/ CallModel(h) PROVE ShownIsFinished'
    BY <2>10, <2>11 DEF Ask, NotOwned, CallModel
  <2>12. ASSUME NEW h \in Handlers, NotOwned(h) \/ CallModel(h) PROVE ShownIsFinished'
    BY <2>10, <2>12 DEF NotOwned, CallModel
  <2> QED BY <2>2, <2>3, <2>4, <2>5, <2>6, <2>7, <2>8, <2>9, <2>10, <2>11, <2>12 DEF Next, Continue, vars
<1> QED BY <1>1, <1>2, Invariance, PTL DEF Spec

(* The columns of meetings and meeting_analyses keep their types, and what the  *)
(* meeting shows as its summary is a finished one.                              *)
THEOREM TypesHold == Spec => []TypeOK
BY Invariance, ShownHolds, PTL DEF IInv, TypeOK

LEMMA RowsPay == IInv => PaidOnce
BY DEF IInv, RowOk, PaidOnce

(* A document is paid for once, unless its call failed or outlived the          *)
(* reservation, however many requests ask for it at once.                       *)
THEOREM DocumentsArePaidOnce == Spec => []PaidOnce
BY Invariance, RowsPay, PTL

LEMMA StepKeepsCatalogue == IInv /\ [Next]_vars => [Catalogue!CatalogueNext]_<<Ready, meeting>>
<1> SUFFICES ASSUME IInv, [Next]_vars PROVE [Catalogue!CatalogueNext]_<<Ready, meeting>>
  OBVIOUS
<1> USE DEF Ready
<1>0. UNCHANGED rows => Ready' = Ready
  OBVIOUS
<1>1. CASE UNCHANGED <<rows, meeting>>
  BY <1>0, <1>1
<1>2. ASSUME NEW h \in Handlers, NEW d \in Documents, Reserve(h, d) PROVE UNCHANGED <<Ready, meeting>>
  <2>1. rows[d].status # "ready"
    BY <1>2 DEF Reserve, Free
  <2> QED BY <1>2, <2>1 DEF Reserve, IInv, ColumnsOk
<1>3. ASSUME NEW h \in Handlers, FailReservation(h) PROVE UNCHANGED <<Ready, meeting>>
  BY <1>3, Now DEF FailReservation, Holds, RequestOk, IInv, ColumnsOk
<1>4. ASSUME NEW h \in Handlers, Complete(h), Holds(h, req[h].doc) PROVE Catalogue!CatalogueNext
  <2>1. PICK d \in Documents : d = req[h].doc
    BY <1>4, Now, RecordsFit DEF Complete, Holds, RequestOk, IInv, MeetingOk
  <2>2. rows[d].status = "pending" /\ rows' = [rows EXCEPT ![d] = [status |-> "ready", by |-> Nobody, fresh |-> FALSE]]
    BY <1>4, <2>1 DEF Complete, Holds
  <2>3. rows'[d].status = "ready" /\ \A e \in Documents : e # d => rows'[e] = rows[e]
    BY <2>1, <2>2 DEF IInv, ColumnsOk
  <2>4. Ready' = Ready \cup {d} /\ d \notin Ready
    BY <2>2, <2>3
  <2>5. UNCHANGED meeting /\ meeting # Gone
    BY <1>4, Now, RecordsFit DEF Complete, Holds, RequestOk, IInv, MeetingOk
  <2>6. Catalogue!Finish(d)
    BY <2>4, <2>5 DEF Catalogue!Finish
  <2> QED BY <2>5, <2>6 DEF Catalogue!CatalogueNext, Catalogue!Gone, Gone
<1>5. ASSUME NEW h \in Handlers, ActivateIfTranscriptUnchanged(h) PROVE [Catalogue!CatalogueNext]_<<Ready, meeting>>
  <2> DEFINE d == req[h].doc
  <2>1. CASE d[1] # meeting.transcript
    BY <1>0, <1>5, <2>1 DEF ActivateIfTranscriptUnchanged
  <2>2. CASE d[1] = meeting.transcript
    <3>1. d \in Documents /\ d[2] = Summary /\ (rows[d].status = "ready" \/ meeting = Gone) /\ d[1] # NoTranscript
      BY <1>5, Now, DocumentsAssumption, NamesAssumption DEF ActivateIfTranscriptUnchanged, RequestOk
    <3>2. meeting # Gone
      BY <2>2, <3>1, RecordsFit
    <3>3. Catalogue!Show(d)
      BY <1>0, <1>5, <2>2, <3>1, <3>2 DEF ActivateIfTranscriptUnchanged, Catalogue!Show
    <3> QED BY <3>1, <3>2, <3>3 DEF Catalogue!CatalogueNext, Catalogue!Gone, Gone
  <2> QED BY <2>1, <2>2
<1>6. ASSUME NEW d \in Documents, Expire(d) PROVE UNCHANGED <<Ready, meeting>>
  BY <1>6 DEF Expire, IInv, ColumnsOk
<1>7. ASSUME NEW h \in Handlers, Dies(h) PROVE UNCHANGED <<Ready, meeting>>
  <2>1. ASSUME NEW e \in Documents PROVE rows'[e].status = rows[e].status
    BY <1>7, <2>1 DEF Dies, IInv, ColumnsOk
  <2> QED BY <1>7, <2>1 DEF Dies
<1>8. ASSUME NEW t \in Transcripts, ActivateTranscript(t) PROVE Catalogue!CatalogueNext
  BY <1>0, <1>8 DEF ActivateTranscript, Catalogue!CatalogueNext, Catalogue!Activate, Catalogue!Gone, Gone
<1>9. CASE RequestDeletion
  BY <1>0, <1>9, RecordsFit DEF RequestDeletion, Catalogue!CatalogueNext, Catalogue!Condemn, Catalogue!Gone, Gone
<1>10. CASE DeleteMeetingRow
  <2>1. Ready' = {}
    BY <1>10, RecordsFit DEF DeleteMeetingRow
  <2> QED BY <1>10, <2>1, RecordsFit DEF DeleteMeetingRow, Catalogue!CatalogueNext, Catalogue!Vanish, Catalogue!Gone, Gone
<1>11. ASSUME NEW h \in Handlers,
              (\E d \in Documents : Ask(h, d)) \/ CallModel(h) \/ NotOwned(h) \/ (Complete(h) /\ ~Holds(h, req[h].doc))
       PROVE  UNCHANGED <<rows, meeting>>
  BY <1>11 DEF Ask, CallModel, NotOwned, Complete
<1> HIDE DEF Ready
<1> QED BY <1>0, <1>1, <1>2, <1>3, <1>4, <1>5, <1>6, <1>7, <1>8, <1>9, <1>10, <1>11 DEF Next, Continue, vars

(* However requests, reprocessing, expiries, crashes and the deletion meet, what *)
(* is kept of a meeting's documents is what SummaryCatalogue promises.           *)
THEOREM CatalogueIsKept == Spec => CatalogueSpec
<1>1. Init => Catalogue!CatalogueInit
  BY InitHolds
<1>2. IInv /\ [Next]_vars => [Catalogue!CatalogueNext]_<<{d \in Documents : rows[d].status = "ready"}, meeting>>
  BY StepKeepsCatalogue DEF Ready
<1> QED BY <1>1, <1>2, Invariance, PTL DEF Spec, CatalogueSpec, Catalogue!CatalogueSpec

-----------------------------------------------------------------------------
(* Liveness. StepsAreEnabled stays a hypothesis, which TLC checks: ENABLED is beyond the provers. *)

FairTo(d) == WF_vars(Expire(d)) /\ SF_vars(AskedFor(d)) /\ SF_vars(Reserved(d))
FairToAll == \A d \in Documents : FairTo(d)
IdleOk == \A h \in Handlers : req[h].pc = "idle" => req[h] = Idle
Running == [][Next]_vars /\ []IInv /\ []IdleOk /\ []StepsAreEnabled /\ WF_vars(GoesOn) /\ FairToAll

LEMMA RunningStays == Running => []Running
<1>1. ASSUME NEW d \in Documents PROVE FairTo(d) => []FairTo(d)
  BY PTL DEF FairTo
<1>2. FairToAll => \A d \in Documents : []FairTo(d)
  BY <1>1 DEF FairToAll
<1>3. (\A d \in Documents : []FairTo(d)) => [](\A d \in Documents : FairTo(d))
  OBVIOUS
<1>4. FairToAll => []FairToAll
  BY <1>2, <1>3 DEF FairToAll
<1> QED BY <1>4, PTL DEF Running

LEMMA IdleIsIdle == Spec => []IdleOk
<1>1. Init => IdleOk
  BY RecordsFit DEF Init, IdleOk
<1>2. IInv /\ IdleOk /\ [Next]_vars => IdleOk'
  <2> SUFFICES ASSUME IInv, IdleOk, [Next]_vars, NEW g \in Handlers PROVE (req[g].pc = "idle" => req[g] = Idle)'
    BY DEF IdleOk
  <2>1. req \in [Handlers -> [pc : {"idle", "reserve", "call", "answered", "activate"}, doc : Documented]]
    BY DEF IInv, ColumnsOk
  <2>2. ASSUME NEW h \in Handlers, Ends(h) PROVE (req[g].pc = "idle" => req[g] = Idle)'
    BY <2>1, <2>2 DEF Ends, IdleOk
  <2>3. ASSUME NEW h \in Handlers, NEW pc \in {"call", "answered", "activate"}, Goes(h, pc)
        PROVE  (req[g].pc = "idle" => req[g] = Idle)'
    BY <2>1, <2>3 DEF Goes, IdleOk
  <2>4. ASSUME NEW h \in Handlers, NEW d \in Documents, Ask(h, d) PROVE (req[g].pc = "idle" => req[g] = Idle)'
    BY <2>1, <2>4 DEF Ask, Idle, IdleOk
  <2>5. CASE UNCHANGED req
    BY <2>5 DEF IdleOk
  <2>6. ASSUME NEW h \in Handlers, Continue(h) \/ Dies(h) \/ \E d \in Documents : Reserve(h, d)
        PROVE  Ends(h) \/ \E pc \in {"call", "answered", "activate"} : Goes(h, pc)
    BY <2>6 DEF Continue, NotOwned, CallModel, FailReservation, Complete, ActivateIfTranscriptUnchanged, Dies, Reserve
  <2>7. CASE (\E d \in Documents : Expire(d)) \/ (\E t \in Transcripts : ActivateTranscript(t))
             \/ RequestDeletion \/ DeleteMeetingRow \/ UNCHANGED vars
    BY <2>5, <2>7 DEF Expire, ActivateTranscript, RequestDeletion, DeleteMeetingRow, vars
  <2> QED BY <2>2, <2>3, <2>4, <2>6, <2>7 DEF Next
<1> QED BY <1>1, <1>2, Invariance, PTL DEF Spec

LEMMA Runs == FairSpec /\ []StepsAreEnabled => Running
<1>1. Fairness => WF_vars(GoesOn) /\ FairToAll
  BY PTL DEF Fairness, FairToAll, FairTo
<1> QED BY <1>1, Invariance, IdleIsIdle, PTL DEF FairSpec, Spec, Running

LEMMA FairToEach == ASSUME NEW d \in Documents PROVE Running => FairTo(d)
<1>1. FairToAll => FairTo(d)
  BY DEF FairToAll
<1> QED BY <1>1, PTL DEF Running

LEMMA RequestWaits == ASSUME NEW d \in Documents, StepsAreEnabled
  PROVE  /\ rows[d].status = "pending" /\ rows[d].fresh => ENABLED <<Expire(d)>>_vars
         /\ Free(d) /\ meeting.state = "live" /\ (\E h \in Handlers : Waits(h, d)) => ENABLED <<Reserved(d)>>_vars
         /\ Wanted(d) /\ (\E h \in Handlers : req[h] = Idle) => ENABLED <<AskedFor(d)>>_vars
         /\ ~Free(d) /\ (\E h \in Handlers : Waits(h, d)) => ENABLED <<GoesOn>>_vars
BY DEF StepsAreEnabled

-----------------------------------------------------------------------------
(* An abandoned row that stays abandoned runs out of its term, and then whoever asks gets it. *)

LEMMA TermSteps ==
  ASSUME IInv, [Next]_vars, NEW d \in Documents, Abandoned(d)', ~rows[d].fresh
  PROVE  ~rows'[d].fresh
<1> USE NamesAssumption DEF IInv, ColumnsOk, Abandoned
<1>1. CASE UNCHANGED rows
  BY <1>1
<1>2. ASSUME NEW h \in Handlers, NEW e \in Documents, Reserve(h, e) PROVE ~rows'[d].fresh
  BY <1>2 DEF Reserve
<1>3. ASSUME NEW h \in Handlers, FailReservation(h) \/ Complete(h) PROVE ~rows'[d].fresh
  BY <1>3 DEF FailReservation, Complete
<1>4. ASSUME NEW e \in Documents, Expire(e) PROVE ~rows'[d].fresh
  BY <1>4 DEF Expire
<1>5. ASSUME NEW h \in Handlers, Dies(h) PROVE ~rows'[d].fresh
  BY <1>5 DEF Dies
<1>6. CASE DeleteMeetingRow
  BY <1>6 DEF DeleteMeetingRow, NoRow
<1>7. ASSUME NEW h \in Handlers,
             (\E e \in Documents : Ask(h, e)) \/ NotOwned(h) \/ CallModel(h) \/ ActivateIfTranscriptUnchanged(h)
      PROVE  UNCHANGED rows
  BY <1>7 DEF Ask, NotOwned, CallModel, ActivateIfTranscriptUnchanged
<1>8. CASE (\E t \in Transcripts : ActivateTranscript(t)) \/ RequestDeletion \/ UNCHANGED vars
  BY <1>8 DEF ActivateTranscript, RequestDeletion, vars
<1> QED BY <1>1, <1>2, <1>3, <1>4, <1>5, <1>6, <1>7, <1>8 DEF Next, Continue

LEMMA TermRunsOut == ASSUME NEW d \in Documents PROVE Running /\ []Abandoned(d) => <>[]Free(d)
<1>1. IInv /\ [Next]_vars /\ Abandoned(d)' /\ ~rows[d].fresh => (~rows[d].fresh)'
  BY TermSteps
<1>2. IInv /\ <<Expire(d)>>_vars => (~rows[d].fresh)'
  BY DEF Expire, IInv, ColumnsOk
<1>3. StepsAreEnabled /\ Abandoned(d) /\ rows[d].fresh => ENABLED <<Expire(d)>>_vars
  BY RequestWaits DEF Abandoned
<1>4. Abandoned(d) /\ ~rows[d].fresh => Free(d)
  BY DEF Abandoned, Free
<1> QED BY <1>1, <1>2, <1>3, <1>4, FairToEach, PTL DEF Running, FairTo

Waiting(d) == \E h \in Handlers : Waits(h, d)
Spare == \E h \in Handlers : req[h] = Idle

LEMMA NobodyWaits ==
  ASSUME NEW d \in Documents
  PROVE  Running /\ []Abandoned(d) /\ [](meeting.state = "live") => <>[]~Waiting(d)
<1>1. IInv /\ <<Reserved(d)>>_vars => ~Abandoned(d)'
  BY NamesAssumption DEF Reserved, Reserve, Abandoned, IInv, ColumnsOk
<1>2. StepsAreEnabled /\ Free(d) /\ meeting.state = "live" /\ Waiting(d) => ENABLED <<Reserved(d)>>_vars
  BY RequestWaits DEF Waiting
<1> QED BY <1>1, <1>2, TermRunsOut, FairToEach, PTL DEF Running, FairTo

LEMMA NobodyIsSpare ==
  ASSUME NEW d \in Documents
  PROVE  Running /\ []Abandoned(d) /\ []Wanted(d) => <>[]~Spare
<1>1. IInv /\ <<AskedFor(d)>>_vars => Waiting(d)'
  BY DEF AskedFor, Ask, Idle, Waiting, Waits, IInv, ColumnsOk
<1>2. StepsAreEnabled /\ Wanted(d) /\ Spare => ENABLED <<AskedFor(d)>>_vars
  BY RequestWaits DEF Spare
<1>3. Wanted(d) => meeting.state = "live"
  BY DEF Wanted
<1> QED BY <1>1, <1>2, <1>3, NobodyWaits, FairToEach, PTL DEF Running, FairTo

-----------------------------------------------------------------------------
(* Requests that never end have ever less ahead of them. *)

Later(pc, step) == \/ pc = "reserve" /\ step \in {"call", "answered", "activate"}
                   \/ pc = "call" /\ step \in {"answered", "activate"}
                   \/ pc = "answered" /\ step = "activate"
Steps == {"call", "answered", "activate"}
Ahead == {x \in Handlers \X Steps : Later(req[x[1]].pc, x[2])}

LEMMA BusySteps ==
  ASSUME IInv, [Next]_vars, ~Spare, ~Spare', NEW h \in Handlers
  PROVE  req'[h] = req[h] \/ Later(req[h].pc, req'[h].pc)
<1>1. req \in [Handlers -> [pc : {"idle", "reserve", "call", "answered", "activate"}, doc : Documented]]
  BY DEF IInv, ColumnsOk
<1>2. \A g \in Handlers : req[g] # Idle /\ req'[g] # Idle
  BY DEF Spare
<1>3. CASE UNCHANGED req
  BY <1>3
<1>4. ASSUME NEW g \in Handlers, NEW d \in Documents, Ask(g, d) PROVE FALSE
  BY <1>2, <1>4 DEF Ask
<1>5. ASSUME NEW g \in Handlers, NEW d \in Documents, Reserve(g, d) PROVE req'[h] = req[h] \/ Later(req[h].pc, req'[h].pc)
  BY <1>1, <1>5 DEF Reserve, Goes, Later
<1>6. ASSUME NEW g \in Handlers, Ends(g) PROVE FALSE
  BY <1>1, <1>2, <1>6 DEF Ends
<1>7. ASSUME NEW g \in Handlers, CallModel(g) \/ Complete(g) PROVE req'[h] = req[h] \/ Later(req[h].pc, req'[h].pc)
  BY <1>1, <1>6, <1>7 DEF CallModel, Complete, Goes, Later
<1>8. ASSUME NEW g \in Handlers, NotOwned(g) \/ FailReservation(g) \/ ActivateIfTranscriptUnchanged(g) \/ Dies(g) PROVE FALSE
  BY <1>6, <1>8 DEF NotOwned, FailReservation, ActivateIfTranscriptUnchanged, Dies
<1>9. CASE (\E d \in Documents : Expire(d)) \/ (\E t \in Transcripts : ActivateTranscript(t))
           \/ RequestDeletion \/ DeleteMeetingRow \/ UNCHANGED vars
  BY <1>3, <1>9 DEF Expire, ActivateTranscript, RequestDeletion, DeleteMeetingRow, vars
<1> QED BY <1>4, <1>5, <1>7, <1>8, <1>9 DEF Next, Continue

LEMMA LaterIsLess ==
  ASSUME NEW h \in Handlers, Later(req[h].pc, req'[h].pc)
  PROVE  /\ <<h, req'[h].pc>> \in Ahead /\ <<h, req'[h].pc>> \notin Ahead'
         /\ \A step : Later(req'[h].pc, step) => Later(req[h].pc, step)
BY DEF Ahead, Steps, Later

LEMMA AheadShrinks ==
  ASSUME IInv, [Next]_vars, ~Spare, ~Spare'
  PROVE  /\ Ahead' \subseteq Ahead
         /\ Ahead' = Ahead => \A h \in Handlers : req'[h] = req[h]
<1>1. \A h \in Handlers : req'[h] = req[h] \/ Later(req[h].pc, req'[h].pc)
  BY BusySteps
<1> QED BY <1>1, LaterIsLess DEF Ahead

LEMMA BusyWaits ==
  ASSUME NEW h \in Handlers
  PROVE  StepsAreEnabled /\ req[h].pc \in Steps => ENABLED <<GoesOn>>_vars
BY DEF StepsAreEnabled, Steps

\* Every request is on its way, and none gets any further.
Stuck(U) == Running /\ []~Spare /\ [](meeting.state = "live") /\ [](Ahead = U)

LEMMA StuckSteps ==
  ASSUME IInv, [Next]_vars, ~Spare, ~Spare', NEW U, Ahead = U, (Ahead = U)'
  PROVE  /\ \A h \in Handlers : req'[h] = req[h]
         /\ ~<<GoesOn>>_vars
         /\ \A d \in Documents : ~<<Reserved(d)>>_vars
<1>1. \A h \in Handlers : req'[h] = req[h] /\ req[h] # Idle
  BY AheadShrinks DEF Spare
<1>2. req \in [Handlers -> [pc : {"idle", "reserve", "call", "answered", "activate"}, doc : Documented]]
  BY DEF IInv, ColumnsOk
<1>3. ASSUME NEW h \in Handlers, Continue(h) PROVE FALSE
  <2>1. ~Ends(h)
    BY <1>1, <1>2 DEF Ends
  <2>2. CallModel(h) \/ (Complete(h) /\ Goes(h, "activate"))
    BY <1>3, <2>1 DEF Continue, NotOwned, FailReservation, Complete, ActivateIfTranscriptUnchanged
  <2> QED BY <1>1, <1>2, <2>2 DEF CallModel, Complete, Goes
<1>4. ASSUME NEW h \in Handlers, NEW d \in Documents, Reserve(h, d) PROVE FALSE
  BY <1>1, <1>2, <1>4 DEF Reserve, Goes
<1> QED BY <1>1, <1>3, <1>4 DEF GoesOn, Reserved

LEMMA StuckSoStill ==
  ASSUME NEW U, NEW h \in Handlers, NEW d \in Documents
  PROVE  Stuck(U) => ~Waits(h, d)
<1>1. IInv /\ [Next]_vars /\ ~Spare /\ ~Spare' /\ Ahead = U /\ (Ahead = U)'
        => (Waits(h, d) => Waits(h, d)') /\ ~<<GoesOn>>_vars /\ ~<<Reserved(d)>>_vars
  BY StuckSteps DEF Waits
<1>2. StepsAreEnabled /\ Waits(h, d) /\ Free(d) /\ meeting.state = "live" => ENABLED <<Reserved(d)>>_vars
  BY RequestWaits
<1>3. StepsAreEnabled /\ Waits(h, d) /\ ~Free(d) => ENABLED <<GoesOn>>_vars
  BY RequestWaits
<1> QED BY <1>1, <1>2, <1>3, FairToEach, PTL DEF Stuck, Running, FairTo

LEMMA StuckSoWaiting ==
  ASSUME NEW U, NEW h \in Handlers
  PROVE  Stuck(U) => ~(req[h].pc \in Steps)
<1>1. IInv /\ [Next]_vars /\ ~Spare /\ ~Spare' /\ Ahead = U /\ (Ahead = U)'
        => (req[h].pc \in Steps => (req[h].pc \in Steps)') /\ ~<<GoesOn>>_vars
  BY StuckSteps
<1>2. StepsAreEnabled /\ req[h].pc \in Steps => ENABLED <<GoesOn>>_vars
  BY BusyWaits
<1> QED BY <1>1, <1>2, PTL DEF Stuck, Running

LEMMA NeverStuck ==
  ASSUME NEW U, Handlers # {}
  PROVE  ~Stuck(U)
<1>1. PICK h : h \in Handlers
  OBVIOUS
<1>2. \A d \in Documents : Stuck(U) => ~Waits(h, d)
  BY <1>1, StuckSoStill
<1>3. Stuck(U) => ~(req[h].pc \in Steps)
  BY <1>1, StuckSoWaiting
<1>4. Stuck(U) => IInv /\ IdleOk /\ ~Spare
  BY PTL DEF Stuck, Running
<1>5. IInv /\ IdleOk /\ ~Spare /\ ~(req[h].pc \in Steps) => \E d \in Documents : Waits(h, d)
  <2> SUFFICES ASSUME IInv, IdleOk, ~Spare, ~(req[h].pc \in Steps) PROVE \E d \in Documents : Waits(h, d)
    OBVIOUS
  <2>1. req[h].pc \in {"idle", "reserve"} /\ RequestOk(h) /\ req[h] # Idle
    BY <1>1, Now DEF Steps, Spare
  <2>2. req[h].pc # "idle"
    BY <1>1, <2>1 DEF IdleOk
  <2> QED BY <2>1, <2>2 DEF RequestOk, Waits
<1> QED BY <1>2, <1>3, <1>4, <1>5

LEMMA FiniteInduction ==
  ASSUME NEW S, IsFiniteSet(S), NEW g,
         \A U \in SUBSET S : (\A x \in U : g[U \ {x}]) => g[U]
  PROVE  \A U \in SUBSET S : g[U]
<1> SUFFICES ASSUME NEW V \in SUBSET S, ~g[V] PROVE FALSE
  OBVIOUS
<1>1. PICK T : T = {U \in SUBSET S : ~g[U]}
  OBVIOUS
<1>2. IsWellFoundedOn(StrictSubsetOrdering(S), SUBSET S)
  BY FS_StrictSubsetOrderingWellFounded, FS_FiniteSubsetsOfFinite
<1>3. PICK U \in T : \A W \in T : ~(<<W, U>> \in StrictSubsetOrdering(S))
  <2>1. V \in T /\ T \subseteq SUBSET S /\ T # {}
    BY <1>1
  <2> QED BY <1>2, <2>1, WFMin
<1>4. PICK x \in U : ~g[U \ {x}]
  BY <1>1, <1>3
<1>5. U \ {x} \in T /\ U \in SUBSET S
  BY <1>1, <1>3, <1>4
<1>6. <<U \ {x}, U>> \in StrictSubsetOrdering(S)
  BY <1>5, <1>4 DEF StrictSubsetOrdering
<1> QED BY <1>3, <1>5, <1>6


Busy(U) == Running /\ []~Spare /\ [](meeting.state = "live") /\ [](Ahead \subseteq U)
Never(U) == []~Busy(U)
Outcomes == [U \in SUBSET (Handlers \X Steps) |-> Never(U)]
Given(t) == t \/ TRUE

LEMMA SomeoneEnds ==
  ASSUME Handlers # {}, NEW U \in SUBSET (Handlers \X Steps)
  PROVE  (\A x \in U : Never(U \ {x})) => Never(U)
<1> DEFINE Keeps == Running /\ []~Spare /\ [](meeting.state = "live")
<1>1. (\A x \in U : Never(U \ {x})) => [](\A x \in U : ~Busy(U \ {x}))
  BY DEF Never
<1>2. ASSUME NEW x \in U PROVE ~Busy(U \ {x}) => (Keeps => ~(Ahead \subseteq U \ {x}))
  <2>1. IInv /\ [Next]_vars /\ ~Spare /\ ~Spare' /\ Ahead \subseteq U \ {x} => (Ahead \subseteq U \ {x})'
    BY AheadShrinks
  <2> QED BY <2>1, PTL DEF Busy, Running
<1>3. (\A x \in U : ~Busy(U \ {x})) => (Keeps => \A x \in U : ~(Ahead \subseteq U \ {x}))
  <2> HIDE DEF Keeps
  <2> QED BY <1>2
<1>4. Ahead \subseteq U /\ (\A x \in U : ~(Ahead \subseteq U \ {x})) => Ahead = U
  OBVIOUS
<1>5. ~Stuck(U)
  BY NeverStuck
<1> QED BY <1>1, <1>3, <1>4, <1>5, RunningStays, PTL DEF Never, Busy, Stuck

LEMMA SomeoneIsSpare ==
  ASSUME Handlers # {}, IsFiniteSet(Handlers)
  PROVE  Running /\ [](meeting.state = "live") => <>Spare
<1> DEFINE S == Handlers \X Steps
<1>1. PICK g : \A U \in SUBSET S : g[U] <=> Never(U)
  <2>1. Given(Outcomes)
    BY DEF Given
  <2> QED BY <2>1, SMTT(20) DEF Outcomes
<1>2. \A U \in SUBSET S : (\A x \in U : g[U \ {x}]) => g[U]
  <2>1. ASSUME NEW U \in SUBSET S PROVE (\A x \in U : Never(U \ {x})) => Never(U)
    BY SomeoneEnds
  <2> QED BY <1>1, <2>1
<1>3. IsFiniteSet(S)
  <2>1. IsFiniteSet(Steps)
    <3>1. Steps = (({} \cup {"call"}) \cup {"answered"}) \cup {"activate"}
      BY DEF Steps
    <3> QED BY <3>1, FS_EmptySet, FS_AddElement
  <2> QED BY <2>1, FS_Product
<1>4. g[S]
  BY <1>2, <1>3, FiniteInduction
<1>5. Never(S)
  BY <1>1, <1>4
<1>6. Ahead \subseteq S
  BY DEF Ahead
<1> QED BY <1>5, <1>6, PTL DEF Never, Busy

-----------------------------------------------------------------------------
NoneAbandoned == \A d \in Documents : ~Abandoned(d)

LEMMA NoHandlerNoRow ==
  ASSUME Handlers = {}
  PROVE  Spec => []NoneAbandoned
<1> DEFINE None == \A d \in Documents : rows[d].status # "pending"
<1>1. Init => None
  BY DEF Init, NoRow
<1>2. None /\ [Next]_vars => None'
  BY DEF Next, Expire, ActivateTranscript, RequestDeletion, DeleteMeetingRow, NoRow, vars
<1>3. None => NoneAbandoned
  BY DEF NoneAbandoned, Abandoned
<1> HIDE DEF None
<1> QED BY <1>1, <1>2, <1>3, PTL DEF Spec

(* A reservation whose process was lost does not keep its document from whoever asks again:  *)
(* it runs out of its term, and one of the requests takes it over (RESERVA_CADUCA_MS), as    *)
(* long as finitely many are in flight at once.                                              *)
THEOREM AbandonedAreTakenOver ==
  ASSUME IsFiniteSet(Handlers)
  PROVE  FairSpec /\ []StepsAreEnabled => AbandonedIsTakenOver
<1>1. ASSUME NEW d \in Documents
      PROVE  FairSpec /\ []StepsAreEnabled => (Abandoned(d) ~> ~Abandoned(d) \/ ~Wanted(d))
  <2>1. CASE Handlers # {}
    <3>1. Wanted(d) => meeting.state = "live"
      BY DEF Wanted
    <3>2. Running /\ [](meeting.state = "live") => <>Spare
      BY <2>1, SomeoneIsSpare
    <3>3. Running => ~([]Abandoned(d) /\ []Wanted(d))
      BY <3>1, <3>2, NobodyIsSpare, RunningStays, PTL
    <3> QED BY <3>3, Runs, RunningStays, PTL
  <2>2. CASE Handlers = {}
    <3>1. Spec => []NoneAbandoned
      BY <2>2, NoHandlerNoRow
    <3>2. NoneAbandoned => ~Abandoned(d)
      BY DEF NoneAbandoned
    <3> QED BY <3>1, <3>2, PTL DEF FairSpec
  <2> QED BY <2>1, <2>2
<1> QED BY <1>1 DEF AbandonedIsTakenOver
=============================================================================
