---------------------------- MODULE MeetingAnalysis ----------------------------
(* The documents a language model writes about one meeting: its summary and its *)
(* reports (src/meetings/analysis/service.ts, reports/service.ts, and the       *)
(* repository analyses.ts).                                                     *)
(*                                                                              *)
(* A row of meeting_analyses is reserved before the model is called and closed  *)
(* with what it answered, by whoever still holds the reservation. Between two   *)
(* statements the transcript is replaced, the meeting deleted, the reservation  *)
(* outlived or the process lost.                                                *)
EXTENDS Naturals

CONSTANTS
  Handlers,     \* requests in flight at once
  Transcripts,  \* versions of the transcript
  Documents,    \* of a version each: the summary, and the reports asked for (what inputsDigest tells apart)
  Summary,      \* the kind of the first
  NoTranscript, Nobody, NoDocument

ASSUME DocumentsAssumption == \A d \in Documents : d = <<d[1], d[2]>> /\ d[1] \in Transcripts
ASSUME NamesAssumption == Nobody \notin Handlers /\ NoTranscript \notin Transcripts /\ NoDocument \notin Documents

VARIABLES
  meeting,   \* meetings: deletion_state, active_transcript_id, active_analysis_id
  rows,      \* meeting_analyses: status, reserved_by while pending, and whether the reservation is in its term
  req,       \* requests in flight: the document each is for
  paid       \* history: calls of each document made under reservations in their term, less those that failed

vars == <<meeting, rows, req, paid>>

NoRow == [status |-> "none", by |-> Nobody, fresh |-> FALSE]
Idle == [pc |-> "idle", doc |-> NoDocument]
Gone == [state |-> "gone", transcript |-> NoTranscript, active |-> NoDocument]

Init ==
  /\ meeting = [state |-> "live", transcript |-> NoTranscript, active |-> NoDocument]
  /\ rows = [d \in Documents |-> NoRow]
  /\ req = [h \in Handlers |-> Idle]
  /\ paid = [d \in Documents |-> 0]

Goes(h, pc) == req' = [req EXCEPT ![h].pc = pc]
Ends(h) == req' = [req EXCEPT ![h] = Idle]

-----------------------------------------------------------------------------
(* One generation. *)
Holds(h, d) == rows[d].status = "pending" /\ rows[d].by = h

Ask(h, d) ==
  /\ req[h] = Idle /\ meeting.state = "live" /\ d[1] = meeting.transcript
  /\ req' = [req EXCEPT ![h] = [Idle EXCEPT !.pc = "reserve", !.doc = d]]
  /\ UNCHANGED <<meeting, rows, paid>>

(* The insert, or the update of a failed or abandoned row: each decides by itself. *)
Free_takesPending(d) == rows[d].status \in {"none", "failed", "pending"}
Free_neverPending(d) == rows[d].status \in {"none", "failed"}
Free(d) == rows[d].status \in {"none", "failed"} \/ (rows[d].status = "pending" /\ ~rows[d].fresh)

Reserve(h, d) ==
  /\ req[h].pc = "reserve" /\ req[h].doc = d
  /\ meeting # Gone /\ Free(d)
  /\ rows' = [rows EXCEPT ![d] = [status |-> "pending", by |-> h, fresh |-> TRUE]]
  /\ Goes(h, "call")
  /\ UNCHANGED <<meeting, paid>>

NotOwned_waits(h) ==
  /\ req[h].pc = "reserve" /\ meeting = Gone
  /\ Ends(h)
  /\ UNCHANGED <<meeting, rows, paid>>

(* Another has it or it is done; of a meeting that is no more the insert fails. *)
NotOwned(h) ==
  /\ req[h].pc = "reserve"
  /\ meeting = Gone \/ ~Free(req[h].doc)
  /\ Ends(h)
  /\ UNCHANGED <<meeting, rows, paid>>

CallModel(h) ==
  LET d == req[h].doc IN
  /\ req[h].pc = "call"
  /\ paid' = IF Holds(h, d) /\ rows[d].fresh THEN [paid EXCEPT ![d] = @ + 1] ELSE paid
  /\ Goes(h, "answered")
  /\ UNCHANGED <<meeting, rows>>

(* What was answered is an error, or of no use, or a document. *)
FailReservation(h) ==
  LET d == req[h].doc IN
  /\ req[h].pc = "answered"
  /\ \/ /\ Holds(h, d)
        /\ rows' = [rows EXCEPT ![d] = [status |-> "failed", by |-> Nobody, fresh |-> FALSE]]
        /\ paid' = [paid EXCEPT ![d] = 0]
     \/ ~Holds(h, d) /\ UNCHANGED <<rows, paid>>
  /\ Ends(h)
  /\ UNCHANGED <<meeting>>

Complete(h) ==
  LET d == req[h].doc IN
  /\ req[h].pc = "answered"
  /\ \/ /\ Holds(h, d)
        /\ rows' = [rows EXCEPT ![d] = [status |-> "ready", by |-> Nobody, fresh |-> FALSE]]
        /\ IF d[2] = Summary THEN Goes(h, "activate") ELSE Ends(h)
     \/ ~Holds(h, d) /\ Ends(h) /\ UNCHANGED rows
  /\ UNCHANGED <<meeting, paid>>

ActivateIfTranscriptUnchanged_always(h) ==
  /\ req[h].pc = "activate" /\ meeting # Gone
  /\ meeting' = [meeting EXCEPT !.active = req[h].doc]
  /\ Ends(h)
  /\ UNCHANGED <<rows, paid>>

ActivateIfTranscriptUnchanged(h) ==
  LET d == req[h].doc IN
  /\ req[h].pc = "activate"
  /\ \/ d[1] = meeting.transcript /\ meeting' = [meeting EXCEPT !.active = d]
     \/ d[1] # meeting.transcript /\ UNCHANGED meeting
  /\ Ends(h)
  /\ UNCHANGED <<rows, paid>>

-----------------------------------------------------------------------------
(* What happens meanwhile. *)

(* RESERVA_CADUCA_MS go by. *)
Expire(d) ==
  /\ rows[d].status = "pending" /\ rows[d].fresh
  /\ rows' = [rows EXCEPT ![d].fresh = FALSE]
  /\ paid' = [paid EXCEPT ![d] = 0]
  /\ UNCHANGED <<meeting, req>>

(* The process dies. Its reservations are in a name nobody has any more. *)
Dies(h) ==
  /\ req[h] # Idle
  /\ Ends(h)
  /\ rows' = [d \in Documents |-> IF rows[d].by = h THEN [rows[d] EXCEPT !.by = Nobody] ELSE rows[d]]
  /\ UNCHANGED <<meeting, paid>>

(* The pipeline puts a version in force, possibly an earlier one again. *)
ActivateTranscript(t) ==
  /\ meeting # Gone /\ meeting.transcript # t
  /\ meeting' = [meeting EXCEPT !.transcript = t]
  /\ UNCHANGED <<rows, req, paid>>

RequestDeletion ==
  /\ meeting.state = "live"
  /\ meeting' = [meeting EXCEPT !.state = "deleting"]
  /\ UNCHANGED <<rows, req, paid>>

(* The row goes, and its analyses with it. *)
DeleteMeetingRow ==
  /\ meeting.state = "deleting"
  /\ meeting' = Gone
  /\ rows' = [d \in Documents |-> NoRow]
  /\ paid' = [d \in Documents |-> 0]
  /\ UNCHANGED <<req>>

-----------------------------------------------------------------------------
Continue(h) ==
  \/ NotOwned(h) \/ CallModel(h) \/ FailReservation(h) \/ Complete(h) \/ ActivateIfTranscriptUnchanged(h)

Next ==
  \/ \E h \in Handlers, d \in Documents : Ask(h, d) \/ Reserve(h, d)
  \/ \E h \in Handlers : Continue(h) \/ Dies(h)
  \/ \E d \in Documents : Expire(d)
  \/ \E t \in Transcripts : ActivateTranscript(t)
  \/ RequestDeletion \/ DeleteMeetingRow

Spec == Init /\ [][Next]_vars

(* Requests go on, time goes by, and people ask again for what they do not get. *)
GoesOn == \E h \in Handlers : Continue(h)
AskedFor(d) == \E h \in Handlers : Ask(h, d)
Reserved(d) == \E h \in Handlers : Reserve(h, d)
Fairness ==
  /\ WF_vars(GoesOn)
  /\ \A d \in Documents : WF_vars(Expire(d)) /\ SF_vars(AskedFor(d)) /\ SF_vars(Reserved(d))
FairSpec == Spec /\ Fairness

Waits(h, d) == req[h].pc = "reserve" /\ req[h].doc = d
Wanted(d) == meeting.state = "live" /\ d[1] = meeting.transcript

(* What is waited for can be done: a request is kept from its next step only by a row that is free. *)
StepsAreEnabled ==
  /\ \A h \in Handlers : req[h].pc \in {"call", "answered", "activate"} => ENABLED <<GoesOn>>_vars
  /\ \A h \in Handlers, d \in Documents : Waits(h, d) /\ ~Free(d) => ENABLED <<GoesOn>>_vars
  /\ \A h \in Handlers, d \in Documents :
       Waits(h, d) /\ Free(d) /\ meeting.state = "live" => ENABLED <<Reserved(d)>>_vars
  /\ \A h \in Handlers, d \in Documents : req[h] = Idle /\ Wanted(d) => ENABLED <<AskedFor(d)>>_vars
  /\ \A d \in Documents : rows[d].status = "pending" /\ rows[d].fresh => ENABLED <<Expire(d)>>_vars

-----------------------------------------------------------------------------
Documented == Documents \cup {NoDocument}

ColumnsOk ==
  /\ meeting \in [state : {"live", "deleting", "gone"}, transcript : Transcripts \cup {NoTranscript}, active : Documented]
  /\ rows \in [Documents -> [status : {"none", "pending", "ready", "failed"}, by : Handlers \cup {Nobody}, fresh : BOOLEAN]]
  /\ req \in [Handlers -> [pc : {"idle", "reserve", "call", "answered", "activate"}, doc : Documented]]
  /\ paid \in [Documents -> Nat]

ShownIsFinished ==
  meeting.active # NoDocument => meeting.active[2] = Summary /\ rows[meeting.active].status = "ready"

(* Every table keeps to its columns, and the analysis a meeting points to is a finished summary, *)
(* never a report (complete, then activateIfTranscriptUnchanged, analyses.ts:319, :375).          *)
TypeOK == ColumnsOk /\ ShownIsFinished

(* Whatever requests, reprocessings, expiries, crashes and the deletion meet, a      *)
(* document is written once, the summary shown was of the transcript in force when   *)
(* it was put there, and nothing is left of a deleted meeting (complete,              *)
(* activateIfTranscriptUnchanged, ON DELETE CASCADE).                                 *)
Catalogue == INSTANCE SummaryCatalogue WITH ready <- {d \in Documents : rows[d].status = "ready"}
CatalogueSpec == Catalogue!CatalogueSpec

(* A document is not paid for twice: however many ask for it at once, a call for it   *)
(* is made again only when the first failed or outlived its reservation, and none     *)
(* once it is there (reserve, analyses.ts:145).                                       *)
PaidOnce == \A d \in Documents : paid[d] <= 1

(* A reservation whose process was lost does not block the document for ever: whoever *)
(* asks again takes it over (RESERVA_CADUCA_MS).                                       *)
Abandoned(d) == rows[d].status = "pending" /\ rows[d].by = Nobody
AbandonedIsTakenOver == \A d \in Documents : Abandoned(d) ~> ~Abandoned(d) \/ ~Wanted(d)

(* What the comments say and the code does not keep. *)

(* «Una reunión en eliminación no genera resúmenes nuevos». *)
NoneOfCondemned ==
  [][\A d \in Documents : rows[d].status # "pending" /\ rows'[d].status = "pending" => meeting.state = "live"]_vars
=============================================================================
