--------------------------- MODULE SummaryCatalogue ---------------------------
(* What is kept of the documents written about a meeting: each is written once, *)
(* for one version of the transcript, the summary that the meeting shows as its *)
(* own is that of the version that was active when it was put there, and        *)
(* nothing of it outlives the meeting.                                          *)
CONSTANTS Transcripts, Documents, Summary, NoTranscript, NoDocument
VARIABLES ready, meeting

Gone == [state |-> "gone", transcript |-> NoTranscript, active |-> NoDocument]

CatalogueInit ==
  /\ ready = {}
  /\ meeting = [state |-> "live", transcript |-> NoTranscript, active |-> NoDocument]

Finish(d) == d \notin ready /\ ready' = ready \cup {d} /\ UNCHANGED meeting

Show(d) ==
  /\ d \in ready /\ d[2] = Summary /\ d[1] = meeting.transcript
  /\ meeting' = [meeting EXCEPT !.active = d] /\ UNCHANGED ready

Activate(t) == meeting' = [meeting EXCEPT !.transcript = t] /\ UNCHANGED ready
Condemn == meeting.state = "live" /\ meeting' = [meeting EXCEPT !.state = "deleting"] /\ UNCHANGED ready
Vanish == meeting.state = "deleting" /\ meeting' = Gone /\ ready' = {}

CatalogueNext ==
  /\ meeting # Gone
  /\ \/ \E d \in Documents : Finish(d) \/ Show(d)
     \/ \E t \in Transcripts : Activate(t)
     \/ Condemn \/ Vanish

CatalogueSpec == CatalogueInit /\ [][CatalogueNext]_<<ready, meeting>>
=============================================================================
