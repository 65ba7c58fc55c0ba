------------------------------- MODULE Agenda -------------------------------
(* What the agenda of a client promises, whatever requests meet while they    *)
(* write it: appointments are booked, moved and closed one at a time, only    *)
(* while scheduling is on, and those still to be attended of one professional *)
(* never share an instant.                                                    *)
EXTENDS Naturals

CONSTANTS Ids, Duration
VARIABLES appts, enabled

Active == {"scheduled", "confirmed"}
Blocked(r) == r.start .. (r.start + Duration[r.service] - 1)
Overlap(r, s) == r.staff = s.staff /\ Blocked(r) \cap Blocked(s) # {}

Apart == \A a, b \in Ids :
  a # b /\ appts[a].status \in Active /\ appts[b].status \in Active => ~Overlap(appts[a], appts[b])

(* A key names one appointment for ever. *)
KeyNamesOne == \A a, b \in Ids :
  a # b /\ appts[a].status # "none" /\ appts[b].status # "none" /\ appts[a].key = appts[b].key
    => appts[a].key = "none"

AgendaInit == enabled = TRUE /\ \A a \in Ids : appts[a].status = "none"

Books(r, s) == r.status = "none" /\ s.status \in {"scheduled", "completed"}
Follows(r, s) ==
  /\ \/ r.status = "scheduled" /\ s.status = "confirmed"
     \/ r.status \in Active /\ s.status \in {"completed", "cancelled", "no_show"}
  /\ s = [r EXCEPT !.status = s.status]
Moves(r, s) ==
  /\ r.status \notin {"none", "cancelled"}
  /\ s.status = r.status /\ s.key = r.key

AgendaStep ==
  /\ enabled
  /\ enabled' = enabled
  /\ \E a \in Ids :
       /\ \A b \in Ids \ {a} : appts'[b] = appts[b]
       /\ Books(appts[a], appts'[a]) \/ Follows(appts[a], appts'[a]) \/ Moves(appts[a], appts'[a])
  /\ Apart' /\ KeyNamesOne'
Switches == enabled' # enabled /\ appts' = appts

AgendaSpec == AgendaInit /\ [][AgendaStep \/ Switches]_<<appts, enabled>>
=============================================================================
