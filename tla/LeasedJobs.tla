----------------------------- MODULE LeasedJobs -----------------------------
(***************************************************************************)
(* What the job queue of the meetings pipeline promises, whatever the      *)
(* handlers around it do: a job waits, is held by one credential for one   *)
(* attempt, goes back to wait or ends, and what has ended never moves      *)
(* again. One step may move several jobs (a sweep, a cancellation, a       *)
(* completion that enqueues the next stage).                               *)
(***************************************************************************)
EXTENDS Naturals

CONSTANTS JobIds, Holders, NoHolder, AttemptLimit

VARIABLES phase,    \* "absent", "waiting", "held" or how the job ended
          attempt,  \* attempts handed out so far
          holder    \* the credential of the current or last attempt, or NoHolder

queue == <<phase, attempt, holder>>

Ended == {"succeeded", "failed", "cancelled", "abandoned"}

QueueInit ==
  /\ phase = [j \in JobIds |-> "absent"]
  /\ attempt = [j \in JobIds |-> 0]
  /\ holder = [j \in JobIds |-> NoHolder]

Keeps(j) == attempt'[j] = attempt[j] /\ holder'[j] = holder[j]

Enqueue(j) == phase[j] = "absent" /\ phase'[j] = "waiting" /\ Keeps(j)

Take(j) ==
  /\ phase[j] = "waiting" /\ phase'[j] = "held"
  /\ attempt'[j] = attempt[j] + 1 /\ attempt'[j] <= AttemptLimit
  /\ holder'[j] \in Holders

\* Only a job with attempts left is given back; the next holder starts from nobody.
GiveBack(j) ==
  /\ phase[j] = "held" /\ phase'[j] = "waiting"
  /\ attempt'[j] = attempt[j] /\ attempt[j] < AttemptLimit
  /\ holder'[j] = NoHolder

\* 'failed' and 'abandoned' are for jobs without attempts left.
End(j) ==
  /\ phase[j] = "held" /\ phase'[j] \in Ended
  /\ phase'[j] \in {"failed", "abandoned"} => attempt[j] = AttemptLimit
  /\ Keeps(j)

Withdraw(j) == phase[j] = "waiting" /\ phase'[j] = "cancelled" /\ Keeps(j)

Move(j) == Enqueue(j) \/ Take(j) \/ GiveBack(j) \/ End(j) \/ Withdraw(j)
Stay(j) == phase'[j] = phase[j] /\ Keeps(j)

QueueSpec == QueueInit /\ [][\A j \in JobIds : Move(j) \/ Stay(j)]_queue
=============================================================================
