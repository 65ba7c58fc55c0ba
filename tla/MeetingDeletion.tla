--------------------------- MODULE MeetingDeletion ---------------------------
(***************************************************************************)
(* Deleting a meeting for good (src/meetings/deletion.ts, maintenance.ts   *)
(* and the repository meetings/deletion.ts): the row is reserved, the      *)
(* sweep waits until no signed PUT URL can be alive, empties the prefix in *)
(* the bucket, verifies that it is empty and deletes the row. Handlers     *)
(* that sign URLs, clients that PUT and several sweeps run meanwhile.      *)
(*                                                                         *)
(* A timestamp is the number of ticks until it (0: now, past or NULL), so  *)
(* Tick counts all of them down, and GREATEST is the greater number.       *)
(***************************************************************************)
EXTENDS Naturals

CONSTANTS OriginalPuts,  \* the upload-init requests, one signed URL each
          ResultPuts,    \* the result/init requests of one artifact row, one URL each
          Sweeps,        \* processes that run the purge
          PutTtl,        \* ticks a signed URL lives
          PurgeLease,    \* PURGE_LEASE_MS, in ticks
          MaxPurges,     \* MAX_PURGE_ATTEMPTS (5 in the source)
          NoPut

ASSUME PutsAssumption   == OriginalPuts \intersect ResultPuts = {}
                           /\ NoPut \notin OriginalPuts \union ResultPuts
ASSUME TimesAssumption  == PutTtl \in Nat \ {0} /\ PurgeLease \in Nat \ {0}
ASSUME PurgesAssumption == MaxPurges \in Nat \ {0}

VARIABLES row,      \* the row of meetings
          artifact, \* the row of meeting_result_uploads
          put,      \* the handlers that sign, and then their URLs
          bucket,   \* what the meeting's prefix holds: key -> the PUT that wrote it
          sweep,    \* the sweeps at work
          recorded  \* the URLs the deadline counted when the row left 'live'

vars == <<row, artifact, put, bucket, sweep, recorded>>

Puts == OriginalPuts \union ResultPuts
Keys == {"original", "artifact"}
Key(u) == IF u \in OriginalPuts THEN "original" ELSE "artifact"

Larger(a, b) == IF a >= b THEN a ELSE b
Sooner(t) == IF t = 0 THEN 0 ELSE t - 1

IdleSweep == [pc |-> "idle", page |-> {}]
Empty(b) == \A k \in Keys : b[k] = NoPut
Reserved == row.state \in {"deleting", "delete_failed"}

NewRow == [state |-> "live", notBefore |-> 0, attempts |-> 0, lease |-> 0, putExpires |-> 0]
NoArtifact == [state |-> "none", putExpires |-> 0]

Init ==
  /\ row = NewRow
  /\ artifact = NoArtifact
  /\ put = [u \in Puts |-> [pc |-> "idle", left |-> 0]]
  /\ bucket = [k \in Keys |-> NoPut]
  /\ sweep = [w \in Sweeps |-> IdleSweep]
  /\ recorded = {}

-----------------------------------------------------------------------------
(* Signing a PUT: upload-init and result/init. *)

\* Both read deletion_state first.
CheckWritable(u) ==
  /\ put[u].pc = "idle" /\ row.state = "live"
  /\ put' = [put EXCEPT ![u].pc = "checked"]
  /\ UNCHANGED <<row, artifact, bucket, sweep, recorded>>

SignPut(u) ==
  /\ put[u].pc = "checked"
  /\ put' = [put EXCEPT ![u] = [pc |-> "signed", left |-> PutTtl]]
  /\ UNCHANGED <<row, artifact, bucket, sweep, recorded>>

\* Mutant: the last expiry written wins.
OriginalExpiry_last(r, u) == [r EXCEPT !.putExpires = put[u].left]

\* setOriginalPutExpiry: GREATEST, for a row in any state; no row, no update.
OriginalExpiry(r, u) == [r EXCEPT !.putExpires = Larger(@, put[u].left)]

IssueOriginal(u) ==
  /\ u \in OriginalPuts /\ put[u].pc = "signed"
  /\ row' = IF row.state = "gone" THEN row ELSE OriginalExpiry(row, u)
  /\ put' = [put EXCEPT ![u].pc = "issued"]
  /\ UNCHANGED <<artifact, bucket, sweep, recorded>>

\* initResultUpload needs the meeting (foreign key). Of a row that is already verified or
\* ingested it changes nothing, and the URL is answered all the same.
IssueResult(u) ==
  /\ u \in ResultPuts /\ put[u].pc = "signed" /\ row.state # "gone"
  /\ artifact' = IF artifact.state = "verified" THEN artifact
                 ELSE [state |-> "declared", putExpires |-> put[u].left]
  /\ put' = [put EXCEPT ![u].pc = "issued"]
  /\ UNCHANGED <<row, bucket, sweep, recorded>>

HandlerDies(u) ==
  /\ put[u].pc \in {"checked", "signed"}
  /\ put' = [put EXCEPT ![u] = [pc |-> "lost", left |-> 0]]
  /\ UNCHANGED <<row, artifact, bucket, sweep, recorded>>

\* The bucket honours a URL until it expires and asks nobody.
Put(u) ==
  /\ put[u].pc = "issued" /\ put[u].left > 0
  /\ bucket' = [bucket EXCEPT ![Key(u)] = u]
  /\ UNCHANGED <<row, artifact, put, sweep, recorded>>

\* result/complete verifies the object it finds, and rejects one that does not parse.
Verify ==
  /\ row.state # "gone" /\ bucket["artifact"] # NoPut
  /\ \/ artifact.state = "declared" /\ artifact' = [artifact EXCEPT !.state = "verified"]
     \/ artifact.state = "verified" /\ artifact' = [artifact EXCEPT !.state = "declared"]
  /\ UNCHANGED <<row, put, bucket, sweep, recorded>>

-----------------------------------------------------------------------------
(* reserveDeletion: one UPDATE. *)

\* deletion_not_before, the latest expiry the two tables know of.
Deadline == Larger(row.putExpires, artifact.putExpires)

\* Every URL of the recording that was answered is counted. Of a result initResultUpload keeps the
\* last expiry only: a URL answered for it counts unless it outlives the deadline.
Counted ==
  {u \in Puts : put[u].pc = "issued" /\ (u \in ResultPuts => put[u].left <= Deadline)}

ReserveDeletion ==
  /\ row.state \in {"live", "delete_failed"}
  /\ row' = [row EXCEPT !.state = "deleting", !.attempts = 0, !.lease = 0, !.notBefore = Deadline]
  /\ recorded' = IF row.state = "live" THEN Counted ELSE recorded
  /\ UNCHANGED <<artifact, put, bucket, sweep>>

-----------------------------------------------------------------------------
(* The sweep: claim, empty the prefix, verify, delete the row. *)

SweepAt(w, pc) == sweep[w].pc = pc
SweepTo(w, pc) == sweep' = [sweep EXCEPT ![w].pc = pc, ![w].page = {}]

\* Mutant: a purge that failed is not taken up again.
Due_deletingOnly == row.state = "deleting" /\ row.notBefore = 0
Due == Reserved /\ row.notBefore = 0

\* Mutant: the automatic attempts have no limit.
Claim_unlimited(w) ==
  /\ SweepAt(w, "idle")
  /\ Due /\ row.lease = 0
  /\ row' = [row EXCEPT !.lease = PurgeLease, !.attempts = @ + 1]
  /\ sweep' = [sweep EXCEPT ![w] = [pc |-> "list", page |-> {}]]
  /\ UNCHANGED <<artifact, put, bucket, recorded>>

Claim(w) ==
  /\ SweepAt(w, "idle")
  /\ Due /\ row.attempts < MaxPurges /\ row.lease = 0
  /\ row' = [row EXCEPT !.lease = PurgeLease, !.attempts = @ + 1]
  /\ sweep' = [sweep EXCEPT ![w] = [pc |-> "list", page |-> {}]]
  /\ UNCHANGED <<artifact, put, bucket, recorded>>

\* A page of what is there; nothing left, or no page left to ask for, ends the loop.
ListPrefix(w) ==
  /\ SweepAt(w, "list")
  /\ \/ \E page \in (SUBSET {k \in Keys : bucket[k] # NoPut}) \ {{}} :
          sweep' = [sweep EXCEPT ![w].pc = "delete", ![w].page = page]
     \/ SweepTo(w, "verify")
  /\ UNCHANGED <<row, artifact, put, bucket, recorded>>

\* Some of the page may not be deleted.
DeleteMany(w) ==
  /\ SweepAt(w, "delete")
  /\ \E deleted \in SUBSET sweep[w].page :
       /\ bucket' = [k \in Keys |-> IF k \in deleted THEN NoPut ELSE bucket[k]]
       /\ SweepTo(w, IF deleted = sweep[w].page THEN "list" ELSE "fail")
  /\ UNCHANGED <<row, artifact, put, recorded>>

VerifyEmpty(w) ==
  /\ SweepAt(w, "verify")
  /\ SweepTo(w, IF Empty(bucket) THEN "row" ELSE "fail")
  /\ UNCHANGED <<row, artifact, put, bucket, recorded>>

StorageFails(w) ==
  /\ sweep[w].pc \in {"list", "delete", "verify"}
  /\ SweepTo(w, "fail")
  /\ UNCHANGED <<row, artifact, put, bucket, recorded>>

\* deleteMeetingRow repeats the deadline, not the lease. The uploads go with the row.
DeleteRow(w) ==
  /\ SweepAt(w, "row")
  /\ IF Due
     THEN /\ row' = [NewRow EXCEPT !.state = "gone"]
          /\ artifact' = NoArtifact
          /\ sweep' = [sweep EXCEPT ![w] = IdleSweep]
     ELSE SweepTo(w, "fail") /\ UNCHANGED <<row, artifact>>
  /\ UNCHANGED <<put, bucket, recorded>>

\* markDeleteFailed: by whoever gets here, and it lets the lease go, whosever it is.
MarkDeleteFailed(w) ==
  /\ SweepAt(w, "fail")
  /\ row' = IF Reserved THEN [row EXCEPT !.state = "delete_failed", !.lease = 0] ELSE row
  /\ sweep' = [sweep EXCEPT ![w] = IdleSweep]
  /\ UNCHANGED <<artifact, put, bucket, recorded>>

\* A deployment or a restart in the middle of a sweep, or a database that does not answer.
SweepDies(w) ==
  /\ ~SweepAt(w, "idle")
  /\ sweep' = [sweep EXCEPT ![w] = IdleSweep]
  /\ UNCHANGED <<row, artifact, put, bucket, recorded>>

-----------------------------------------------------------------------------
\* One tick less to every instant that is still to come.
Tick ==
  /\ row' = [row EXCEPT !.notBefore = Sooner(@), !.lease = Sooner(@), !.putExpires = Sooner(@)]
  /\ artifact' = [artifact EXCEPT !.putExpires = Sooner(@)]
  /\ put' = [u \in Puts |-> [put[u] EXCEPT !.left = Sooner(@)]]
  /\ UNCHANGED <<bucket, sweep, recorded>>

Upload(u) ==
  CheckWritable(u) \/ SignPut(u) \/ IssueOriginal(u) \/ IssueResult(u) \/ HandlerDies(u) \/ Put(u)

Work(w) ==
  Claim(w) \/ ListPrefix(w) \/ DeleteMany(w) \/ VerifyEmpty(w) \/ DeleteRow(w) \/ MarkDeleteFailed(w)

Next ==
  \/ \E u \in Puts : Upload(u)
  \/ \E w \in Sweeps : Work(w) \/ StorageFails(w) \/ SweepDies(w)
  \/ Verify \/ ReserveDeletion \/ Tick

Spec == Init /\ [][Next]_vars

\* Time passes, the purge runs on its interval, and a sweep that lives goes on.
Fairness == WF_vars(Tick) /\ \A w \in Sweeps : WF_vars(Work(w))
FairSpec == Spec /\ Fairness

\* What is waited for can be done: a sweep at work has a next step, one that is idle can claim what
\* is due, and time passes as long as an instant is still to come.
CanClaim(w) == SweepAt(w, "idle") /\ Due /\ row.attempts < MaxPurges /\ row.lease = 0
StepsAreEnabled ==
  /\ \A w \in Sweeps : ~SweepAt(w, "idle") \/ CanClaim(w) => ENABLED <<Work(w)>>_vars
  /\ row.notBefore > 0 \/ row.lease > 0 \/ (\E u \in Puts : put[u].left > 0) => ENABLED <<Tick>>_vars

-----------------------------------------------------------------------------
(* Properties *)

\* The rows hold values of their columns, every handler and sweep a step of its code.
TypeOK ==
  /\ row \in [state : {"live", "deleting", "delete_failed", "gone"}, notBefore : 0 .. PutTtl,
              attempts : 0 .. MaxPurges, lease : 0 .. PurgeLease, putExpires : 0 .. PutTtl]
  /\ artifact \in [state : {"none", "declared", "verified"}, putExpires : 0 .. PutTtl]
  /\ put \in [Puts -> [pc : {"idle", "checked", "signed", "issued", "lost"}, left : 0 .. PutTtl]]
  /\ bucket \in [Keys -> Puts \union {NoPut}]
  /\ sweep \in [Sweeps -> [pc : {"idle", "list", "delete", "verify", "row", "fail"},
                          page : SUBSET Keys]]
  /\ recorded \subseteq Puts

\* deletion.ts, its reason to be: once the row is gone, no recording and no result uploaded with
\* a URL the deadline of the reservation counted is in the bucket, and none comes back, whatever
\* sweeps overlap, die, fail or are asked for again.
NothingRecorded == \A k \in Keys : bucket[k] \notin recorded
RecordedStaysDeleted == row.state = "gone" => NothingRecorded

\* MAX_PURGE_ATTEMPTS: without anybody asking again, a purge that fails or dies is taken up
\* until the meeting is gone or its automatic attempts are spent.
PurgeIsRetried ==
  <>[][~ReserveDeletion]_vars =>
    (Reserved ~> (row.state = "gone" \/ row.attempts = MaxPurges))

-----------------------------------------------------------------------------
(* The inductive invariant RecordedStaysDeleted follows from.              *)

\* original_put_expires_at covers every original URL that was answered, the latest of them too.
ExpiryCoversIssued ==
  row.state # "gone" =>
    \A u \in OriginalPuts : put[u].pc = "issued" => put[u].left <= row.putExpires

\* deletion_not_before covers what was recorded; once a purge failed the deadline has passed, so
\* a second request, whose deadline may be an earlier one, has nothing to wait for.
DeadlineCoversRecorded ==
  /\ \A u \in recorded : put[u].pc = "issued"
  /\ Reserved => \A u \in recorded : put[u].left <= row.notBefore
  /\ row.state = "delete_failed" => \A u \in recorded : put[u].left = 0

\* A sweep works on a reserved row, after the deadline.
SweepsAreLate ==
  /\ \A w \in Sweeps : ~SweepAt(w, "idle") =>
       row.state # "live" /\ \A u \in recorded : put[u].left = 0
  /\ row.state = "gone" => \A u \in recorded : put[u].left = 0

\* Once a sweep found the prefix empty, what was recorded is not in it.
VerifiedIsEmpty == \A w \in Sweeps : SweepAt(w, "row") => NothingRecorded

DInv ==
  /\ TypeOK
  /\ ExpiryCoversIssued
  /\ DeadlineCoversRecorded
  /\ SweepsAreLate
  /\ VerifiedIsEmpty
  /\ RecordedStaysDeleted

-----------------------------------------------------------------------------
(* What comments of the repository say, and the code does not keep. *)

\* deletion.ts: no object is left in the bucket once its row is deleted.
NoOrphan == row.state = "gone" => Empty(bucket)
=============================================================================
