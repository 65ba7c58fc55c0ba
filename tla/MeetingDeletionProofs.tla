------------------------ MODULE MeetingDeletionProofs ------------------------
(***************************************************************************)
(* Proofs about MeetingDeletion, for any number of URLs, sweeps, attempts  *)
(* and ticks: a recording whose URL the reservation counted never comes    *)
(* back. Its inductive invariant follows the deadline from the expiry of   *)
(* the URLs, through the reservation, to the listing that found nothing.   *)
(***************************************************************************)
EXTENDS MeetingDeletion, TLAPS, FiniteSetTheorems, WellFoundedInduction

RowType == [state : {"live", "deleting", "delete_failed", "gone"}, notBefore : 0 .. PutTtl,
            attempts : 0 .. MaxPurges, lease : 0 .. PurgeLease, putExpires : 0 .. PutTtl]
ArtifactType == [state : {"none", "declared", "verified"}, putExpires : 0 .. PutTtl]
PutType == [pc : {"idle", "checked", "signed", "issued", "lost"}, left : 0 .. PutTtl]
SweepType == [pc : {"idle", "list", "delete", "verify", "row", "fail"},
              page : SUBSET Keys]

\* Instants are bounded naturals: the later of two is one of them, and a tick keeps them.
LEMMA Instants ==
  ASSUME NEW n \in Nat
  PROVE  /\ \A a, b \in 0 .. n : /\ Larger(a, b) \in 0 .. n
                                 /\ Larger(a, b) >= a /\ Larger(a, b) >= b
         /\ \A a \in 0 .. n : Sooner(a) \in 0 .. n /\ Sooner(a) <= a
         /\ \A a, b \in 0 .. n : a <= b => Sooner(a) <= Sooner(b)
BY DEF Larger, Sooner

\* The UPDATEs of the deletion leave a row of meetings.
LEMMA RowChanges ==
  ASSUME NEW r \in RowType
  PROVE  /\ \A t \in 0 .. PurgeLease, a \in 0 .. MaxPurges :
              [r EXCEPT !.lease = t, !.attempts = a] \in RowType
         /\ \A t \in 0 .. PurgeLease : [r EXCEPT !.state = "delete_failed", !.lease = t] \in RowType
         /\ \A t \in 0 .. PurgeLease, a \in 0 .. MaxPurges, n \in 0 .. PutTtl :
              [r EXCEPT !.state = "deleting", !.attempts = a, !.lease = t, !.notBefore = n] \in RowType
<1>1. ASSUME NEW t \in 0 .. PurgeLease, NEW a \in 0 .. MaxPurges
      PROVE  [r EXCEPT !.lease = t, !.attempts = a] \in RowType
  BY DEF RowType
<1>2. ASSUME NEW t \in 0 .. PurgeLease
      PROVE  [r EXCEPT !.state = "delete_failed", !.lease = t] \in RowType
  BY DEF RowType
<1>3. ASSUME NEW t \in 0 .. PurgeLease, NEW a \in 0 .. MaxPurges, NEW n \in 0 .. PutTtl
      PROVE  [r EXCEPT !.state = "deleting", !.attempts = a, !.lease = t, !.notBefore = n] \in RowType
  BY DEF RowType
<1> QED BY <1>1, <1>2, <1>3

\* Moving a sweep on leaves a sweep, and the other sweeps where they are.
LEMMA SweepMoves ==
  ASSUME TypeOK, NEW w \in Sweeps,
         NEW pc \in {"idle", "list", "delete", "verify", "row", "fail"}, SweepTo(w, pc)
  PROVE  /\ sweep' \in [Sweeps -> SweepType]
         /\ \A v \in Sweeps : sweep'[v].pc = IF v = w THEN pc ELSE sweep[v].pc
BY DEF TypeOK, SweepTo, SweepType

\* The tables are empty, and nobody is at work, at the start.
LEMMA TypeInit == Init => TypeOK
BY TimesAssumption, PurgesAssumption DEF Init, NewRow, NoArtifact, TypeOK, IdleSweep, Puts

\* Every step keeps the tables typed.
LEMMA TypeStep == TypeOK /\ [Next]_vars => TypeOK'
<1> SUFFICES ASSUME TypeOK, [Next]_vars PROVE TypeOK'
  OBVIOUS
<1> USE TimesAssumption, PurgesAssumption
<1>0. /\ row \in RowType /\ artifact \in ArtifactType /\ put \in [Puts -> PutType]
      /\ sweep \in [Sweeps -> SweepType] /\ IdleSweep \in SweepType
      /\ bucket \in [Keys -> Puts \union {NoPut}] /\ recorded \subseteq Puts
  BY DEF TypeOK, RowType, ArtifactType, PutType, SweepType, IdleSweep, Puts
<1>1. ASSUME row' \in RowType, artifact' \in ArtifactType, put' \in [Puts -> PutType],
             sweep' \in [Sweeps -> SweepType], bucket' \in [Keys -> Puts \union {NoPut}],
             recorded' \subseteq Puts
      PROVE  TypeOK'
  BY <1>1 DEF TypeOK, RowType, ArtifactType, PutType, SweepType
<1>2. CASE UNCHANGED vars
  BY <1>0, <1>1, <1>2 DEF vars
<1>3. ASSUME NEW u \in Puts, CheckWritable(u) \/ SignPut(u) \/ HandlerDies(u) PROVE TypeOK'
  <2>1. put' \in [Puts -> PutType]
    BY <1>0, <1>3 DEF CheckWritable, SignPut, HandlerDies, PutType
  <2> QED BY <2>1, <1>0, <1>1, <1>3 DEF CheckWritable, SignPut, HandlerDies
<1>4. ASSUME NEW u \in Puts, IssueOriginal(u) PROVE TypeOK'
  <2>1. put[u].left \in 0 .. PutTtl /\ row.putExpires \in 0 .. PutTtl
    BY <1>0 DEF PutType, RowType
  <2>2. Larger(row.putExpires, put[u].left) \in 0 .. PutTtl
    BY <2>1, Instants
  <2>3. row' \in RowType
    BY <1>0, <1>4, <2>2 DEF IssueOriginal, OriginalExpiry, RowType
  <2>4. put' \in [Puts -> PutType]
    BY <1>0, <1>4 DEF IssueOriginal, PutType
  <2> QED BY <2>3, <2>4, <1>0, <1>1, <1>4 DEF IssueOriginal
<1>5. ASSUME NEW u \in Puts, IssueResult(u) PROVE TypeOK'
  <2>1. artifact' \in ArtifactType
    BY <1>0, <1>5 DEF IssueResult, ArtifactType, PutType
  <2>2. put' \in [Puts -> PutType]
    BY <1>0, <1>5 DEF IssueResult, PutType
  <2> QED BY <2>1, <2>2, <1>0, <1>1, <1>5 DEF IssueResult
<1>6. ASSUME NEW u \in Puts, Put(u) PROVE TypeOK'
  <2>1. bucket' \in [Keys -> Puts \union {NoPut}]
    BY <1>0, <1>6 DEF Put
  <2> QED BY <2>1, <1>0, <1>1, <1>6 DEF Put
<1>7. CASE Verify
  <2>1. artifact' \in ArtifactType
    BY <1>0, <1>7 DEF Verify, ArtifactType
  <2> QED BY <2>1, <1>0, <1>1, <1>7 DEF Verify
<1>8. CASE ReserveDeletion
  <2>1. Deadline \in 0 .. PutTtl
    BY <1>0, Instants DEF Deadline, RowType, ArtifactType
  <2>2. row' \in RowType
    BY <2>1, <1>0, <1>8, 0 \in 0 .. PurgeLease, 0 \in 0 .. MaxPurges, RowChanges DEF ReserveDeletion
  <2>3. recorded' \subseteq Puts
    BY <1>0, <1>8 DEF ReserveDeletion, Counted
  <2> QED BY <2>2, <2>3, <1>0, <1>1, <1>8 DEF ReserveDeletion
<1>9. ASSUME NEW w \in Sweeps, Claim(w) PROVE TypeOK'
  <2>0. row.attempts + 1 \in 0 .. MaxPurges /\ PurgeLease \in 0 .. PurgeLease
    BY <1>0, <1>9 DEF Claim, RowType
  <2>1. row' \in RowType
    BY <2>0, <1>0, <1>9, RowChanges DEF Claim
  <2>2. sweep' \in [Sweeps -> SweepType]
    BY <1>0, <1>9 DEF Claim, SweepType
  <2> QED BY <2>1, <2>2, <1>0, <1>1, <1>9 DEF Claim
<1>10. ASSUME NEW w \in Sweeps, ListPrefix(w) PROVE TypeOK'
  <2>1. CASE SweepTo(w, "verify")
    BY <2>1, <1>0, <1>1, <1>10, SweepMoves DEF ListPrefix
  <2>2. ASSUME NEW page \in SUBSET Keys, sweep' = [sweep EXCEPT ![w].pc = "delete", ![w].page = page]
        PROVE  sweep' \in [Sweeps -> SweepType]
    BY <2>2, <1>0 DEF SweepType
  <2> QED BY <2>1, <2>2, <1>0, <1>1, <1>10 DEF ListPrefix
<1>11. ASSUME NEW w \in Sweeps, DeleteMany(w) PROVE TypeOK'
  <2>1. PICK deleted \in SUBSET sweep[w].page :
          /\ bucket' = [k \in Keys |-> IF k \in deleted THEN NoPut ELSE bucket[k]]
          /\ SweepTo(w, IF deleted = sweep[w].page THEN "list" ELSE "fail")
    BY <1>11 DEF DeleteMany
  <2>2. bucket' \in [Keys -> Puts \union {NoPut}]
    BY <2>1, <1>0
  <2>3. sweep' \in [Sweeps -> SweepType]
    BY <2>1, SweepMoves
  <2> QED BY <2>2, <2>3, <1>0, <1>1, <1>11 DEF DeleteMany
<1>12. ASSUME NEW w \in Sweeps, VerifyEmpty(w) \/ StorageFails(w) PROVE TypeOK'
  <2>1. sweep' \in [Sweeps -> SweepType]
    BY <1>12, SweepMoves DEF VerifyEmpty, StorageFails
  <2> QED BY <2>1, <1>0, <1>1, <1>12 DEF VerifyEmpty, StorageFails
<1>13. ASSUME NEW w \in Sweeps, DeleteRow(w) PROVE TypeOK'
  <2>1. row' \in RowType /\ artifact' \in ArtifactType
    BY <1>0, <1>13 DEF DeleteRow, NewRow, NoArtifact, RowType, ArtifactType
  <2>2. sweep' \in [Sweeps -> SweepType]
    BY <1>0, <1>13, SweepMoves DEF DeleteRow
  <2> QED BY <2>1, <2>2, <1>0, <1>1, <1>13 DEF DeleteRow
<1>14. ASSUME NEW w \in Sweeps, MarkDeleteFailed(w) \/ SweepDies(w) PROVE TypeOK'
  <2>1. row' \in RowType
    BY <1>0, <1>14, 0 \in 0 .. PurgeLease, RowChanges DEF MarkDeleteFailed, SweepDies
  <2>2. sweep' \in [Sweeps -> SweepType]
    BY <1>0, <1>14 DEF MarkDeleteFailed, SweepDies
  <2> QED BY <2>1, <2>2, <1>0, <1>1, <1>14 DEF MarkDeleteFailed, SweepDies
<1>15. CASE Tick
  <2>1. row' \in RowType
    BY <1>0, <1>15, Instants DEF Tick, RowType
  <2>2. artifact' \in ArtifactType
    BY <1>0, <1>15, Instants DEF Tick, ArtifactType
  <2>3. put' \in [Puts -> PutType]
    BY <1>0, <1>15, Instants DEF Tick, PutType
  <2>4. sweep' \in [Sweeps -> SweepType]
    BY <1>0, <1>15, Instants DEF Tick, SweepType
  <2> QED BY <2>1, <2>2, <2>3, <2>4, <1>0, <1>1, <1>15 DEF Tick
<1> QED
  BY <1>2, <1>3, <1>4, <1>5, <1>6, <1>7, <1>8, <1>9, <1>10, <1>11, <1>12, <1>13, <1>14, <1>15
     DEF Next, Upload, Work

-----------------------------------------------------------------------------
\* What the invariant says of the fields it speaks of, types included.
LEMMA Fields ==
  ASSUME TypeOK
  PROVE  /\ \A u \in Puts : put[u].left \in 0 .. PutTtl
         /\ row.putExpires \in 0 .. PutTtl /\ row.notBefore \in 0 .. PutTtl
         /\ artifact.putExpires \in 0 .. PutTtl
         /\ recorded \subseteq Puts /\ OriginalPuts \subseteq Puts
         /\ row \in RowType /\ put \in [Puts -> PutType] /\ sweep \in [Sweeps -> SweepType]
         /\ bucket \in [Keys -> Puts \union {NoPut}] /\ NoPut \notin recorded
BY PutsAssumption, TimesAssumption DEF TypeOK, Puts, RowType, PutType, SweepType

\* A request for a URL moves its own handler only, and no counted URL is one of those.
LEMMA UploadStep ==
  ASSUME DInv, NEW u \in Puts, Upload(u)
  PROVE  /\ ExpiryCoversIssued' /\ DeadlineCoversRecorded' /\ SweepsAreLate'
         /\ VerifiedIsEmpty' /\ RecordedStaysDeleted'
<1> USE Fields DEF DInv
<1>1. ASSUME CheckWritable(u) \/ SignPut(u) \/ HandlerDies(u) \/ IssueOriginal(u) \/ IssueResult(u)
      PROVE  /\ \A v \in recorded : put'[v] = put[v]
             /\ \A v \in OriginalPuts : put'[v].pc = "issued" =>
                  put'[v].left = put[v].left /\ (put[v].pc = "issued" \/ (v = u /\ IssueOriginal(u)))
             /\ row'.state = row.state /\ row'.notBefore = row.notBefore
             /\ recorded' = recorded /\ sweep' = sweep /\ bucket' = bucket
             /\ ~IssueOriginal(u) => row'.putExpires = row.putExpires
  <2>1. u \notin recorded
    BY <1>1 DEF CheckWritable, SignPut, HandlerDies, IssueOriginal, IssueResult, DeadlineCoversRecorded
  <2>2. \A v \in Puts : v # u => put'[v] = put[v]
    BY <1>1 DEF CheckWritable, SignPut, HandlerDies, IssueOriginal, IssueResult
  <2>3. u \in OriginalPuts /\ put'[u].pc = "issued" => IssueOriginal(u) /\ put'[u].left = put[u].left
    BY <1>1, PutsAssumption DEF CheckWritable, SignPut, HandlerDies, IssueOriginal, IssueResult, PutType
  <2>4. /\ row'.state = row.state /\ row'.notBefore = row.notBefore
        /\ recorded' = recorded /\ sweep' = sweep /\ bucket' = bucket
        /\ ~IssueOriginal(u) => row'.putExpires = row.putExpires
    BY <1>1 DEF CheckWritable, SignPut, HandlerDies, IssueOriginal, IssueResult, OriginalExpiry, RowType
  <2> QED BY <2>1, <2>2, <2>3, <2>4
<1>2. ASSUME CheckWritable(u) \/ SignPut(u) \/ HandlerDies(u) \/ IssueOriginal(u) \/ IssueResult(u)
      PROVE  /\ ExpiryCoversIssued' /\ DeadlineCoversRecorded' /\ SweepsAreLate'
             /\ VerifiedIsEmpty' /\ RecordedStaysDeleted'
  <2>1. ASSUME IssueOriginal(u), row.state # "gone"
        PROVE  row'.putExpires >= row.putExpires /\ row'.putExpires >= put[u].left
    <3>1. row'.putExpires = Larger(row.putExpires, put[u].left)
      BY <2>1 DEF IssueOriginal, OriginalExpiry, RowType
    <3> QED BY <3>1, Instants, TimesAssumption
  <2>2. ASSUME NEW v \in OriginalPuts, put'[v].pc = "issued", row'.state # "gone"
        PROVE  put'[v].left <= row'.putExpires
    <3>1. put[v].pc = "issued" => put[v].left <= row.putExpires
      BY <2>2, <1>1, <1>2 DEF ExpiryCoversIssued
    <3>2. put'[v].left = put[v].left /\ (put[v].pc = "issued" \/ (v = u /\ IssueOriginal(u)))
      BY <1>1, <1>2, <2>2
    <3>3. CASE IssueOriginal(u)
      <4>1. row'.putExpires >= row.putExpires /\ row'.putExpires >= put[u].left
        BY <1>1, <1>2, <2>1, <2>2, <3>3
      <4>2. row'.putExpires \in Nat
        BY <2>1, <3>3, <1>1, <1>2, <2>2, Instants, TimesAssumption DEF IssueOriginal, OriginalExpiry, RowType
      <4> QED BY <4>1, <4>2, <3>1, <3>2
    <3>4. CASE ~IssueOriginal(u)
      BY <3>4, <3>1, <3>2, <1>1, <1>2
    <3> QED BY <3>3, <3>4
  <2>3. ExpiryCoversIssued'
    BY <2>2 DEF ExpiryCoversIssued
  <2> QED BY <2>3, <1>1, <1>2
           DEF DeadlineCoversRecorded, SweepsAreLate, VerifiedIsEmpty, RecordedStaysDeleted, NothingRecorded, Reserved, SweepAt
<1>3. CASE Put(u)
  <2>1. /\ row' = row /\ put' = put /\ sweep' = sweep /\ recorded' = recorded
        /\ \A k \in Keys : bucket'[k] = bucket[k] \/ (bucket'[k] = u /\ put[u].left > 0)
    BY <1>3 DEF Put, Key, Keys
  <2> QED BY <2>1 DEF ExpiryCoversIssued, DeadlineCoversRecorded, SweepsAreLate, VerifiedIsEmpty,
                      RecordedStaysDeleted, NothingRecorded, Reserved, SweepAt
<1> QED BY <1>2, <1>3 DEF Upload

\* The reservation covers what it counts; a later one comes when those URLs have expired.
LEMMA ReserveStep ==
  ASSUME DInv, ReserveDeletion
  PROVE  /\ ExpiryCoversIssued' /\ DeadlineCoversRecorded' /\ SweepsAreLate'
         /\ VerifiedIsEmpty' /\ RecordedStaysDeleted'
<1> USE Fields DEF DInv
<1>1. /\ row'.state = "deleting" /\ row'.notBefore = Deadline /\ row'.putExpires = row.putExpires
      /\ put' = put /\ bucket' = bucket /\ sweep' = sweep /\ row.state # "gone"
  BY DEF ReserveDeletion, RowType
<1>2. Deadline \in Nat /\ Deadline >= row.putExpires
  <2>1. row.putExpires \in 0 .. PutTtl /\ artifact.putExpires \in 0 .. PutTtl
    OBVIOUS
  <2> QED BY <2>1, TimesAssumption DEF Deadline, Larger
<1>3. \A u \in recorded' : put[u].pc = "issued" /\ put[u].left <= Deadline
  <2>1. ASSUME NEW u \in recorded', row.state = "live"
        PROVE  put[u].pc = "issued" /\ put[u].left <= Deadline
    <3>1. u \in Puts /\ put[u].pc = "issued" /\ (u \in ResultPuts => put[u].left <= Deadline)
      BY <2>1 DEF ReserveDeletion, Counted
    <3>2. u \in OriginalPuts => put[u].left <= row.putExpires
      BY <2>1, <3>1 DEF ExpiryCoversIssued
    <3>3. put[u].left \in 0 .. PutTtl /\ row.putExpires \in 0 .. PutTtl
      BY <3>1
    <3> QED BY <1>2, <3>1, <3>2, <3>3, TimesAssumption DEF Puts
  <2>2. ASSUME NEW u \in recorded', row.state = "delete_failed"
        PROVE  put[u].pc = "issued" /\ put[u].left <= Deadline
    BY <1>2, <2>2 DEF ReserveDeletion, DeadlineCoversRecorded
  <2> QED BY <2>1, <2>2 DEF ReserveDeletion
<1>4. DeadlineCoversRecorded'
  BY <1>1, <1>2, <1>3 DEF DeadlineCoversRecorded
<1>5. row.state = "live" => \A w \in Sweeps : SweepAt(w, "idle")
  BY DEF SweepsAreLate
<1>6. row.state # "live" => recorded' = recorded
  BY DEF ReserveDeletion
<1> QED BY <1>1, <1>4, <1>5, <1>6
        DEF ExpiryCoversIssued, SweepsAreLate, VerifiedIsEmpty, RecordedStaysDeleted, NothingRecorded, SweepAt

\* A sweep begins after the deadline, verifies before it deletes the row, and adds no object.
LEMMA SweepStep ==
  ASSUME DInv, NEW w \in Sweeps, Work(w) \/ StorageFails(w) \/ SweepDies(w)
  PROVE  /\ ExpiryCoversIssued' /\ DeadlineCoversRecorded' /\ SweepsAreLate'
         /\ VerifiedIsEmpty' /\ RecordedStaysDeleted'
<1> USE Fields DEF DInv
<1>1. put' = put /\ recorded' = recorded
  BY DEF Work, StorageFails, SweepDies, Claim, ListPrefix, DeleteMany, VerifyEmpty, DeleteRow, MarkDeleteFailed
<1>2. /\ row'.state = "gone" \/ (row'.putExpires = row.putExpires /\ row'.notBefore = row.notBefore)
      /\ row'.state = row.state \/ (DeleteRow(w) /\ row'.state = "gone")
           \/ (MarkDeleteFailed(w) /\ Reserved /\ row'.state = "delete_failed")
  BY DEF Work, StorageFails, SweepDies, Claim, ListPrefix, DeleteMany, VerifyEmpty, DeleteRow,
         MarkDeleteFailed, Reserved, RowType, NewRow
<1>3. \A k \in Keys : bucket'[k] = bucket[k] \/ bucket'[k] = NoPut
  BY DEF Work, StorageFails, SweepDies, Claim, ListPrefix, DeleteMany, VerifyEmpty, DeleteRow,
         MarkDeleteFailed, Keys
<1>4. \A v \in Sweeps : v # w => sweep'[v] = sweep[v]
  BY DEF Work, StorageFails, SweepDies, Claim, ListPrefix, DeleteMany, VerifyEmpty, DeleteRow,
         MarkDeleteFailed, SweepTo
<1>5. sweep'[w].pc # "idle" => ~SweepAt(w, "idle") \/ (Claim(w) /\ row' .state = row.state)
  BY DEF Work, StorageFails, SweepDies, Claim, ListPrefix, DeleteMany, VerifyEmpty, DeleteRow,
         MarkDeleteFailed, SweepAt, RowType
<1>6. sweep'[w].pc = "row" => Empty(bucket) /\ bucket' = bucket
  <2>1. ASSUME NEW pc, SweepTo(w, pc) PROVE sweep'[w].pc = pc
    BY <2>1 DEF SweepTo, SweepType
  <2>2. VerifyEmpty(w) \/ sweep'[w].pc # "row"
    <3>1. CASE ListPrefix(w)
      BY <2>1, <3>1 DEF ListPrefix, SweepType
    <3>2. CASE DeleteMany(w)
      BY <2>1, <3>2 DEF DeleteMany
    <3>3. CASE StorageFails(w) \/ DeleteRow(w)
      BY <2>1, <3>3 DEF StorageFails, DeleteRow, IdleSweep
    <3>4. CASE Claim(w) \/ MarkDeleteFailed(w) \/ SweepDies(w)
      BY <3>4 DEF Claim, MarkDeleteFailed, SweepDies, IdleSweep
    <3> QED BY <3>1, <3>2, <3>3, <3>4 DEF Work
  <2> QED BY <2>1, <2>2 DEF VerifyEmpty
<1>7. Claim(w) => Reserved /\ \A u \in recorded : put[u].left = 0
  BY DEF Claim, Due, DeadlineCoversRecorded
<1>8. DeleteRow(w) => SweepAt(w, "row") /\ ~SweepAt(w, "idle")
  BY DEF DeleteRow, SweepAt
<1>9. ExpiryCoversIssued' /\ DeadlineCoversRecorded'
  <2>1. MarkDeleteFailed(w) => \A u \in recorded : put[u].left = 0
    BY DEF MarkDeleteFailed, SweepAt, SweepsAreLate
  <2> QED BY <2>1, <1>1, <1>2 DEF ExpiryCoversIssued, DeadlineCoversRecorded, Reserved
<1>10. SweepsAreLate'
  BY <1>1, <1>2, <1>4, <1>5, <1>7, <1>8 DEF SweepsAreLate, SweepAt, Reserved
<1>11. VerifiedIsEmpty'
  BY <1>1, <1>3, <1>4, <1>6 DEF VerifiedIsEmpty, NothingRecorded, SweepAt, Empty
<1>12. RecordedStaysDeleted'
  BY <1>1, <1>2, <1>3, <1>8 DEF RecordedStaysDeleted, NothingRecorded, VerifiedIsEmpty
<1> QED BY <1>9, <1>10, <1>11, <1>12

\* Time brings every expiry and the deadline nearer by the same tick.
LEMMA TickStep ==
  ASSUME DInv, Tick
  PROVE  /\ ExpiryCoversIssued' /\ DeadlineCoversRecorded' /\ SweepsAreLate'
         /\ VerifiedIsEmpty' /\ RecordedStaysDeleted'
<1> USE Fields DEF DInv
<1>1. /\ \A u \in Puts : put'[u].pc = put[u].pc /\ put'[u].left = Sooner(put[u].left)
      /\ row'.state = row.state /\ row'.notBefore = Sooner(row.notBefore)
      /\ row'.putExpires = Sooner(row.putExpires)
      /\ \A w \in Sweeps : sweep'[w].pc = sweep[w].pc
      /\ bucket' = bucket /\ recorded' = recorded
  BY DEF Tick, RowType, PutType, SweepType
<1>2. Sooner(0) = 0 /\ \A a, b \in 0 .. PutTtl : a <= b => Sooner(a) <= Sooner(b)
  BY Instants, TimesAssumption DEF Sooner
<1>3. ExpiryCoversIssued'
  BY <1>1, <1>2 DEF ExpiryCoversIssued
<1>4. DeadlineCoversRecorded'
  BY <1>1, <1>2 DEF DeadlineCoversRecorded, Reserved
<1>5. SweepsAreLate' /\ VerifiedIsEmpty' /\ RecordedStaysDeleted'
  BY <1>1, <1>2 DEF SweepsAreLate, VerifiedIsEmpty, RecordedStaysDeleted, NothingRecorded, SweepAt
<1> QED BY <1>3, <1>4, <1>5

\* The invariant holds at the start ...
LEMMA DInvInit == Init => DInv
<1> SUFFICES ASSUME Init PROVE DInv
  OBVIOUS
<1>1. /\ row.state = "live" /\ recorded = {}
      /\ \A u \in Puts : put[u].pc = "idle"
      /\ \A w \in Sweeps : sweep[w].pc = "idle"
  BY DEF Init, NewRow, NoArtifact, IdleSweep
<1> QED BY <1>1, TypeInit DEF DInv, ExpiryCoversIssued, DeadlineCoversRecorded, SweepsAreLate,
                              VerifiedIsEmpty, RecordedStaysDeleted, NothingRecorded, SweepAt, Puts, Reserved

\* ... and every step keeps it.
LEMMA DInvStep == DInv /\ [Next]_vars => DInv'
<1> SUFFICES ASSUME DInv, [Next]_vars PROVE DInv'
  OBVIOUS
<1>1. TypeOK'
  BY TypeStep DEF DInv
<1>2. CASE UNCHANGED vars
  BY <1>2 DEF DInv, vars, TypeOK, ExpiryCoversIssued, DeadlineCoversRecorded, SweepsAreLate,
              VerifiedIsEmpty, RecordedStaysDeleted, NothingRecorded, SweepAt, Reserved
<1>3. CASE Verify
  BY <1>1, <1>3 DEF Verify, DInv, ExpiryCoversIssued, DeadlineCoversRecorded, SweepsAreLate,
                    VerifiedIsEmpty, RecordedStaysDeleted, NothingRecorded, SweepAt, Reserved
<1>4. ASSUME NEW u \in Puts, Upload(u) PROVE DInv'
  BY <1>1, <1>4, UploadStep DEF DInv
<1>5. ASSUME NEW w \in Sweeps, Work(w) \/ StorageFails(w) \/ SweepDies(w) PROVE DInv'
  BY <1>1, <1>5, SweepStep DEF DInv
<1>6. CASE ReserveDeletion
  BY <1>1, <1>6, ReserveStep DEF DInv
<1>7. CASE Tick
  BY <1>1, <1>7, TickStep DEF DInv
<1> QED BY <1>2, <1>3, <1>4, <1>5, <1>6, <1>7 DEF Next

\* The rows of a deletion hold values of their columns, for every number of URLs and sweeps.
THEOREM DeletionTypesHold == Spec => []TypeOK
<1>1. Init => TypeOK
  BY TypeInit
<1>2. TypeOK /\ [Next]_vars => TypeOK'
  BY TypeStep
<1> QED BY <1>1, <1>2, PTL DEF Spec

\* Whatever requests, failures and retries come in between, a sweep is at work only after the expiry of
\* every URL the reservation counted: the deadline of claimNextPurge is one nobody can upload behind.
THEOREM SweepsStartLate == Spec => []SweepsAreLate
<1>1. Init => DInv
  BY DInvInit
<1>2. DInv /\ [Next]_vars => DInv'
  BY DInvStep
<1>3. DInv => SweepsAreLate
  BY DEF DInv
<1> QED BY <1>1, <1>2, <1>3, PTL DEF Spec

\* Once the row is deleted, no recording and no result whose URL the reservation counted is in
\* the bucket, however sweeps and retries overlap and wherever they die.
THEOREM RecordedIsGone == Spec => []RecordedStaysDeleted
<1>1. Init => DInv
  BY DInvInit
<1>2. DInv /\ [Next]_vars => DInv'
  BY DInvStep
<1>3. DInv => RecordedStaysDeleted
  BY DEF DInv
<1> QED BY <1>1, <1>2, <1>3, PTL DEF Spec

-----------------------------------------------------------------------------
(* Liveness. ENABLED is beyond the provers: StepsAreEnabled stays a        *)
(* hypothesis, which TLC checks. From the last time the deletion is asked  *)
(* for, the attempts left and the URLs still to be signed only get fewer.  *)
(* While they stay the same, the instants still to come run out, nothing   *)
(* is written to the bucket any more, and every sweep comes to its end: it *)
(* would claim the row, and an attempt be spent.                           *)

FairTo(w) == WF_vars(Work(w))
EachWorks == \A w \in Sweeps : FairTo(w)
Settled == /\ [][Next]_vars /\ [][~ReserveDeletion]_vars /\ []TypeOK /\ []StepsAreEnabled
           /\ WF_vars(Tick) /\ EachWorks

LEMMA EachWorksOn == EachWorks => []EachWorks
<1>1. ASSUME NEW w \in Sweeps PROVE FairTo(w) => []FairTo(w)
  BY PTL DEF FairTo
<1>2. EachWorks => \A w \in Sweeps : []FairTo(w)
  BY <1>1 DEF EachWorks
<1>3. (\A w \in Sweeps : []FairTo(w)) => [](\A w \in Sweeps : FairTo(w))
  OBVIOUS
<1> QED BY <1>2, <1>3 DEF EachWorks

LEMMA SettledStays == Settled => []Settled
BY EachWorksOn, PTL DEF Settled

LEMMA Settles == FairSpec /\ []StepsAreEnabled /\ <>[][~ReserveDeletion]_vars => <>Settled
<1>1. Fairness => WF_vars(Tick) /\ EachWorks
  BY PTL DEF Fairness, EachWorks, FairTo
<1> QED BY <1>1, EachWorksOn, DeletionTypesHold, PTL DEF FairSpec, Spec, Settled

LEMMA WorksEach == ASSUME NEW w \in Sweeps PROVE Settled => FairTo(w)
<1>1. EachWorks => FairTo(w)
  BY DEF EachWorks
<1> QED BY <1>1, PTL DEF Settled

-----------------------------------------------------------------------------
(* What a step does to the attempts, the signatures and the instants.      *)

Open == Reserved /\ row.attempts < MaxPurges
Active == {u \in Puts : put[u].pc # "idle" \/ put[u].left > 0}

OpenStep == /\ TypeOK /\ [Next]_vars /\ [~ReserveDeletion]_vars /\ Open /\ Open'

LEMMA Declines ==
  ASSUME OpenStep
  PROVE  /\ row'.attempts = row.attempts => row'.notBefore <= row.notBefore /\ row'.lease <= row.lease
         /\ row'.attempts >= row.attempts
         /\ \A w \in Sweeps : Claim(w) => row'.attempts = row.attempts + 1
         /\ \A u \in Puts : put'[u].pc = "checked" => put[u].pc = "checked"
         /\ \A u \in Puts : put[u].pc = "idle" => put'[u].pc = "idle"
         /\ \A u \in Puts : put'[u].left <= put[u].left
              \/ (put[u].pc = "checked" /\ put'[u].pc # "checked")
<1> DEFINE Rows == /\ row'.attempts = row.attempts => row'.notBefore <= row.notBefore /\ row'.lease <= row.lease
                   /\ row'.attempts >= row.attempts
           UrlsOf(u) == /\ put'[u].pc = "checked" => put[u].pc = "checked"
                        /\ put[u].pc = "idle" => put'[u].pc = "idle"
                        /\ put'[u].left <= put[u].left \/ (put[u].pc = "checked" /\ put'[u].pc # "checked")
<1> USE TimesAssumption, PurgesAssumption DEF OpenStep
<1>1. /\ row \in RowType /\ put \in [Puts -> PutType] /\ sweep \in [Sweeps -> SweepType]
      /\ \A u \in Puts : put[u].left \in Nat
      /\ row.attempts \in Nat /\ row.notBefore \in Nat /\ row.lease \in Nat /\ row.putExpires \in Nat
      /\ row.state \in {"deleting", "delete_failed"}
  BY Fields DEF RowType, PutType, Open, Reserved
<1>2. ASSUME NEW w \in Sweeps, Claim(w) PROVE Rows /\ row'.attempts = row.attempts + 1
  BY <1>1, <1>2 DEF Claim, RowType
<1>3. UNCHANGED row => Rows
  BY <1>1
<1>4. UNCHANGED put => \A u \in Puts : UrlsOf(u)
  BY <1>1
<1>5. ASSUME NEW v \in Puts, NEW u \in Puts, Upload(v) PROVE UrlsOf(u)
  <2>1. row.state # "live"
    BY <1>1
  <2>2. CASE SignPut(v)
    BY <1>1, <2>2 DEF SignPut, PutType
  <2>3. CASE IssueOriginal(v) \/ IssueResult(v) \/ HandlerDies(v)
    BY <1>1, <2>3 DEF IssueOriginal, IssueResult, HandlerDies, PutType
  <2>4. CASE CheckWritable(v) \/ Put(v)
    BY <1>1, <2>1, <2>4 DEF CheckWritable, Put
  <2> QED BY <1>5, <2>2, <2>3, <2>4 DEF Upload
<1>6. ASSUME NEW v \in Puts, Upload(v) PROVE Rows
  <2>1. CASE IssueOriginal(v)
    BY <1>1, <2>1 DEF IssueOriginal, OriginalExpiry, RowType
  <2> QED BY <1>1, <1>3, <1>6, <2>1 DEF Upload, CheckWritable, SignPut, IssueResult, HandlerDies, Put
<1>7. ASSUME Tick PROVE Rows /\ \A u \in Puts : UrlsOf(u)
  <2>1. Rows
    BY <1>1, <1>7 DEF Tick, Sooner, RowType
  <2>2. \A u \in Puts : UrlsOf(u)
    BY <1>1, <1>7 DEF Tick, Sooner, PutType
  <2> QED BY <2>1, <2>2
<1>8. ASSUME NEW w \in Sweeps, MarkDeleteFailed(w) PROVE Rows
  BY <1>1, <1>8 DEF MarkDeleteFailed, RowType
<1>9. ASSUME NEW w \in Sweeps, DeleteRow(w) PROVE Rows
  BY <1>1, <1>9 DEF DeleteRow, Open, Reserved, NewRow
<1>10. Verify \/ UNCHANGED vars => Rows /\ \A u \in Puts : UrlsOf(u)
  BY <1>3, <1>4 DEF Verify, vars
<1>11. ASSUME NEW w \in Sweeps, Work(w) \/ StorageFails(w) \/ SweepDies(w)
       PROVE  UNCHANGED put /\ (UNCHANGED row \/ Claim(w) \/ MarkDeleteFailed(w) \/ DeleteRow(w))
  BY <1>11 DEF Work, StorageFails, SweepDies, Claim, ListPrefix, DeleteMany, VerifyEmpty, DeleteRow, MarkDeleteFailed
<1>12. (\E w \in Sweeps : Work(w) \/ StorageFails(w) \/ SweepDies(w)) => Rows /\ \A u \in Puts : UrlsOf(u)
  BY <1>2, <1>3, <1>4, <1>8, <1>9, <1>11
<1>13. (\E v \in Puts : Upload(v)) => Rows /\ \A u \in Puts : UrlsOf(u)
  BY <1>5, <1>6
<1>14. Rows /\ \A u \in Puts : UrlsOf(u)
  BY <1>7, <1>10, <1>12, <1>13 DEF Next
<1> QED BY <1>2, <1>14

-----------------------------------------------------------------------------
(* The claims and signatures ahead, and the instants still to come.        *)

Yet(x) == \/ (x[1] = "claim" /\ x[2] > row.attempts)
          \/ x[1] = "sign" /\ put[x[2]].pc = "checked"
Chances(A) == ({"claim"} \X (1 .. MaxPurges)) \union ({"sign"} \X A)
Ahead(A) == {x \in Chances(A) : Yet(x)}

Runs(x) == \/ (x[1] = "notBefore" /\ x[2] <= row.notBefore)
           \/ x[1] = "lease" /\ x[2] <= row.lease
           \/ x[1] = "left" /\ x[2][2] <= put[x[2][1]].left
Instant(A) == ({"notBefore"} \X (1 .. PutTtl)) \union ({"lease"} \X (1 .. PurgeLease))
                \union ({"left"} \X (A \X (1 .. PutTtl)))
ToCome(A) == {x \in Instant(A) : Runs(x)}

LEMMA Values ==
  ASSUME TypeOK
  PROVE  /\ row.attempts \in 0 .. MaxPurges /\ row.notBefore \in 0 .. PutTtl /\ row.lease \in 0 .. PurgeLease
         /\ \A u \in Puts : put[u].left \in 0 .. PutTtl
BY Fields DEF RowType

LEMMA FewerAhead ==
  ASSUME OpenStep, TypeOK', NEW A \in SUBSET Puts
  PROVE  Ahead(A)' \subseteq Ahead(A)
<1> SUFFICES ASSUME NEW x \in Chances(A), Yet(x)' PROVE Yet(x)
  BY DEF Ahead
<1>1. CASE x[1] = "claim"
  <2>1. x[2] \in Nat
    BY <1>1, PurgesAssumption DEF Chances
  <2>2. row.attempts \in Nat /\ row'.attempts \in Nat
    BY PurgesAssumption DEF OpenStep, TypeOK
  <2> QED BY <1>1, <2>1, <2>2, Declines DEF Yet
<1>2. CASE x[1] = "sign"
  <2>1. x[2] \in Puts
    BY <1>2 DEF Chances
  <2> QED BY <1>2, <2>1, Declines DEF Yet
<1> QED BY <1>1, <1>2 DEF Chances

\* When none of them is used up, no sweep claims and no URL is signed.
LEMMA Quiet ==
  ASSUME OpenStep, TypeOK', NEW A \in SUBSET Puts, Active \subseteq A, Ahead(A)' = Ahead(A)
  PROVE  /\ row'.attempts = row.attempts /\ row'.notBefore <= row.notBefore /\ row'.lease <= row.lease
         /\ \A u \in Puts : put'[u].left <= put[u].left
         /\ \A w \in Sweeps : ~Claim(w)
<1> USE PurgesAssumption
<1>1. row.attempts \in 0 .. MaxPurges /\ row'.attempts \in 0 .. MaxPurges /\ row.attempts < MaxPurges
  BY Values DEF OpenStep, Open, TypeOK
<1>2. row'.attempts = row.attempts
  <2>1. CASE row'.attempts > row.attempts
    <3>1. PICK n \in 1 .. MaxPurges : n = row'.attempts
      BY <1>1, <2>1
    <3>2. <<"claim", n>> \in Ahead(A)
      BY <3>1, <1>1, <2>1 DEF Ahead, Chances, Yet
    <3>3. <<"claim", n>> \notin Ahead(A)'
      BY <3>1 DEF Ahead, Yet
    <3> QED BY <3>2, <3>3
  <2> QED BY <1>1, <2>1, Declines
<1>3. ASSUME NEW u \in Puts, put[u].pc = "checked", put'[u].pc # "checked" PROVE FALSE
  <2>1. u \in A
    BY <1>3 DEF Active
  <2>2. <<"sign", u>> \in Ahead(A) /\ <<"sign", u>> \notin Ahead(A)'
    BY <1>3, <2>1 DEF Ahead, Chances, Yet
  <2> QED BY <2>2
<1> QED BY <1>1, <1>2, <1>3, Declines

LEMMA FewerToCome ==
  ASSUME OpenStep, TypeOK', NEW A \in SUBSET Puts, Active \subseteq A, Ahead(A)' = Ahead(A)
  PROVE  ToCome(A)' \subseteq ToCome(A)
<1> SUFFICES ASSUME NEW x \in Instant(A), Runs(x)' PROVE Runs(x)
  BY DEF ToCome
<1> USE TimesAssumption
<1>1. CASE x[1] = "notBefore" /\ x[2] \in 1 .. PutTtl
  BY <1>1, Quiet, Values DEF Runs, OpenStep, TypeOK
<1>2. CASE x[1] = "lease" /\ x[2] \in 1 .. PurgeLease
  BY <1>2, Quiet, Values DEF Runs, OpenStep, TypeOK
<1>3. CASE x[1] = "left" /\ x[2] \in Puts \X (1 .. PutTtl)
  BY <1>3, Quiet, Values DEF Runs, OpenStep, TypeOK
<1> QED BY <1>1, <1>2, <1>3 DEF Instant

LEMMA TickTakesOne ==
  ASSUME TypeOK, Tick, NEW A \in SUBSET Puts, ToCome(A) # {}
  PROVE  ToCome(A)' # ToCome(A)
<1> USE TimesAssumption, Fields, Values
<1>1. PICK x \in Instant(A) : Runs(x)
  BY DEF ToCome
<1>2. CASE x[1] = "notBefore" /\ x[2] \in 1 .. PutTtl
  <2>1. row.notBefore \in 1 .. PutTtl /\ row'.notBefore = row.notBefore - 1
    BY <1>1, <1>2 DEF Runs, Tick, Sooner, RowType
  <2>2. <<"notBefore", row.notBefore>> \in ToCome(A) /\ <<"notBefore", row.notBefore>> \notin ToCome(A)'
    BY <2>1 DEF ToCome, Instant, Runs
  <2> QED BY <2>2
<1>3. CASE x[1] = "lease" /\ x[2] \in 1 .. PurgeLease
  <2>1. row.lease \in 1 .. PurgeLease /\ row'.lease = row.lease - 1
    BY <1>1, <1>3 DEF Runs, Tick, Sooner, RowType
  <2>2. <<"lease", row.lease>> \in ToCome(A) /\ <<"lease", row.lease>> \notin ToCome(A)'
    BY <2>1 DEF ToCome, Instant, Runs
  <2> QED BY <2>2
<1>4. CASE x[1] = "left" /\ x[2] \in A \X (1 .. PutTtl)
  <2>1. PICK u \in A : x[2][1] = u
    BY <1>4
  <2>2. put[u].left \in 1 .. PutTtl /\ put'[u].left = put[u].left - 1
    BY <1>1, <1>4, <2>1 DEF Runs, Tick, Sooner, PutType
  <2>3. <<"left", <<u, put[u].left>>>> \in ToCome(A) /\ <<"left", <<u, put[u].left>>>> \notin ToCome(A)'
    BY <2>2 DEF ToCome, Instant, Runs
  <2> QED BY <2>3
<1> QED BY <1>1, <1>2, <1>3, <1>4 DEF Instant

LEMMA TimePasses ==
  ASSUME NEW A \in SUBSET Puts
  PROVE  TypeOK /\ StepsAreEnabled /\ ToCome(A) # {} => ENABLED <<Tick>>_vars
<1> SUFFICES ASSUME TypeOK, StepsAreEnabled, ToCome(A) # {}
             PROVE  row.notBefore > 0 \/ row.lease > 0 \/ (\E u \in Puts : put[u].left > 0)
  BY DEF StepsAreEnabled
<1>1. PICK x \in Instant(A) : Runs(x)
  BY DEF ToCome
<1> QED BY <1>1, Values, TimesAssumption DEF Instant, Runs

-----------------------------------------------------------------------------
(* Once every instant is past, nothing is written to the bucket, and a     *)
(* sweep comes to its end.                                                 *)

Past == row.notBefore = 0 /\ row.lease = 0 /\ \A u \in Puts : put[u].left = 0
Still == OpenStep /\ TypeOK' /\ Past /\ \A w \in Sweeps : ~Claim(w)

LEMMA NothingToCome ==
  ASSUME TypeOK, NEW A \in SUBSET Puts, Active \subseteq A, ToCome(A) = {}
  PROVE  Past
<1> USE Values, TimesAssumption
<1>1. row.notBefore \in 1 .. PutTtl => <<"notBefore", row.notBefore>> \in ToCome(A)
  BY DEF ToCome, Instant, Runs
<1>2. row.lease \in 1 .. PurgeLease => <<"lease", row.lease>> \in ToCome(A)
  BY DEF ToCome, Instant, Runs
<1>3. ASSUME NEW u \in Puts, put[u].left \in 1 .. PutTtl PROVE FALSE
  <2>1. u \in A
    BY <1>3 DEF Active
  <2>2. <<"left", <<u, put[u].left>>>> \in ToCome(A)
    BY <1>3, <2>1 DEF ToCome, Instant, Runs
  <2> QED BY <2>2
<1> QED BY <1>1, <1>2, <1>3 DEF Past

EmptyAt(k) == bucket[k] = NoPut
FreshPage(w) == \E k \in sweep[w].page : ~EmptyAt(k)
Emptied == (~EmptyAt("original") /\ EmptyAt("original")') \/ (~EmptyAt("artifact") /\ EmptyAt("artifact")')

LEMMA BucketStill ==
  ASSUME Still
  PROVE  \A k \in Keys : EmptyAt(k) => EmptyAt(k)'
<1> USE Fields DEF Still, OpenStep, EmptyAt
<1>1. ASSUME NEW u \in Puts, Upload(u) PROVE UNCHANGED bucket
  BY <1>1 DEF Upload, CheckWritable, SignPut, IssueOriginal, IssueResult, HandlerDies, Put, Past
<1>2. ASSUME NEW w \in Sweeps, Work(w) \/ StorageFails(w) \/ SweepDies(w), ~DeleteMany(w) PROVE UNCHANGED bucket
  BY <1>2 DEF Work, StorageFails, SweepDies, Claim, ListPrefix, VerifyEmpty, DeleteRow, MarkDeleteFailed
<1>3. ASSUME NEW w \in Sweeps, DeleteMany(w) PROVE \A k \in Keys : EmptyAt(k) => EmptyAt(k)'
  BY <1>3 DEF DeleteMany
<1>4. Verify \/ Tick \/ UNCHANGED vars => UNCHANGED bucket
  BY DEF Verify, Tick, vars
<1> QED BY <1>1, <1>2, <1>3, <1>4 DEF Next

\* Where a sweep goes, by itself or by what befalls it.
LEMMA SweepGoes ==
  ASSUME Still, NEW w \in Sweeps
  PROVE  /\ SweepAt(w, "idle") => SweepAt(w, "idle")' /\ ~Work(w)
         /\ SweepAt(w, "fail") => (SweepAt(w, "fail")' /\ ~Work(w)) \/ SweepAt(w, "idle")'
         /\ SweepAt(w, "row") => (SweepAt(w, "row")' /\ ~Work(w)) \/ SweepAt(w, "fail")' \/ SweepAt(w, "idle")'
         /\ SweepAt(w, "verify") => \/ SweepAt(w, "verify")' /\ ~Work(w)
                                    \/ SweepAt(w, "row")' \/ SweepAt(w, "fail")' \/ SweepAt(w, "idle")'
         /\ SweepAt(w, "list") => \/ SweepAt(w, "list")' /\ ~Work(w)
                                  \/ SweepAt(w, "delete")' /\ FreshPage(w)'
                                  \/ SweepAt(w, "verify")' \/ SweepAt(w, "fail")' \/ SweepAt(w, "idle")'
         /\ SweepAt(w, "delete") => \/ SweepAt(w, "delete")' /\ ~Work(w) /\ (FreshPage(w) => FreshPage(w)' \/ Emptied)
                                    \/ SweepAt(w, "list")' /\ (FreshPage(w) => Emptied)
                                    \/ SweepAt(w, "fail")' \/ SweepAt(w, "idle")'
<1>1. /\ sweep \in [Sweeps -> SweepType] /\ IdleSweep.pc = "idle"
      /\ sweep[w].pc \in {"idle", "list", "delete", "verify", "row", "fail"}
      /\ bucket \in [Keys -> Puts \union {NoPut}]
  BY Fields DEF Still, OpenStep, SweepType, IdleSweep
<1>2. ASSUME NEW pc \in {"idle", "list", "delete", "verify", "row", "fail"}, SweepTo(w, pc)
      PROVE  SweepAt(w, pc)' /\ sweep'[w].page = {}
  BY <1>1, <1>2 DEF SweepTo, SweepAt, SweepType
<1>3. CASE sweep'[w] = sweep[w] /\ ~Work(w)
  <2>1. \A k \in Keys : ~EmptyAt(k) /\ EmptyAt(k)' => Emptied
    BY DEF Keys, Emptied
  <2>2. FreshPage(w) => FreshPage(w)' \/ Emptied
    BY <1>1, <1>3, <2>1 DEF FreshPage, SweepType
  <2> QED BY <1>3, <2>2 DEF SweepAt
<1>4. CASE Work(w)
  <2>1. CASE ListPrefix(w)
    <3>1. CASE SweepTo(w, "verify")
      BY <2>1, <3>1, <1>2 DEF ListPrefix, SweepAt
    <3>2. ASSUME NEW page \in (SUBSET {k \in Keys : bucket[k] # NoPut}) \ {{}},
                 sweep' = [sweep EXCEPT ![w].pc = "delete", ![w].page = page]
          PROVE  SweepAt(w, "delete")' /\ FreshPage(w)'
      <4>1. sweep'[w].pc = "delete" /\ sweep'[w].page = page
        BY <3>2, <1>1 DEF SweepType
      <4>0. page # {} /\ \A k \in page : k \in Keys /\ bucket[k] # NoPut
        BY <3>2
      <4>2. PICK k \in page : k \in Keys /\ bucket[k] # NoPut
        BY <4>0
      <4>3. k \in sweep'[w].page /\ ~EmptyAt(k)'
        BY <2>1, <4>1, <4>2 DEF ListPrefix, EmptyAt
      <4> QED BY <4>1, <4>3 DEF SweepAt, FreshPage
    <3> QED BY <2>1, <3>1, <3>2 DEF ListPrefix, SweepAt
  <2>2. CASE DeleteMany(w)
    <3>1. PICK deleted \in SUBSET sweep[w].page :
                /\ bucket' = [k \in Keys |-> IF k \in deleted THEN NoPut ELSE bucket[k]]
                /\ SweepTo(w, IF deleted = sweep[w].page THEN "list" ELSE "fail")
      BY <2>2 DEF DeleteMany
    <3>2. CASE deleted # sweep[w].page
      BY <2>2, <3>1, <3>2, <1>2 DEF DeleteMany, SweepAt
    <3>3. CASE deleted = sweep[w].page
      <4>1. SweepAt(w, "list")'
        BY <3>1, <3>3, <1>2
      <4>2. FreshPage(w) => Emptied
        BY <3>1, <3>3, <1>1 DEF FreshPage, Emptied, EmptyAt, SweepType, Keys
      <4> QED BY <2>2, <4>1, <4>2 DEF DeleteMany, SweepAt
    <3> QED BY <3>2, <3>3
  <2>3. CASE VerifyEmpty(w)
    BY <2>3, <1>2 DEF VerifyEmpty, SweepAt
  <2>4. CASE DeleteRow(w)
    <3>1. ~Due => SweepAt(w, "fail")'
      BY <2>4, <1>2 DEF DeleteRow
    <3>2. ~Due
      BY <2>4 DEF DeleteRow, Still, OpenStep, Open, Reserved, NewRow
    <3> QED BY <2>4, <3>1, <3>2 DEF DeleteRow, SweepAt
  <2>5. CASE MarkDeleteFailed(w)
    BY <2>5, <1>1 DEF MarkDeleteFailed, SweepAt
  <2> QED BY <1>4, <2>1, <2>2, <2>3, <2>4, <2>5 DEF Work, Still
<1>5. CASE StorageFails(w)
  BY <1>5, <1>2 DEF StorageFails, SweepAt
<1>6. CASE SweepDies(w)
  BY <1>6, <1>1 DEF SweepDies, SweepAt
<1>7. ASSUME NEW v \in Sweeps, v # w, Work(v) \/ StorageFails(v) \/ SweepDies(v), ~Work(w) PROVE sweep'[w] = sweep[w]
  BY <1>7, <1>1 DEF Work, StorageFails, SweepDies, Claim, ListPrefix, DeleteMany, VerifyEmpty, DeleteRow,
                    MarkDeleteFailed, SweepTo
<1>8. ASSUME (\E u \in Puts : Upload(u)) \/ Verify \/ Tick \/ UNCHANGED vars PROVE sweep'[w] = sweep[w]
  BY <1>8 DEF Upload, CheckWritable, SignPut, IssueOriginal, IssueResult, HandlerDies, Put, Verify, Tick, vars
<1> QED BY <1>3, <1>4, <1>5, <1>6, <1>7, <1>8 DEF Next, Still, OpenStep

-----------------------------------------------------------------------------
(* The temporal half. *)

Keeps(A) == Settled /\ []Open /\ [](Active \subseteq A)

\* Nothing of what is ahead is used up, and the instants have passed.
Same(A, U) == Keeps(A) /\ [](Ahead(A) = U)
Passed(A, U) == Same(A, U) /\ []Past

LEMMA PassedSweepEnds ==
  ASSUME NEW A \in SUBSET Puts, NEW U, NEW w \in Sweeps
  PROVE  Passed(A, U) => <>[]SweepAt(w, "idle")
<1> DEFINE EO == EmptyAt("original")
           EA == EmptyAt("artifact")
<1>1. TypeOK /\ TypeOK' /\ [Next]_vars /\ [~ReserveDeletion]_vars /\ Open /\ Open' /\ Active \subseteq A
        /\ Ahead(A) = U /\ (Ahead(A) = U)' /\ Past => Still
  BY Quiet DEF Still, OpenStep
<1>2. Still => (EO => EO') /\ (EA => EA')
  BY BucketStill DEF Keys
<1>3. Still /\ SweepAt(w, "idle") => SweepAt(w, "idle")'
  BY SweepGoes
<1>4. Still /\ SweepAt(w, "fail") => (SweepAt(w, "fail")' /\ ~<<Work(w)>>_vars) \/ SweepAt(w, "idle")'
  BY SweepGoes
<1>5. Still /\ SweepAt(w, "row")
        => (SweepAt(w, "row")' /\ ~<<Work(w)>>_vars) \/ SweepAt(w, "fail")' \/ SweepAt(w, "idle")'
  BY SweepGoes
<1>6. Still /\ SweepAt(w, "verify")
        => \/ SweepAt(w, "verify")' /\ ~<<Work(w)>>_vars
           \/ SweepAt(w, "row")' \/ SweepAt(w, "fail")' \/ SweepAt(w, "idle")'
  BY SweepGoes
<1>7. Still /\ SweepAt(w, "list")
        => \/ SweepAt(w, "list")' /\ ~<<Work(w)>>_vars
           \/ SweepAt(w, "delete")' /\ FreshPage(w)'
           \/ SweepAt(w, "verify")' \/ SweepAt(w, "fail")' \/ SweepAt(w, "idle")'
  BY SweepGoes
<1>8. Still /\ SweepAt(w, "delete")
        => \/ SweepAt(w, "delete")' /\ ~<<Work(w)>>_vars /\ (FreshPage(w) => FreshPage(w)' \/ (~EO /\ EO') \/ (~EA /\ EA'))
           \/ SweepAt(w, "list")' /\ (FreshPage(w) => (~EO /\ EO') \/ (~EA /\ EA'))
           \/ SweepAt(w, "fail")' \/ SweepAt(w, "idle")'
  BY SweepGoes DEF Emptied
<1>9. TypeOK => SweepAt(w, "idle") \/ SweepAt(w, "fail") \/ SweepAt(w, "row") \/ SweepAt(w, "verify")
                  \/ SweepAt(w, "list") \/ SweepAt(w, "delete")
  BY Fields DEF SweepAt, SweepType
<1>10. StepsAreEnabled /\ ~SweepAt(w, "idle") => ENABLED <<Work(w)>>_vars
  BY DEF StepsAreEnabled
<1> HIDE DEF EO, EA
<1> QED BY <1>1, <1>2, <1>3, <1>4, <1>5, <1>6, <1>7, <1>8, <1>9, <1>10, WorksEach, PTL
           DEF Passed, Same, Keeps, Settled, FairTo

LEMMA NeverPassed ==
  ASSUME Sweeps # {}, NEW A \in SUBSET Puts, NEW U
  PROVE  ~Passed(A, U)
<1>1. PICK w : w \in Sweeps
  OBVIOUS
<1>2. TypeOK /\ TypeOK' /\ [Next]_vars /\ [~ReserveDeletion]_vars /\ Open /\ Open' /\ Active \subseteq A
        /\ Ahead(A) = U /\ (Ahead(A) = U)' /\ Past => Still
  BY Quiet DEF Still, OpenStep
<1>3. Still /\ SweepAt(w, "idle") => ~<<Work(w)>>_vars
  BY <1>1, SweepGoes
<1>4. StepsAreEnabled /\ SweepAt(w, "idle") /\ Open /\ Past => ENABLED <<Work(w)>>_vars
  BY <1>1 DEF StepsAreEnabled, CanClaim, Due, Open, Past
<1>5. Settled => FairTo(w)
  BY <1>1, WorksEach
<1>6. Passed(A, U) => <>[]SweepAt(w, "idle")
  BY <1>1, PassedSweepEnds
<1> QED BY <1>2, <1>3, <1>4, <1>5, <1>6, PTL DEF Passed, Same, Keeps, Settled, FairTo

-----------------------------------------------------------------------------
(* What only gets less in a finite set comes to a stop: induction over its *)
(* subsets, on the table of what each of them gives.                       *)

LEMMA FiniteInduction ==
  ASSUME NEW S, IsFiniteSet(S), NEW g,
         \A U \in SUBSET S : (\A x \in U : g[U \ {x}]) => g[U]
  PROVE  \A U \in SUBSET S : g[U]
<1> SUFFICES ASSUME NEW V \in SUBSET S, ~g[V] PROVE FALSE
  OBVIOUS
<1>1. PICK T : T = {U \in SUBSET S : ~g[U]}
  OBVIOUS
<1>2. IsWellFoundedOn(StrictSubsetOrdering(S), SUBSET S)
  BY FS_StrictSubsetOrderingWellFounded, FS_FiniteSubsetsOfFinite
<1>3. PICK U \in T : \A W \in T : ~(<<W, U>> \in StrictSubsetOrdering(S))
  <2>1. V \in T /\ T \subseteq SUBSET S /\ T # {}
    BY <1>1
  <2> QED BY <1>2, <2>1, WFMin
<1>4. PICK x \in U : ~g[U \ {x}]
  BY <1>1, <1>3
<1>5. U \ {x} \in T /\ U \in SUBSET S
  BY <1>1, <1>3, <1>4
<1>6. <<U \ {x}, U>> \in StrictSubsetOrdering(S)
  BY <1>5, <1>4 DEF StrictSubsetOrdering
<1> QED BY <1>3, <1>5, <1>6

Given(t) == t \/ TRUE

\* The instants run out.
Running(A, U, V) == Same(A, U) /\ [](ToCome(A) # {}) /\ [](ToCome(A) \subseteq V)
NeverRuns(A, U, V) == []~Running(A, U, V)
RunsOut(A, U) == [V \in SUBSET Instant(A) |-> NeverRuns(A, U, V)]

LEMMA SameStays == ASSUME NEW A, NEW U PROVE Same(A, U) => []Same(A, U)
BY SettledStays, PTL DEF Same, Keeps

LEMMA SomeTimePasses ==
  ASSUME NEW A \in SUBSET Puts, NEW U, NEW V \in SUBSET Instant(A)
  PROVE  (\A x \in V : NeverRuns(A, U, V \ {x})) => NeverRuns(A, U, V)
<1> DEFINE Stays == Same(A, U) /\ [](ToCome(A) # {})
<1>1. (\A x \in V : NeverRuns(A, U, V \ {x})) => [](\A x \in V : ~Running(A, U, V \ {x}))
  BY DEF NeverRuns
<1>2. TypeOK /\ TypeOK' /\ [Next]_vars /\ [~ReserveDeletion]_vars /\ Open /\ Open' /\ Active \subseteq A
        /\ Ahead(A) = U /\ (Ahead(A) = U)' => ToCome(A)' \subseteq ToCome(A)
  BY FewerToCome DEF OpenStep
<1>3. ASSUME NEW x \in V PROVE ~Running(A, U, V \ {x}) => (Stays => ~(ToCome(A) \subseteq V \ {x}))
  <2>1. ToCome(A)' \subseteq ToCome(A) /\ ToCome(A) \subseteq V \ {x} => (ToCome(A) \subseteq V \ {x})'
    OBVIOUS
  <2> QED BY <1>2, <2>1, PTL DEF Running, Same, Keeps, Settled
<1>4. (\A x \in V : ~Running(A, U, V \ {x})) => (Stays => \A x \in V : ~(ToCome(A) \subseteq V \ {x}))
  <2> HIDE DEF Stays
  <2> QED BY <1>3
<1>5. ToCome(A) \subseteq V /\ (\A x \in V : ~(ToCome(A) \subseteq V \ {x})) => ToCome(A) = V
  OBVIOUS
<1>6. TypeOK /\ ToCome(A) # {} /\ ToCome(A) = V /\ (ToCome(A) = V)' => ~<<Tick>>_vars
  BY TickTakesOne
<1>7. TypeOK /\ StepsAreEnabled /\ ToCome(A) # {} => ENABLED <<Tick>>_vars
  BY TimePasses
<1> QED BY <1>1, <1>4, <1>5, <1>6, <1>7, SameStays, PTL DEF NeverRuns, Running, Same, Keeps, Settled

\* The set of what may still happen, as that of what the meeting has.
LEMMA FiniteAhead ==
  ASSUME NEW A, IsFiniteSet(A)
  PROVE  IsFiniteSet(Chances(A)) /\ IsFiniteSet(Instant(A))
<1>1. \A s : IsFiniteSet({s})
  <2>1. \A s : {s} = {} \union {s}
    OBVIOUS
  <2> QED BY <2>1, FS_EmptySet, FS_AddElement
<1>2. IsFiniteSet(1 .. MaxPurges) /\ IsFiniteSet(1 .. PutTtl) /\ IsFiniteSet(1 .. PurgeLease)
  BY FS_Interval, TimesAssumption, PurgesAssumption
<1>3. /\ IsFiniteSet({"claim"} \X (1 .. MaxPurges)) /\ IsFiniteSet({"sign"} \X A)
      /\ IsFiniteSet({"notBefore"} \X (1 .. PutTtl)) /\ IsFiniteSet({"lease"} \X (1 .. PurgeLease))
      /\ IsFiniteSet(A \X (1 .. PutTtl))
  BY <1>1, <1>2, FS_Product
<1>4. IsFiniteSet({"left"} \X (A \X (1 .. PutTtl)))
  BY <1>1, <1>3, FS_Product
<1> QED BY <1>3, <1>4, FS_Union DEF Chances, Instant

LEMMA ThenAllIsPast ==
  ASSUME NEW A \in SUBSET Puts, IsFiniteSet(A), NEW U
  PROVE  Same(A, U) => <>[]Past
<1> DEFINE S == Instant(A)
<1>1. PICK g : \A V \in SUBSET S : g[V] <=> NeverRuns(A, U, V)
  <2>1. Given(RunsOut(A, U))
    BY DEF Given
  <2> QED BY <2>1, SMTT(20) DEF RunsOut
<1>2. \A V \in SUBSET S : (\A x \in V : g[V \ {x}]) => g[V]
  <2>1. ASSUME NEW V \in SUBSET S PROVE (\A x \in V : NeverRuns(A, U, V \ {x})) => NeverRuns(A, U, V)
    BY SomeTimePasses
  <2> QED BY <1>1, <2>1
<1>3. g[S]
  BY <1>2, FiniteAhead, FiniteInduction
<1>4. NeverRuns(A, U, S)
  BY <1>1, <1>3
<1>5. ToCome(A) \subseteq S
  BY DEF ToCome
<1>6. TypeOK /\ TypeOK' /\ [Next]_vars /\ [~ReserveDeletion]_vars /\ Open /\ Open' /\ Active \subseteq A
        /\ Ahead(A) = U /\ (Ahead(A) = U)' => ToCome(A)' \subseteq ToCome(A)
  BY FewerToCome DEF OpenStep
<1>7. TypeOK /\ Active \subseteq A /\ ToCome(A) = {} => Past
  BY NothingToCome
<1>8. ToCome(A)' \subseteq ToCome(A) /\ ToCome(A) = {} => (ToCome(A) = {})'
  OBVIOUS
<1>9. ToCome(A) = {} \/ ToCome(A) # {}
  OBVIOUS
<1> QED BY <1>4, <1>5, <1>6, <1>7, <1>8, <1>9, SameStays, PTL DEF NeverRuns, Running, Same, Keeps, Settled

\* The claims and the signatures run out.
Going(A, U) == Keeps(A) /\ [](Ahead(A) \subseteq U)
NeverGoes(A, U) == []~Going(A, U)
GoesOut(A) == [U \in SUBSET Chances(A) |-> NeverGoes(A, U)]

LEMMA KeepsStays == ASSUME NEW A PROVE Keeps(A) => []Keeps(A)
BY SettledStays, PTL DEF Keeps

LEMMA SomeChanceGoes ==
  ASSUME Sweeps # {}, NEW A \in SUBSET Puts, IsFiniteSet(A), NEW U \in SUBSET Chances(A)
  PROVE  (\A x \in U : NeverGoes(A, U \ {x})) => NeverGoes(A, U)
<1> DEFINE Stays == Keeps(A)
<1>1. (\A x \in U : NeverGoes(A, U \ {x})) => [](\A x \in U : ~Going(A, U \ {x}))
  BY DEF NeverGoes
<1>2. TypeOK /\ TypeOK' /\ [Next]_vars /\ [~ReserveDeletion]_vars /\ Open /\ Open'
        => Ahead(A)' \subseteq Ahead(A)
  BY FewerAhead DEF OpenStep
<1>3. ASSUME NEW x \in U PROVE ~Going(A, U \ {x}) => (Stays => ~(Ahead(A) \subseteq U \ {x}))
  <2>1. Ahead(A)' \subseteq Ahead(A) /\ Ahead(A) \subseteq U \ {x} => (Ahead(A) \subseteq U \ {x})'
    OBVIOUS
  <2> QED BY <1>2, <2>1, PTL DEF Going, Keeps, Settled
<1>4. (\A x \in U : ~Going(A, U \ {x})) => (Stays => \A x \in U : ~(Ahead(A) \subseteq U \ {x}))
  <2> HIDE DEF Stays
  <2> QED BY <1>3
<1>5. Ahead(A) \subseteq U /\ (\A x \in U : ~(Ahead(A) \subseteq U \ {x})) => Ahead(A) = U
  OBVIOUS
<1>6. Same(A, U) => <>Passed(A, U)
  BY ThenAllIsPast, SameStays, PTL DEF Passed
<1>7. ~Passed(A, U)
  BY NeverPassed
<1>8. Same(A, U) => FALSE
  <2>1. ~Passed(A, U)
    BY NeverPassed
  <2> QED BY <1>6, <2>1, PTL
<1> QED BY <1>1, <1>4, <1>5, <1>8, KeepsStays, PTL DEF NeverGoes, Going, Same

LEMMA NeverKept ==
  ASSUME Sweeps # {}, NEW A \in SUBSET Puts, IsFiniteSet(A)
  PROVE  ~Keeps(A)
<1> DEFINE S == Chances(A)
<1>1. PICK g : \A U \in SUBSET S : g[U] <=> NeverGoes(A, U)
  <2>1. Given(GoesOut(A))
    BY DEF Given
  <2> QED BY <2>1, SMTT(20) DEF GoesOut
<1>2. \A U \in SUBSET S : (\A x \in U : g[U \ {x}]) => g[U]
  <2>1. ASSUME NEW U \in SUBSET S PROVE (\A x \in U : NeverGoes(A, U \ {x})) => NeverGoes(A, U)
    BY SomeChanceGoes
  <2> QED BY <1>1, <2>1
<1>3. g[S]
  BY <1>2, FiniteAhead, FiniteInduction
<1>4. NeverGoes(A, S)
  BY <1>1, <1>3
<1>5. Ahead(A) \subseteq S
  BY DEF Ahead
<1> QED BY <1>4, <1>5, PTL DEF NeverGoes, Going

-----------------------------------------------------------------------------
\* A meeting has been asked for finitely many URLs at any time, however many it is asked for.
FewActive == IsFiniteSet(Active)

LEMMA AlwaysFew == Spec => []FewActive
<1>1. Init => FewActive
  <2>1. Init => Active = {}
    BY DEF Init, Active, Puts
  <2> QED BY <2>1, FS_EmptySet DEF FewActive
<1>2. TypeOK /\ FewActive /\ [Next]_vars => FewActive'
  <2> SUFFICES ASSUME TypeOK, FewActive, [Next]_vars PROVE FewActive'
    OBVIOUS
  <2> USE Fields, TimesAssumption
  <2>1. ASSUME NEW T, IsFiniteSet(T), Active' \subseteq T PROVE FewActive'
    BY <2>1, FS_Subset DEF FewActive
  <2>2. ASSUME NEW u \in Puts, Upload(u) PROVE FewActive'
    <3>1. \A v \in Puts : v # u => put'[v] = put[v]
      BY <2>2 DEF Upload, CheckWritable, SignPut, IssueOriginal, IssueResult, HandlerDies, Put
    <3>2. Active' \subseteq Active \union {u}
      BY <3>1 DEF Active
    <3> QED BY <2>1, <3>2, FS_AddElement DEF FewActive
  <2>3. CASE Tick
    <3>1. Active' \subseteq Active
      BY <2>3 DEF Tick, Active, Sooner, PutType
    <3> QED BY <2>1, <3>1 DEF FewActive
  <2>4. CASE UNCHANGED put
    <3>1. Active' = Active
      BY <2>4 DEF Active
    <3> QED BY <3>1 DEF FewActive
  <2>5. (\E w \in Sweeps : Work(w) \/ StorageFails(w) \/ SweepDies(w)) \/ Verify \/ ReserveDeletion \/ UNCHANGED vars
          => UNCHANGED put
    BY DEF Work, StorageFails, SweepDies, Claim, ListPrefix, DeleteMany, VerifyEmpty, DeleteRow, MarkDeleteFailed,
           Verify, ReserveDeletion, vars
  <2> QED BY <2>2, <2>3, <2>4, <2>5 DEF Next
<1> QED BY <1>1, <1>2, DeletionTypesHold, PTL DEF Spec

LEMMA NeverOpen == ASSUME Sweeps # {} PROVE ~(Settled /\ []Open /\ []FewActive)
<1> DEFINE Few == {A \in SUBSET Puts : IsFiniteSet(A)}
           Kept == Settled /\ []Open
<1>1. ASSUME NEW A \in Few PROVE Kept => ~(Active \subseteq A)
  <2>1. TypeOK /\ TypeOK' /\ [Next]_vars /\ [~ReserveDeletion]_vars /\ Open /\ Open' /\ Active \subseteq A
          => (Active \subseteq A)'
    <3> SUFFICES ASSUME OpenStep, TypeOK', Active \subseteq A, NEW u \in Puts, u \notin A
                 PROVE  u \notin Active'
      BY DEF OpenStep, Active
    <3>1. put[u].pc = "idle" /\ put[u].left = 0 /\ put'[u].left \in Nat
      BY Fields, TimesAssumption DEF OpenStep, Active, TypeOK
    <3> QED BY <3>1, Declines DEF Active
  <2>2. ~Keeps(A)
    BY NeverKept
  <2> QED BY <2>1, <2>2, PTL DEF Keeps, Settled
<1>2. Kept => \A A \in Few : ~(Active \subseteq A)
  <2> HIDE DEF Kept
  <2> QED BY <1>1
<1>3. FewActive => \E A \in Few : Active \subseteq A
  BY DEF FewActive, Active
<1>4. Kept => ~FewActive
  <2> HIDE DEF Kept
  <2> QED BY <1>2, <1>3
<1> QED BY <1>4, PTL

\* A purge that fails or dies is taken up again until the meeting is gone or its automatic
\* attempts are spent, if nobody asks for the deletion again (MAX_PURGE_ATTEMPTS, PURGE_LEASE_MS):
\* for any number of URLs and sweeps, as long as there is one sweep.
THEOREM PurgesAreRetried == ASSUME Sweeps # {} PROVE FairSpec /\ []StepsAreEnabled => PurgeIsRetried
<1> DEFINE Done == row.state = "gone" \/ row.attempts = MaxPurges
<1>1. TypeOK /\ [Next]_vars /\ Reserved /\ ~Done' => Reserved'
  <2> SUFFICES ASSUME TypeOK, [Next]_vars, Reserved PROVE Reserved' \/ row'.state = "gone"
    OBVIOUS
  <2>1. row \in RowType
    BY Fields
  <2>2. CASE UNCHANGED row
    BY <2>2 DEF Reserved
  <2>3. ASSUME NEW u \in Puts, Upload(u) PROVE row'.state = row.state
    BY <2>1, <2>3 DEF Upload, CheckWritable, SignPut, IssueOriginal, OriginalExpiry, IssueResult, HandlerDies, Put, RowType
  <2>4. ASSUME NEW w \in Sweeps, Work(w) \/ StorageFails(w) \/ SweepDies(w)
        PROVE  row'.state \in {row.state, "gone", "delete_failed"}
    BY <2>1, <2>4 DEF Work, StorageFails, SweepDies, Claim, ListPrefix, DeleteMany, VerifyEmpty, DeleteRow,
                      MarkDeleteFailed, RowType, NewRow
  <2>5. CASE Verify \/ ReserveDeletion \/ Tick
    BY <2>1, <2>5 DEF Verify, ReserveDeletion, Tick, RowType, Reserved
  <2>6. CASE UNCHANGED vars
    BY <2>2, <2>6 DEF vars
  <2> QED BY <2>3, <2>4, <2>5, <2>6 DEF Next, Reserved
<1>2. TypeOK /\ Reserved /\ ~Done => Open
  BY Values, PurgesAssumption DEF Open
<1> HIDE DEF Done
<1>3. ~(Settled /\ []Open /\ []FewActive)
  BY NeverOpen
<1>4. FairSpec /\ []StepsAreEnabled /\ <>[][~ReserveDeletion]_vars => (Reserved ~> Done)
  BY <1>1, <1>2, <1>3, AlwaysFew, DeletionTypesHold, Settles, SettledStays, PTL DEF FairSpec, Spec
<1> USE DEF Done
<1> QED BY <1>4, PTL DEF PurgeIsRetried
=============================================================================
