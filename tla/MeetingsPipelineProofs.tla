----------------------- MODULE MeetingsPipelineProofs -----------------------
(***************************************************************************)
(* What holds of MeetingsPipeline for every number of credentials,         *)
(* handlers, runs and attempts.                                            *)
(***************************************************************************)
EXTENDS MeetingsPipeline, FiniteSetTheorems, TLAPS, WellFoundedInduction

-----------------------------------------------------------------------------
(* The records and the statements of the repositories stay in their types. *)

\* A proof names a job, and the fields a handler reads of it are in their sets.
LEMMA ProofFields ==
  ASSUME NEW p \in Proofs
  PROVE  /\ Job(p) \in Jobs /\ Job(p).run = p.run /\ Job(p).stage = p.stage
         /\ p.run \in Runs /\ p.stage \in Stages /\ p.attempt \in Attempts
         /\ [run |-> p.run, stage |-> NextStage(p.stage)] \in Jobs
BY DEF Proofs, Job, Jobs, NextStage, Stages

\* Naming a job by its fields is naming the job.
LEMMA JobFields ==
  ASSUME NEW j \in Jobs
  PROVE  /\ j.run \in Runs /\ j.stage \in Stages
         /\ j = [run |-> j.run, stage |-> j.stage]
         /\ \A a \in Attempts : Proof(j, a) \in Proofs
BY DEF Jobs, Proof, Proofs

\* The transcript upload of an attempt is one of the proofs.
LEMMA TranscriptFields ==
  ASSUME NEW r \in Runs, NEW a \in Attempts
  PROVE  /\ Transcript(r, a) \in Proofs /\ Transcript(r, a).run = r
         /\ Transcript(r, a).stage = "transcribe" /\ Transcript(r, a).attempt = a
BY DEF Transcript, Proofs, Stages

\* Attempts are positive naturals up to max_attempts.
LEMMA AttemptRange ==
  /\ \A a \in Attempts : a \in 0 .. MaxAttempts /\ a > 0
  /\ \A n \in 0 .. MaxAttempts : n \in Nat
BY AttemptsAssumption DEF Attempts

\* The row createJob starts from is a row of meeting_processing_jobs.
LEMMA NoJobType == NoJob \in JobRow
BY AttemptsAssumption DEF NoJob, JobRow, JobStatus

\* Every statement on the queue leaves rows of meeting_processing_jobs.
LEMMA QueueStatementTypes ==
  ASSUME NEW js \in [Jobs -> JobRow]
  PROVE  /\ \A j \in Jobs : /\ CreateJob(js, j) \in [Jobs -> JobRow]
                           /\ MarkSucceeded(js, j) \in [Jobs -> JobRow]
                           /\ MarkFailed(js, j) \in [Jobs -> JobRow]
         /\ CancelJobsForMeeting(js) \in [Jobs -> JobRow]
         /\ RequeueExpired(js) \in [Jobs -> JobRow]
<1>1. \A row \in JobRow : Requeued(row) \in JobRow
  BY DEF Requeued, JobRow, JobStatus
<1>2. \A row \in JobRow : \A st \in Terminal : Closed(row, st) \in JobRow
  BY DEF Closed, JobRow, JobStatus, Terminal
<1>3. [NoJob EXCEPT !.status = "queued"] \in JobRow
  BY NoJobType DEF JobRow, JobStatus
<1>4. \A j \in Jobs : CreateJob(js, j) \in [Jobs -> JobRow]
  BY <1>3 DEF CreateJob
<1>5. \A j \in Jobs : MarkSucceeded(js, j) \in [Jobs -> JobRow]
  BY <1>2 DEF MarkSucceeded, Terminal
<1>6. \A j \in Jobs : MarkFailed(js, j) \in [Jobs -> JobRow]
  BY <1>1, <1>2 DEF MarkFailed, Terminal
<1>7. CancelJobsForMeeting(js) \in [Jobs -> JobRow]
  BY <1>2 DEF CancelJobsForMeeting, Terminal
<1>8. RequeueExpired(js) \in [Jobs -> JobRow]
  BY <1>1, <1>2 DEF RequeueExpired, Terminal
<1> QED BY <1>4, <1>5, <1>6, <1>7, <1>8

\* Finishing a run leaves runs.
LEMMA FinishRunType ==
  ASSUME NEW rs \in [Runs -> RunStates], NEW r \in Runs, NEW outcome \in Outcomes
  PROVE  FinishRun(rs, r, outcome) \in [Runs -> RunStates]
BY DEF FinishRun, RunStates

\* The statements on result uploads leave result uploads.
LEMMA UploadStatementTypes ==
  ASSUME NEW us \in [Proofs -> UploadStates], NEW p \in Proofs
  PROVE  MarkVerified(us, p) \in [Proofs -> UploadStates]
         /\ MarkRejected(us, p) \in [Proofs -> UploadStates]
BY DEF MarkVerified, MarkRejected, UploadStates

\* createdAt's next position is a number: a run has finitely many attempts.
LEMMA CountType ==
  ASSUME NEW S \in SUBSET Attempts
  PROVE  Cardinality(S) + 1 \in Nat
<1>1. IsFiniteSet(Attempts)
  BY FS_Interval, AttemptsAssumption DEF Attempts
<1>2. IsFiniteSet(S)
  BY <1>1, FS_Subset
<1> QED BY <1>2, FS_CardinalityType

-----------------------------------------------------------------------------
(* Type correctness.                                                       *)

\* A free slot is a handler.
LEMMA IdleType == NoProof \in Proofs /\ Idle \in Handler
BY RunsAssumption, AttemptsAssumption
   DEF Idle, NoProof, Handler, Proofs, Runs, Attempts, Stages

\* The empty database holds values of its columns.
LEMMA InitType == Init => TypeOK
<1> SUFFICES ASSUME Init PROVE TypeOK
  OBVIOUS
<1>1. meeting \in MeetingRow
  BY RunsAssumption DEF Init, MeetingRow
<1>2. runs \in [Runs -> RunStates] /\ job \in [Jobs -> JobRow]
  BY NoJobType DEF Init, RunStates
<1>3. /\ upload \in [Proofs -> UploadStates]
      /\ object \in [Proofs -> {"unsigned", "absent", "corrupt", "good"}]
      /\ granted \in [Proofs -> Credentials \union {NoCredential}]
  BY DEF Init, UploadStates
<1>4. created \in [Runs -> [Attempts -> Nat]] /\ media \in [Runs -> SUBSET Attempts]
  BY DEF Init
<1>5. live \in [Runs -> 0 .. MaxAttempts] /\ version \in [Runs -> VersionRow]
  BY AttemptsAssumption DEF Init, VersionRow, NoVersion
<1>6. req \in [Slots -> Handler] /\ original \in {"absent", "mismatch", "good"}
  BY IdleType DEF Init
<1> QED BY <1>1, <1>2, <1>3, <1>4, <1>5, <1>6 DEF TypeOK

\* A handler that starts, moves on or returns stays a handler.
LEMMA HandlerTypes ==
  ASSUME TypeOK, NEW s \in Slots
  PROVE  /\ Return(s) => req' \in [Slots -> Handler]
         /\ \A pc \in UiPcs \union WorkerPcs : Goto(s, pc) => req' \in [Slots -> Handler]
         /\ \A pc \in UiPcs \union WorkerPcs, p \in Proofs :
              Start(s, pc, p) => req' \in [Slots -> Handler]
<1>1. Return(s) => req' \in [Slots -> Handler]
  BY IdleType DEF TypeOK, Return
<1>2. ASSUME NEW pc \in UiPcs \union WorkerPcs, Goto(s, pc) PROVE req' \in [Slots -> Handler]
  BY <1>2 DEF TypeOK, Goto, Handler
<1>3. ASSUME NEW pc \in UiPcs \union WorkerPcs, NEW p \in Proofs, Start(s, pc, p)
      PROVE  req' \in [Slots -> Handler]
  <2>1. [pc |-> pc, proof |-> p, source |-> 0] \in Handler
    BY AttemptsAssumption DEF Handler
  <2> QED BY <1>3, <2>1 DEF TypeOK, Start
<1> QED BY <1>1, <1>2, <1>3

\* The application's requests.
LEMMA ApplicationType ==
  ASSUME TypeOK, NEW s \in Slots, Application(s)
  PROVE  TypeOK'
<1> USE DEF queueVars, resultVars
<1>1. CASE UploadInit(s)
  BY <1>1, HandlerTypes, IdleType DEF UploadInit, TypeOK, UiPcs
<1>2. CASE UploadInitWrite(s)
  BY <1>2, HandlerTypes DEF UploadInitWrite, TypeOK, MeetingRow
<1>3. CASE UploadComplete(s)
  BY <1>3, HandlerTypes, IdleType DEF UploadComplete, TypeOK, UiPcs
<1>4. CASE UploadConfirm(s)
  <2>1. meeting' \in MeetingRow /\ original' \in {"absent", "mismatch", "good"}
    BY <1>4, InputsAssumption DEF UploadConfirm, TypeOK, MeetingRow
  <2>2. req' \in [Slots -> Handler]
    BY <1>4, HandlerTypes DEF UploadConfirm, UiPcs
  <2> QED BY <1>4, <2>1, <2>2 DEF UploadConfirm, TypeOK
<1>5. CASE UploadTx(s)
  <2>1. PICK r \in Runs : /\ runs' = [runs EXCEPT ![r] = "active"]
                          /\ job' = CreateJob(job, [run |-> r, stage |-> "normalize"])
    BY <1>5 DEF UploadTx
  <2>2. runs' \in [Runs -> RunStates]
    BY <2>1 DEF TypeOK, RunStates
  <2>3. job' \in [Jobs -> JobRow]
    BY <2>1, QueueStatementTypes DEF TypeOK, Jobs, Stages
  <2>4. meeting' \in MeetingRow
    BY <1>5 DEF UploadTx, TypeOK, MeetingRow
  <2> QED BY <1>5, <2>2, <2>3, <2>4, HandlerTypes DEF UploadTx, TypeOK
<1> QED BY <1>1, <1>2, <1>3, <1>4, <1>5 DEF Application

\* The actions that are one statement: cancel, reserve, claim, expiry and sweep.
LEMMA StatementType ==
  ASSUME TypeOK,
         \/ CancelMeeting \/ ReserveDeletion \/ RequeueExpiredLeases
         \/ \E c \in Credentials, j \in Jobs : Claim(c, j)
         \/ \E j \in Jobs : LeaseExpires(j)
  PROVE  TypeOK'
<1> USE DEF queueVars, resultVars
<1>1. CASE CancelMeeting
  <2>1. meeting' \in MeetingRow
    BY <1>1 DEF CancelMeeting, TypeOK, MeetingRow
  <2>2. job' \in [Jobs -> JobRow]
    BY <1>1, QueueStatementTypes DEF CancelMeeting, TypeOK
  <2>3. runs' \in [Runs -> RunStates]
    BY <1>1 DEF CancelMeeting, TypeOK, FinishRun, RunStates, Outcomes
  <2> QED BY <1>1, <2>1, <2>2, <2>3 DEF CancelMeeting, TypeOK
<1>2. CASE ReserveDeletion
  BY <1>2 DEF ReserveDeletion, TypeOK, MeetingRow
<1>3. CASE RequeueExpiredLeases
  BY <1>3, QueueStatementTypes DEF RequeueExpiredLeases, TypeOK
<1>4. ASSUME NEW c \in Credentials, NEW j \in Jobs, Claim(c, j) PROVE TypeOK'
  <2>1. job[j].attempts + 1 \in Attempts
    BY <1>4, AttemptsAssumption DEF Claim, Claimable, TypeOK, JobRow, Attempts
  <2>2. job' \in [Jobs -> JobRow]
    BY <1>4, <2>1 DEF Claim, TypeOK, JobRow, JobStatus, Holding, Attempts
  <2>3. granted' \in [Proofs -> Credentials \union {NoCredential}]
    BY <1>4, <2>1, JobFields DEF Claim, TypeOK
  <2>4. meeting' \in MeetingRow
    BY <1>4 DEF Claim, TypeOK, MeetingRow, Running
  <2> QED BY <1>4, <2>2, <2>3, <2>4 DEF Claim, TypeOK
<1>5. ASSUME NEW j \in Jobs, LeaseExpires(j) PROVE TypeOK'
  <2>1. [job[j] EXCEPT !.lease = "expired"] \in JobRow
    BY DEF TypeOK, JobRow
  <2>2. job' \in [Jobs -> JobRow]
    BY <1>5, <2>1 DEF LeaseExpires, TypeOK
  <2> QED BY <1>5, <2>2 DEF LeaseExpires, TypeOK
<1> QED BY <1>1, <1>2, <1>3, <1>4, <1>5

\* The workers' requests only start a handler.
LEMMA WorkerRequestType ==
  ASSUME TypeOK, NEW s \in Slots, NEW p \in Proofs, WorkerRequest(s, p)
  PROVE  TypeOK'
<1> USE DEF queueVars, resultVars, WorkerPcs
<1>1. CASE Heartbeat(s, p)
  BY <1>1, HandlerTypes DEF Heartbeat, TypeOK
<1>2. CASE ResultInit(s, p)
  BY <1>2, HandlerTypes DEF ResultInit, TypeOK
<1>3. CASE ResultComplete(s, p)
  BY <1>3, HandlerTypes DEF ResultComplete, TypeOK
<1>4. CASE Fail(s, p)
  BY <1>4, HandlerTypes DEF Fail, TypeOK
<1> QED BY <1>1, <1>2, <1>3, <1>4 DEF WorkerRequest

\* A run that is ingested or lost leaves the tables it writes in their types.
LEMMA SettleTypes ==
  ASSUME TypeOK, NEW r \in Runs
  PROVE  /\ \A a \in 0 .. MaxAttempts, outcome \in {"ready", "failed"} : IngestRun(r, outcome, a) =>
              /\ meeting' \in MeetingRow /\ runs' \in [Runs -> RunStates]
              /\ upload' \in [Proofs -> UploadStates] /\ version' \in [Runs -> VersionRow]
         /\ \A m \in MeetingRow : LoseRun(r, m) =>
              /\ meeting' \in MeetingRow /\ runs' \in [Runs -> RunStates]
              /\ upload' \in [Proofs -> UploadStates] /\ version' \in [Runs -> VersionRow]
<1>1. ASSUME NEW a \in 0 .. MaxAttempts, NEW outcome \in {"ready", "failed"},
             IngestRun(r, outcome, a)
      PROVE  /\ meeting' \in MeetingRow /\ runs' \in [Runs -> RunStates]
             /\ upload' \in [Proofs -> UploadStates] /\ version' \in [Runs -> VersionRow]
  <2>1. meeting' \in MeetingRow
    <3>1. r \in 0 .. MaxRuns
      BY DEF Runs
    <3>2. [meeting EXCEPT !.transcript = "ready"] \in MeetingRow
      BY DEF TypeOK, MeetingRow
    <3>3. [[meeting EXCEPT !.transcript = "ready"] EXCEPT !.diarization = outcome] \in MeetingRow
      BY <3>2 DEF MeetingRow
    <3>4. [[[meeting EXCEPT !.transcript = "ready"] EXCEPT !.diarization = outcome]
             EXCEPT !.active = r] \in MeetingRow
      BY <3>1, <3>3 DEF MeetingRow
    <3> QED BY <1>1, <3>4 DEF IngestRun
  <2>2. runs' \in [Runs -> RunStates]
    BY <1>1, FinishRunType DEF IngestRun, TypeOK, Outcomes
  <2>3. upload' \in [Proofs -> UploadStates]
    BY <1>1 DEF IngestRun, TypeOK, UploadStates
  <2>4. version' \in [Runs -> VersionRow]
    BY <1>1 DEF IngestRun, TypeOK, VersionRow
  <2> QED BY <2>1, <2>2, <2>3, <2>4
<1>2. ASSUME NEW m \in MeetingRow, LoseRun(r, m)
      PROVE  /\ meeting' \in MeetingRow /\ runs' \in [Runs -> RunStates]
             /\ upload' \in [Proofs -> UploadStates] /\ version' \in [Runs -> VersionRow]
  <2>1. meeting' \in MeetingRow
    BY <1>2 DEF LoseRun, MeetingRow
  <2>2. runs' \in [Runs -> RunStates]
    BY <1>2, FinishRunType DEF LoseRun, TypeOK, Outcomes
  <2> QED BY <1>2, <2>1, <2>2 DEF LoseRun, TypeOK
<1> QED BY <1>1, <1>2

\* A worker's handler: what it reads is typed, so what it writes is.
LEMMA WorkerHandlerType ==
  ASSUME TypeOK, NEW s \in Slots, WorkerHandler(s)
  PROVE  TypeOK'
<1> USE DEF queueVars, resultVars
<1> DEFINE p == req[s].proof
<1>0. p \in Proofs /\ req[s].source \in 0 .. MaxAttempts
  BY DEF TypeOK, Handler
<1>1. CASE RenewLease(s)
  <2>1. Job(p) \in Jobs
    BY <1>0, ProofFields
  <2>2. [job[Job(p)] EXCEPT !.lease = "live"] \in JobRow
    BY <2>1 DEF TypeOK, JobRow
  <2>3. job' \in [Jobs -> JobRow]
    BY <1>1, <2>1, <2>2 DEF RenewLease, TypeOK
  <2> QED BY <1>1, <2>3, HandlerTypes DEF RenewLease, TypeOK
<1>2. CASE InitRow(s)
  <2>1. upload' \in [Proofs -> UploadStates]
    BY <1>2, <1>0 DEF InitRow, TypeOK, UploadStates
  <2>2. created' \in [Runs -> [Attempts -> Nat]]
    <3>1. Cardinality({a \in Attempts : created[p.run][a] # 0}) + 1 \in Nat
      BY CountType
    <3>2. p.run \in Runs /\ p.attempt \in Attempts
      BY <1>0, ProofFields
    <3>3. \A n \in Nat : [created EXCEPT ![p.run][p.attempt] = n] \in [Runs -> [Attempts -> Nat]]
      BY <3>2 DEF TypeOK
    <3>4. \/ created' = created
          \/ created' = [created EXCEPT ![p.run][p.attempt] =
                            Cardinality({a \in Attempts : created[p.run][a] # 0}) + 1]
      BY <1>2 DEF InitRow
    <3> QED BY <3>1, <3>3, <3>4 DEF TypeOK
  <2>3. req' \in [Slots -> Handler]
    BY <1>2, HandlerTypes DEF InitRow, WorkerPcs
  <2> QED BY <1>2, <2>1, <2>2, <2>3 DEF InitRow, TypeOK
<1>3. CASE InitDeclare(s)
  <2>1. upload' \in [Proofs -> UploadStates]
    BY <1>3, <1>0 DEF InitDeclare, TypeOK, UploadStates
  <2>2. object' \in [Proofs -> {"unsigned", "absent", "corrupt", "good"}]
    BY <1>3, <1>0 DEF InitDeclare, TypeOK
  <2> QED BY <1>3, <2>1, <2>2, HandlerTypes DEF InitDeclare, TypeOK
<1>4. CASE CompleteConfirm(s)
  <2>1. upload' \in [Proofs -> UploadStates]
    BY <1>4, <1>0, UploadStatementTypes DEF CompleteConfirm, TypeOK
  <2>2. object' \in [Proofs -> {"unsigned", "absent", "corrupt", "good"}]
    BY <1>4, <1>0, InputsAssumption DEF CompleteConfirm, TypeOK
  <2>3. req' \in [Slots -> Handler]
    BY <1>4, HandlerTypes DEF CompleteConfirm, WorkerPcs
  <2> QED BY <1>4, <2>1, <2>2, <2>3 DEF CompleteConfirm, TypeOK
<1>5. CASE CompleteParseFails(s)
  BY <1>5, <1>0, UploadStatementTypes, HandlerTypes DEF CompleteParseFails, TypeOK
<1>6. CASE CompleteAuthorize(s)
  <2>1. req' \in [Slots -> Handler]
    <3>1. ASSUME NEW a \in Attempts,
                 req' = [req EXCEPT ![s].pc = "complete_commit", ![s].source = a]
          PROVE  req' \in [Slots -> Handler]
      <4>1. a \in 0 .. MaxAttempts
        BY DEF Attempts
      <4>2. [req[s] EXCEPT !.pc = "complete_commit"] \in Handler
        BY DEF TypeOK, Handler, WorkerPcs
      <4>3. [[req[s] EXCEPT !.pc = "complete_commit"] EXCEPT !.source = a] \in Handler
        BY <4>1, <4>2 DEF Handler
      <4> QED BY <3>1, <4>3 DEF TypeOK
    <3> QED BY <1>6, <3>1, HandlerTypes DEF CompleteAuthorize
  <2> QED BY <1>6, <2>1 DEF CompleteAuthorize, TypeOK
<1>7. CASE CommitNormalize(s)
  <2>1. job' \in [Jobs -> JobRow]
    BY <1>7, <1>0, ProofFields, QueueStatementTypes DEF CommitNormalize, Succeed, TypeOK
  <2>2. p.run \in Runs /\ p.attempt \in Attempts /\ p.attempt \in 0 .. MaxAttempts
    BY <1>0, ProofFields, AttemptRange
  <2>3. media' \in [Runs -> SUBSET Attempts]
    BY <1>7, <2>2 DEF CommitNormalize, TypeOK
  <2>4. live' \in [Runs -> 0 .. MaxAttempts]
    BY <1>7, <2>2, AttemptsAssumption DEF CommitNormalize, TypeOK
  <2>5. upload' \in [Proofs -> UploadStates]
    BY <1>7, <1>0 DEF CommitNormalize, TypeOK, UploadStates
  <2> QED BY <1>7, <2>1, <2>3, <2>4, <2>5, HandlerTypes DEF CommitNormalize, TypeOK
<1>8. CASE CommitTranscribe(s)
  <2>1. job' \in [Jobs -> JobRow]
    BY <1>8, <1>0, ProofFields, QueueStatementTypes DEF CommitTranscribe, Succeed, TypeOK
  <2> QED BY <1>8, <2>1, HandlerTypes DEF CommitTranscribe, TypeOK
<1>9. CASE CommitDiarize(s)
  <2>1. job' \in [Jobs -> JobRow]
    BY <1>9, <1>0, ProofFields, QueueStatementTypes DEF CommitDiarize, TypeOK
  <2>2. /\ meeting' \in MeetingRow /\ runs' \in [Runs -> RunStates]
        /\ upload' \in [Proofs -> UploadStates] /\ version' \in [Runs -> VersionRow]
    BY <1>9, <1>0, ProofFields, SettleTypes DEF CommitDiarize, TypeOK
  <2> QED BY <1>9, <2>1, <2>2, HandlerTypes DEF CommitDiarize, TypeOK
<1>10. CASE FailTx(s)
  <2>1. job' \in [Jobs -> JobRow]
    BY <1>10, <1>0, ProofFields, QueueStatementTypes DEF FailTx, TypeOK
  <2>2. /\ meeting' \in MeetingRow /\ runs' \in [Runs -> RunStates]
        /\ upload' \in [Proofs -> UploadStates] /\ version' \in [Runs -> VersionRow]
    <3>1. [meeting EXCEPT !.diarization = "failed"] \in MeetingRow
      BY DEF TypeOK, MeetingRow
    <3>2. CASE ResolveTerminalFailure(Job(p))
      <4>1. Job(p).run \in Runs /\ meeting \in MeetingRow /\ \A a \in Attempts : a \in 0 .. MaxAttempts
        BY <1>0, ProofFields, AttemptRange DEF TypeOK
      <4>2. CASE LoseRun(Job(p).run, meeting)
        BY <4>1, <4>2, SettleTypes
      <4>3. CASE LoseRun(Job(p).run, [meeting EXCEPT !.diarization = "failed"])
        BY <3>1, <4>1, <4>3, SettleTypes
      <4>4. ASSUME NEW a \in Attempts, IngestRun(Job(p).run, "failed", a)
            PROVE  /\ meeting' \in MeetingRow /\ runs' \in [Runs -> RunStates]
                   /\ upload' \in [Proofs -> UploadStates] /\ version' \in [Runs -> VersionRow]
        BY <4>1, <4>4, SettleTypes
      <4> QED BY <3>2, <4>2, <4>3, <4>4 DEF ResolveTerminalFailure
    <3>3. CASE UNCHANGED <<meeting, runs, upload, version>>
      BY <3>3 DEF TypeOK
    <3> QED BY <1>10, <3>2, <3>3 DEF FailTx
  <2> QED BY <1>10, <2>1, <2>2, HandlerTypes DEF FailTx, TypeOK
<1> QED
  BY <1>1, <1>2, <1>3, <1>4, <1>5, <1>6, <1>7, <1>8, <1>9, <1>10 DEF WorkerHandler

\* A handler that dies only frees its slot.
LEMMA HandlerDiesType ==
  ASSUME TypeOK, NEW s \in Slots, HandlerDies(s)
  PROVE  TypeOK'
BY HandlerTypes DEF HandlerDies, TypeOK, queueVars, resultVars

\* Every step keeps the tables typed.
LEMMA NextType == TypeOK /\ [Next]_vars => TypeOK'
<1> SUFFICES ASSUME TypeOK, [Next]_vars PROVE TypeOK'
  OBVIOUS
<1>1. CASE UNCHANGED vars
  BY <1>1 DEF vars, TypeOK
<1>2. CASE Next
  BY <1>2, ApplicationType, StatementType, WorkerRequestType, WorkerHandlerType, HandlerDiesType
     DEF Next
<1> QED BY <1>1, <1>2

\* The tables hold values of their columns in every state, whatever the number of
\* credentials, handlers, runs and attempts.
THEOREM TypesHold == Spec => []TypeOK
BY InitType, NextType, PTL DEF Spec

-----------------------------------------------------------------------------
(* The queue: how one step may change one row of it.                       *)

Kept(old, new) ==
  new.status = old.status /\ new.attempts = old.attempts /\ new.credential = old.credential

Created(old, new) ==
  old.status = "none" /\ new.status = "queued" /\ new.attempts = 0 /\ new.credential = NoCredential

Taken(old, new) ==
  /\ old.status = "queued" /\ new.status = "leased" /\ new.credential \in Credentials
  /\ new.attempts = old.attempts + 1 /\ new.attempts <= MaxAttempts

GivenBack(old, new) ==
  /\ old.status = "leased" /\ new.status = "queued" /\ new.credential = NoCredential
  /\ new.attempts = old.attempts /\ old.attempts < MaxAttempts

EndedAs(old, new) ==
  /\ old.status = "leased" /\ new.status \in Terminal
  /\ new.status \in {"failed", "abandoned"} => old.attempts = MaxAttempts
  /\ new.attempts = old.attempts /\ new.credential = old.credential

Withdrawn(old, new) ==
  /\ old.status = "queued" /\ new.status = "cancelled"
  /\ new.attempts = old.attempts /\ new.credential = old.credential

\* What every step but a claim does to a row.
QuietStep(old, new) ==
  Kept(old, new) \/ Created(old, new) \/ GivenBack(old, new) \/ EndedAs(old, new) \/ Withdrawn(old, new)

\* createJob adds the row it names, clean, or leaves everything as it is.
LEMMA CreateJobAt ==
  ASSUME NEW js \in [Jobs -> JobRow], NEW j \in Jobs, NEW k \in Jobs
  PROVE  /\ CreateJob(js, j)[k] = js[k] \/ (k = j /\ Created(js[k], CreateJob(js, j)[k]))
         /\ CreateJob(js, j)[j].status # "none"
<1>1. /\ [NoJob EXCEPT !.status = "queued"].status = "queued"
      /\ [NoJob EXCEPT !.status = "queued"].attempts = 0
      /\ [NoJob EXCEPT !.status = "queued"].credential = NoCredential
  BY DEF NoJob
<1> QED BY <1>1 DEF CreateJob, Created

\* markSucceeded ends the job it names, if it is held, and moves no other.
LEMMA MarkSucceededAt ==
  ASSUME NEW js \in [Jobs -> JobRow], NEW j \in Jobs, NEW k \in Jobs
  PROVE  \/ MarkSucceeded(js, j)[k] = js[k]
         \/ /\ k = j /\ EndedAs(js[k], MarkSucceeded(js, j)[k])
            /\ MarkSucceeded(js, j)[k].status = "succeeded"
<1>1. js[k] \in JobRow /\ js[j] \in JobRow
  OBVIOUS
<1>2. /\ Closed(js[j], "succeeded").status = "succeeded"
      /\ Closed(js[j], "succeeded").attempts = js[j].attempts
      /\ Closed(js[j], "succeeded").credential = js[j].credential
  BY <1>1 DEF Closed, JobRow
<1> QED BY <1>2 DEF MarkSucceeded, EndedAs, Holding, Terminal

\* markFailed gives a held job back, or ends it when no attempt is left.
LEMMA MarkFailedAt ==
  ASSUME NEW js \in [Jobs -> JobRow], NEW j \in Jobs, NEW k \in Jobs, js[j].status \in Holding
  PROVE  \/ MarkFailed(js, j)[k] = js[k] /\ k # j
         \/ k = j /\ GivenBack(js[k], MarkFailed(js, j)[k])
         \/ /\ k = j /\ EndedAs(js[k], MarkFailed(js, j)[k])
            /\ MarkFailed(js, j)[k].status = "failed"
<1>1. js[k] \in JobRow /\ js[j] \in JobRow /\ js[j].attempts \in 0 .. MaxAttempts
  BY DEF JobRow
<1>2. /\ Closed(js[j], "failed").status = "failed"
      /\ Closed(js[j], "failed").attempts = js[j].attempts
      /\ Closed(js[j], "failed").credential = js[j].credential
  BY <1>1 DEF Closed, JobRow
<1>3. /\ Requeued(js[j]).status = "queued"
      /\ Requeued(js[j]).attempts = js[j].attempts
      /\ Requeued(js[j]).credential = NoCredential
  BY <1>1 DEF Requeued, JobRow
<1>4. CASE k # j
  BY <1>4 DEF MarkFailed
<1>5. CASE k = j /\ js[j].attempts < MaxAttempts
  BY <1>3, <1>5 DEF MarkFailed, GivenBack, Holding
<1>6. CASE k = j /\ ~(js[j].attempts < MaxAttempts)
  <2>1. js[j].attempts = MaxAttempts
    BY <1>1, <1>6, AttemptsAssumption
  <2> QED BY <1>2, <1>6, <2>1 DEF MarkFailed, EndedAs, Holding, Terminal
<1> QED BY <1>4, <1>5, <1>6

\* A sweep gives back or ends the held jobs, a cancellation ends the open ones.
LEMMA SweepsAt ==
  ASSUME NEW js \in [Jobs -> JobRow], NEW k \in Jobs
  PROVE  /\ \/ CancelJobsForMeeting(js)[k] = js[k]
            \/ EndedAs(js[k], CancelJobsForMeeting(js)[k])
            \/ Withdrawn(js[k], CancelJobsForMeeting(js)[k])
         /\ \/ RequeueExpired(js)[k] = js[k]
            \/ GivenBack(js[k], RequeueExpired(js)[k])
            \/ /\ EndedAs(js[k], RequeueExpired(js)[k])
               /\ RequeueExpired(js)[k].status = "abandoned"
<1>1. js[k] \in JobRow /\ js[k].attempts \in 0 .. MaxAttempts
  BY DEF JobRow
<1>2. \A st \in {"cancelled", "abandoned"} :
        /\ Closed(js[k], st).status = st
        /\ Closed(js[k], st).attempts = js[k].attempts
        /\ Closed(js[k], st).credential = js[k].credential
  BY <1>1 DEF Closed, JobRow
<1>3. /\ Requeued(js[k]).status = "queued"
      /\ Requeued(js[k]).attempts = js[k].attempts
      /\ Requeued(js[k]).credential = NoCredential
  BY <1>1 DEF Requeued, JobRow
<1>4. \/ CancelJobsForMeeting(js)[k] = js[k]
      \/ EndedAs(js[k], CancelJobsForMeeting(js)[k])
      \/ Withdrawn(js[k], CancelJobsForMeeting(js)[k])
  BY <1>2 DEF CancelJobsForMeeting, EndedAs, Withdrawn, Open, Terminal
<1>5. CASE ~Expired(js[k])
  BY <1>4, <1>5 DEF RequeueExpired
<1>6. CASE Expired(js[k]) /\ js[k].attempts < MaxAttempts
  BY <1>3, <1>4, <1>6 DEF RequeueExpired, Expired, GivenBack, Holding
<1>7. CASE Expired(js[k]) /\ ~(js[k].attempts < MaxAttempts)
  <2>1. js[k].attempts = MaxAttempts
    BY <1>1, <1>7, AttemptsAssumption
  <2> QED BY <1>2, <1>4, <1>7, <2>1 DEF RequeueExpired, Expired, EndedAs, Holding, Terminal
<1> QED BY <1>5, <1>6, <1>7

\* A commit closes the job of its proof and enqueues the stage after it.
LEMMA SucceedAt ==
  ASSUME NEW js \in [Jobs -> JobRow], NEW p \in Proofs, p.stage # "diarize", NEW k \in Jobs
  PROVE  LET next == [run |-> p.run, stage |-> NextStage(p.stage)]
         IN  /\ Job(p) # next
             /\ Succeed(js, p)[next].status # "none"
             /\ \/ Succeed(js, p)[k] = js[k]
                \/ /\ k = Job(p) /\ EndedAs(js[k], Succeed(js, p)[k])
                   /\ Succeed(js, p)[k].status = "succeeded"
                \/ k = next /\ Created(js[k], Succeed(js, p)[k])
<1> DEFINE next == [run |-> p.run, stage |-> NextStage(p.stage)]
           marked == MarkSucceeded(js, Job(p))
<1>1. Job(p) \in Jobs /\ next \in Jobs /\ marked \in [Jobs -> JobRow]
  BY ProofFields, QueueStatementTypes
<1>2. Job(p) # next
  BY DEF Job, NextStage
<1>3. Succeed(js, p) = CreateJob(marked, next)
  BY DEF Succeed
<1>4. Succeed(js, p)[next].status # "none"
  BY <1>1, <1>3, CreateJobAt
<1>5. CASE k = next
  <2>1. marked[k] = js[k]
    BY <1>1, <1>2, <1>5, MarkSucceededAt
  <2> QED BY <1>1, <1>2, <1>3, <1>4, <1>5, <2>1, CreateJobAt
<1>6. CASE k # next
  <2>1. CreateJob(marked, next)[k] = marked[k]
    BY <1>1, <1>6, CreateJobAt
  <2> QED BY <1>1, <1>2, <1>3, <1>4, <2>1, MarkSucceededAt
<1> QED BY <1>5, <1>6

\* The actions that leave the queue alone.
LEMMA QueueUntouched ==
  ASSUME NEW s \in Slots,
         \/ UploadInit(s) \/ UploadInitWrite(s) \/ UploadComplete(s) \/ UploadConfirm(s)
         \/ InitRow(s) \/ InitDeclare(s) \/ CompleteConfirm(s) \/ CompleteParseFails(s)
         \/ CompleteAuthorize(s) \/ HandlerDies(s)
         \/ \E p \in Proofs : WorkerRequest(s, p)
  PROVE  UNCHANGED <<runs, job, granted>>
BY DEF UploadInit, UploadInitWrite, UploadComplete, UploadConfirm, InitRow, InitDeclare,
       CompleteConfirm, CompleteParseFails, CompleteAuthorize, HandlerDies, WorkerRequest,
       Heartbeat, ResultInit, ResultComplete, Fail, queueVars

\* A claim takes one job and hands out its next attempt; nothing else is moved.
LEMMA ClaimStep ==
  ASSUME TypeOK, NEW c \in Credentials, NEW j \in Jobs, Claim(c, j)
  PROVE  /\ Taken(job[j], job'[j]) /\ job'[j].credential = c
         /\ \A k \in Jobs : k # j => job'[k] = job[k]
         /\ granted' = [granted EXCEPT ![Proof(j, job[j].attempts + 1)] = c]
<1>1. job[j].attempts \in 0 .. MaxAttempts /\ job[j].attempts < MaxAttempts
  BY DEF Claim, Claimable, TypeOK, JobRow
<1>2. job[j].attempts + 1 <= MaxAttempts
  BY <1>1, AttemptsAssumption
<1>3. job'[j] = [status |-> "leased", attempts |-> job[j].attempts + 1, credential |-> c,
                 lease |-> "live"]
  BY DEF Claim, TypeOK
<1> QED BY <1>2, <1>3 DEF Claim, Claimable, Taken, TypeOK

\* Every other step leaves the granted proofs alone, and does to a row what a queue may do.
LEMMA OtherSteps ==
  ASSUME TypeOK, [Next]_vars, ~ \E c \in Credentials, j \in Jobs : Claim(c, j)
  PROVE  /\ granted' = granted
         /\ \A k \in Jobs : QuietStep(job[k], job'[k])
<1> DEFINE Goal == granted' = granted /\ \A k \in Jobs : QuietStep(job[k], job'[k])
<1>0. ASSUME UNCHANGED <<job, granted>> PROVE Goal
  BY <1>0 DEF QuietStep, Kept
<1>1. CASE UNCHANGED vars
  BY <1>0, <1>1 DEF vars
<1>2. ASSUME NEW s \in Slots, UploadTx(s) PROVE Goal
  <2>1. PICK r \in Runs : job' = CreateJob(job, [run |-> r, stage |-> "normalize"])
    BY <1>2 DEF UploadTx
  <2>2. [run |-> r, stage |-> "normalize"] \in Jobs
    BY DEF Jobs, Stages
  <2>3. \A k \in Jobs : QuietStep(job[k], job'[k])
    BY <2>1, <2>2, CreateJobAt DEF TypeOK, QuietStep, Kept
  <2> QED BY <1>2, <2>3 DEF UploadTx
<1>3. CASE CancelMeeting
  BY <1>3, SweepsAt DEF CancelMeeting, TypeOK, QuietStep, Kept
<1>4. CASE ReserveDeletion
  BY <1>0, <1>4 DEF ReserveDeletion, queueVars
<1>5. CASE RequeueExpiredLeases
  BY <1>5, SweepsAt DEF RequeueExpiredLeases, TypeOK, QuietStep, Kept
<1>6. ASSUME NEW j \in Jobs, LeaseExpires(j) PROVE Goal
  <2>1. [job[j] EXCEPT !.lease = "expired"].status = job[j].status
        /\ [job[j] EXCEPT !.lease = "expired"].attempts = job[j].attempts
        /\ [job[j] EXCEPT !.lease = "expired"].credential = job[j].credential
    BY DEF TypeOK, JobRow
  <2>2. \A k \in Jobs : QuietStep(job[k], job'[k])
    BY <1>6, <2>1 DEF LeaseExpires, TypeOK, QuietStep, Kept
  <2> QED BY <1>6, <2>2 DEF LeaseExpires
<1>7. ASSUME NEW s \in Slots, RenewLease(s) PROVE Goal
  <2>1. Job(req[s].proof) \in Jobs
    BY ProofFields DEF TypeOK, Handler
  <2>2. [job[Job(req[s].proof)] EXCEPT !.lease = "live"].status = job[Job(req[s].proof)].status
        /\ [job[Job(req[s].proof)] EXCEPT !.lease = "live"].attempts = job[Job(req[s].proof)].attempts
        /\ [job[Job(req[s].proof)] EXCEPT !.lease = "live"].credential
             = job[Job(req[s].proof)].credential
    BY <2>1 DEF TypeOK, JobRow
  <2>3. \A k \in Jobs : QuietStep(job[k], job'[k])
    BY <1>7, <2>1, <2>2 DEF RenewLease, TypeOK, QuietStep, Kept
  <2> QED BY <1>7, <2>3 DEF RenewLease
<1>8. ASSUME NEW s \in Slots, CommitNormalize(s) \/ CommitTranscribe(s) PROVE Goal
  <2>1. req[s].proof \in Proofs /\ req[s].proof.stage # "diarize"
        /\ job' = Succeed(job, req[s].proof) /\ granted' = granted
    BY <1>8 DEF CommitNormalize, CommitTranscribe, TypeOK, Handler
  <2> QED BY <2>1, SucceedAt DEF TypeOK, QuietStep, Kept
<1>9. ASSUME NEW s \in Slots, CommitDiarize(s) PROVE Goal
  <2>1. Job(req[s].proof) \in Jobs /\ job' = MarkSucceeded(job, Job(req[s].proof))
        /\ granted' = granted
    BY <1>9, ProofFields DEF CommitDiarize, TypeOK, Handler
  <2> QED BY <2>1, MarkSucceededAt DEF TypeOK, QuietStep, Kept
<1>10. ASSUME NEW s \in Slots, FailTx(s) PROVE Goal
  <2>1. /\ Job(req[s].proof) \in Jobs /\ job[Job(req[s].proof)].status \in Holding
        /\ job' = MarkFailed(job, Job(req[s].proof)) /\ granted' = granted
    BY <1>10, ProofFields DEF FailTx, TypeOK, Handler
  <2> QED BY <2>1, MarkFailedAt DEF TypeOK, QuietStep, Kept
<1>11. ASSUME NEW s \in Slots,
              \/ UploadInit(s) \/ UploadInitWrite(s) \/ UploadComplete(s) \/ UploadConfirm(s)
              \/ InitRow(s) \/ InitDeclare(s) \/ CompleteConfirm(s) \/ CompleteParseFails(s)
              \/ CompleteAuthorize(s) \/ HandlerDies(s)
              \/ \E p \in Proofs : WorkerRequest(s, p)
       PROVE  Goal
  BY <1>0, <1>11, QueueUntouched
<1> QED
  BY <1>1, <1>2, <1>3, <1>4, <1>5, <1>6, <1>7, <1>8, <1>9, <1>10, <1>11
     DEF Next, Application, WorkerHandler

\* Whatever the step, a job that exists keeps existing.
LEMMA JobsPersist ==
  ASSUME TypeOK, [Next]_vars, NEW k \in Jobs, job[k].status # "none"
  PROVE  job'[k].status # "none"
<1>1. CASE \E c \in Credentials, j \in Jobs : Claim(c, j)
  BY <1>1, ClaimStep DEF Taken
<1>2. CASE ~ \E c \in Credentials, j \in Jobs : Claim(c, j)
  BY <1>2, OtherSteps DEF QuietStep, Kept, Created, GivenBack, EndedAs, Withdrawn, Terminal
<1> QED BY <1>1, <1>2

-----------------------------------------------------------------------------
(* LeaseIsLatestClaim: a proof is granted to one credential, once.         *)

\* Nothing is granted before the first claim.
LEMMA LeaseInit == Init => LeaseIsLatestClaim
<1> SUFFICES ASSUME Init, NEW p \in Proofs
             PROVE  granted[p] = NoCredential /\ job[Job(p)].status \notin Holding
  BY DEF LeaseIsLatestClaim
<1>1. job[Job(p)] = NoJob
  BY ProofFields DEF Init
<1> QED BY <1>1 DEF Init, NoJob, Holding

\* No step hands a held job to anyone but its latest claim.
LEMMA LeaseStep ==
  ASSUME TypeOK, RowsOfRuns, LeaseIsLatestClaim, [Next]_vars
  PROVE  LeaseIsLatestClaim'
<1> SUFFICES ASSUME NEW p \in Proofs
             PROVE  /\ p.attempt > job'[Job(p)].attempts => granted'[p] = NoCredential
                    /\ job'[Job(p)].status \in Holding =>
                         /\ job'[Job(p)].attempts > 0
                         /\ p.attempt = job'[Job(p)].attempts =>
                              granted'[p] = job'[Job(p)].credential
  BY DEF LeaseIsLatestClaim
<1>1. Job(p) \in Jobs /\ p.attempt \in Nat /\ job[Job(p)].attempts \in Nat
  <2>1. Job(p) \in Jobs /\ p.attempt \in Attempts
    BY ProofFields
  <2>2. job[Job(p)].attempts \in 0 .. MaxAttempts
    BY <2>1 DEF TypeOK, JobRow
  <2> QED BY <2>1, <2>2, AttemptRange
<1>2. ASSUME NEW c \in Credentials, NEW j \in Jobs, Claim(c, j)
      PROVE  /\ p.attempt > job'[Job(p)].attempts => granted'[p] = NoCredential
             /\ job'[Job(p)].status \in Holding =>
                  /\ job'[Job(p)].attempts > 0
                  /\ p.attempt = job'[Job(p)].attempts =>
                       granted'[p] = job'[Job(p)].credential
  <2> DEFINE q == Proof(j, job[j].attempts + 1)
  <2>1. /\ Taken(job[j], job'[j]) /\ job'[j].credential = c
        /\ \A k \in Jobs : k # j => job'[k] = job[k]
        /\ granted' = [granted EXCEPT ![q] = c]
    BY <1>2, ClaimStep
  <2>2. q.attempt = job[j].attempts + 1 /\ Job(q) = j
    BY JobFields DEF Proof, Job
  <2>3. CASE Job(p) # j
    BY <1>1, <2>1, <2>2, <2>3 DEF LeaseIsLatestClaim, TypeOK
  <2>4. CASE Job(p) = j
    <3>1. job'[j].attempts = job[j].attempts + 1
      BY <2>1 DEF Taken
    <3>2. p.attempt = job[j].attempts + 1 => p = q
      BY <2>4 DEF Proof, Job, Proofs
    <3>3. p = q => granted'[p] = c
      BY <2>1 DEF TypeOK
    <3>4. p.attempt > job[j].attempts + 1 => p # q /\ granted[p] = NoCredential
      BY <1>1, <2>2, <2>4 DEF LeaseIsLatestClaim
    <3> QED BY <1>1, <2>1, <2>4, <3>1, <3>2, <3>3, <3>4 DEF TypeOK
  <2> QED BY <2>3, <2>4
<1>3. CASE ~ \E c \in Credentials, j \in Jobs : Claim(c, j)
  <2>1. granted' = granted /\ QuietStep(job[Job(p)], job'[Job(p)])
    BY <1>1, <1>3, OtherSteps
  <2> QED
    BY <1>1, <2>1
       DEF LeaseIsLatestClaim, RowsOfRuns, QuietStep, Kept, Created, GivenBack, EndedAs,
           Withdrawn, Holding, Terminal
<1> QED BY <1>2, <1>3

-----------------------------------------------------------------------------
(* Runs: what one step may do to the state of a run.                       *)

\* finishRun ends the run it names if it is active, and keeps the others.
LEMMA FinishRunAt ==
  ASSUME NEW rs \in [Runs -> RunStates], NEW r \in Runs, NEW outcome \in Outcomes, NEW q \in Runs
  PROVE  /\ q # r => FinishRun(rs, r, outcome)[q] = rs[q]
         /\ rs[r] = "active" => FinishRun(rs, r, outcome)[r] = outcome
         /\ rs[r] # "active" => FinishRun(rs, r, outcome)[r] = rs[r]
         /\ FinishRun(rs, r, outcome)[r] # "active"
         /\ rs[r] # "none" => FinishRun(rs, r, outcome)[r] \in Outcomes
BY DEF FinishRun, RunStates, Outcomes

\* A settled run is never reopened, and a numbered one keeps its number.
RunStep(old, new) ==
  \/ new = old
  \/ old = "active" /\ new \in Outcomes
  \/ old = "none" /\ new = "active"

\* Ingesting or losing a run finishes that run and no other.
LEMMA SettleRuns ==
  ASSUME TypeOK, NEW r \in Runs,
         \/ \E a \in Attempts, outcome \in {"ready", "failed"} : IngestRun(r, outcome, a)
         \/ \E m : LoseRun(r, m)
  PROVE  /\ runs'[r] # "active"
         /\ runs[r] # "none" => runs'[r] \in Outcomes
         /\ \A q \in Runs : RunStep(runs[q], runs'[q]) /\ (q # r => runs'[q] = runs[q])
<1>1. PICK outcome \in Outcomes : runs' = FinishRun(runs, r, outcome)
  BY DEF IngestRun, LoseRun, Outcomes
<1>2. runs \in [Runs -> RunStates]
  BY DEF TypeOK
<1> QED BY <1>1, <1>2, FinishRunAt DEF RunStep

\* A job that fails for good settles its run.
LEMMA ResolveSettles ==
  ASSUME NEW j \in Jobs, ResolveTerminalFailure(j)
  PROVE  \/ \E a \in Attempts, outcome \in {"ready", "failed"} : IngestRun(j.run, outcome, a)
         \/ \E m : LoseRun(j.run, m)
BY DEF ResolveTerminalFailure

\* ... and so does a diarize that is committed: with the transcript it parsed, or without one.
LEMMA DiarizeSettles ==
  ASSUME TypeOK, HandlersKeepTheirRead, NEW s \in Slots, CommitDiarize(s)
  PROVE  LET p == req[s].proof
         IN  /\ p \in Proofs /\ p.run \in Runs /\ job[Job(p)].status # "none"
             /\ req[s].source \in Attempts
             /\ upload[Transcript(p.run, req[s].source)] \in {"verified", "ingested"}
             /\ object[Transcript(p.run, req[s].source)] = "good"
             /\ IngestRun(p.run, "ready", req[s].source) \/ \E m : LoseRun(p.run, m)
<1>1. req[s].proof \in Proofs /\ req[s].proof.run \in Runs
  BY ProofFields DEF TypeOK, Handler
<1>2. req[s].pc = "complete_commit" /\ req[s].proof.stage = "diarize"
  BY DEF CommitDiarize, At
<1>3. IngestRun(req[s].proof.run, "ready", req[s].source) \/ \E m : LoseRun(req[s].proof.run, m)
  BY DEF CommitDiarize
<1> QED BY <1>1, <1>2, <1>3 DEF HandlersKeepTheirRead, WorkerPcs

\* Any step: a run is opened by upload-complete alone, and its job with it.
LEMMA RunSteps ==
  ASSUME TypeOK, HandlersKeepTheirRead, [Next]_vars
  PROVE  \A q \in Runs : RunStep(runs[q], runs'[q])
<1> DEFINE Goal == \A q \in Runs : RunStep(runs[q], runs'[q])
<1>0. ASSUME UNCHANGED runs PROVE Goal
  BY <1>0 DEF RunStep
<1>1. CASE UNCHANGED vars
  BY <1>0, <1>1 DEF vars
<1>2. ASSUME NEW s \in Slots, UploadTx(s) PROVE Goal
  <2>1. PICK r \in Runs : RunToUse(r) /\ runs' = [runs EXCEPT ![r] = "active"]
    BY <1>2 DEF UploadTx
  <2>2. runs[r] = "active" \/ runs[r] = "none"
    BY <2>1 DEF RunToUse, IsNextRun, Runs
  <2> QED BY <2>1, <2>2 DEF RunStep, TypeOK
<1>3. CASE CancelMeeting
  BY <1>3 DEF CancelMeeting, FinishRun, RunStep, TypeOK, Outcomes
<1>4. ASSUME NEW s \in Slots, CommitDiarize(s) PROVE Goal
  BY <1>4, DiarizeSettles, SettleRuns
<1>5. ASSUME NEW s \in Slots, FailTx(s) PROVE Goal
  <2>1. Job(req[s].proof) \in Jobs /\ Job(req[s].proof).run \in Runs
    BY ProofFields DEF TypeOK, Handler
  <2>2. UNCHANGED runs \/ ResolveTerminalFailure(Job(req[s].proof))
    BY <1>5 DEF FailTx
  <2> QED BY <1>0, <2>1, <2>2, ResolveSettles, SettleRuns
<1>6. ASSUME NEW s \in Slots,
             \/ UploadInit(s) \/ UploadInitWrite(s) \/ UploadComplete(s) \/ UploadConfirm(s)
             \/ InitRow(s) \/ InitDeclare(s) \/ CompleteConfirm(s) \/ CompleteParseFails(s)
             \/ CompleteAuthorize(s) \/ HandlerDies(s)
             \/ \E p \in Proofs : WorkerRequest(s, p)
      PROVE  Goal
  BY <1>0, <1>6, QueueUntouched
<1>7. ASSUME NEW s \in Slots, CommitNormalize(s) \/ CommitTranscribe(s) \/ RenewLease(s) PROVE Goal
  BY <1>0, <1>7 DEF CommitNormalize, CommitTranscribe, RenewLease
<1>8. CASE ReserveDeletion \/ RequeueExpiredLeases
  BY <1>0, <1>8 DEF ReserveDeletion, RequeueExpiredLeases, queueVars
<1>9. ASSUME NEW j \in Jobs, LeaseExpires(j) \/ \E c \in Credentials : Claim(c, j) PROVE Goal
  BY <1>0, <1>9 DEF LeaseExpires, Claim
<1> QED
  BY <1>1, <1>2, <1>3, <1>4, <1>5, <1>6, <1>7, <1>8, <1>9 DEF Next, Application, WorkerHandler

-----------------------------------------------------------------------------
(* RowsOfRuns                                                              *)

\* There is no job before the first run.
LEMMA RowsInit == Init => RowsOfRuns
BY DEF Init, RowsOfRuns, NoJob

\* No step leaves a job without its run.
LEMMA RowsStep ==
  ASSUME TypeOK, HandlersKeepTheirRead, RowsOfRuns, [Next]_vars
  PROVE  RowsOfRuns'
<1> SUFFICES ASSUME NEW k \in Jobs
             PROVE  /\ job'[k].status = "none" =>
                         job'[k].attempts = 0 /\ job'[k].credential = NoCredential
                    /\ job'[k].status # "none" => runs'[k.run] # "none"
  BY DEF RowsOfRuns
<1>0. k.run \in Runs
  BY JobFields
<1>1. job'[k].status = "none" => job'[k].attempts = 0 /\ job'[k].credential = NoCredential
  <2>1. CASE \E c \in Credentials, j \in Jobs : Claim(c, j)
    BY <2>1, ClaimStep DEF Taken, RowsOfRuns
  <2>2. CASE ~ \E c \in Credentials, j \in Jobs : Claim(c, j)
    BY <2>2, OtherSteps
       DEF RowsOfRuns, QuietStep, Kept, Created, GivenBack, EndedAs, Withdrawn, Terminal
  <2> QED BY <2>1, <2>2
<1>2. runs[k.run] # "none" => runs'[k.run] # "none"
  BY <1>0, RunSteps DEF RunStep, Outcomes
<1>3. CASE job[k].status # "none"
  BY <1>1, <1>2, <1>3 DEF RowsOfRuns
<1>4. CASE job[k].status = "none" /\ job'[k].status # "none"
  <2>1. ASSUME NEW s \in Slots, UploadTx(s) PROVE runs'[k.run] # "none"
    <3>1. PICK r \in Runs : /\ runs' = [runs EXCEPT ![r] = "active"]
                            /\ job' = CreateJob(job, [run |-> r, stage |-> "normalize"])
      BY <2>1 DEF UploadTx
    <3>2. k = [run |-> r, stage |-> "normalize"]
      <4>1. job \in [Jobs -> JobRow]
        BY DEF TypeOK
      <4>2. [run |-> r, stage |-> "normalize"] \in Jobs
        BY DEF Jobs, Stages
      <4> QED BY <1>4, <3>1, <4>1, <4>2, CreateJobAt
    <3> QED BY <3>1, <3>2 DEF TypeOK
  <2>2. ASSUME NEW s \in Slots, CommitNormalize(s) \/ CommitTranscribe(s)
        PROVE  runs'[k.run] # "none"
    <3> DEFINE p == req[s].proof
    <3>0. p \in Proofs
      BY DEF TypeOK, Handler
    <3>1. /\ p \in Proofs /\ p.stage # "diarize" /\ job' = Succeed(job, p)
          /\ req[s].pc \in WorkerPcs
      BY <2>2, <3>0 DEF CommitNormalize, CommitTranscribe, At, WorkerPcs
    <3>2. job[Job(p)].status # "none" /\ Job(p) \in Jobs /\ Job(p).run = p.run
      <4>1. job[Job(p)].status # "none"
        BY <3>1 DEF HandlersKeepTheirRead
      <4> QED BY <3>0, <4>1, ProofFields
    <3>3. k = [run |-> p.run, stage |-> NextStage(p.stage)]
      BY <1>4, <3>1, <3>2, SucceedAt DEF TypeOK
    <3> QED BY <1>2, <3>2, <3>3 DEF RowsOfRuns
  <2>3. ASSUME NEW s \in Slots, CommitDiarize(s) PROVE FALSE
    <3>1. Job(req[s].proof) \in Jobs /\ job \in [Jobs -> JobRow]
      BY ProofFields DEF TypeOK, Handler
    <3>2. job' = MarkSucceeded(job, Job(req[s].proof))
      BY <2>3 DEF CommitDiarize
    <3> QED BY <1>4, <3>1, <3>2, MarkSucceededAt DEF EndedAs
  <2>4. ASSUME NEW s \in Slots, FailTx(s) PROVE FALSE
    <3>1. Job(req[s].proof) \in Jobs /\ job \in [Jobs -> JobRow]
      BY ProofFields DEF TypeOK, Handler
    <3>2. job[Job(req[s].proof)].status \in Holding /\ job' = MarkFailed(job, Job(req[s].proof))
      BY <2>4 DEF FailTx
    <3> QED BY <1>4, <3>1, <3>2, MarkFailedAt DEF EndedAs, GivenBack
  <2>5. CASE CancelMeeting \/ RequeueExpiredLeases
    <3>1. job \in [Jobs -> JobRow]
      BY DEF TypeOK
    <3>2. job' = CancelJobsForMeeting(job) \/ job' = RequeueExpired(job)
      BY <2>5 DEF CancelMeeting, RequeueExpiredLeases
    <3> QED BY <1>4, <3>1, <3>2, SweepsAt DEF EndedAs, GivenBack, Withdrawn
  <2>6. ASSUME NEW s \in Slots,
               \/ UploadInit(s) \/ UploadInitWrite(s) \/ UploadComplete(s) \/ UploadConfirm(s)
               \/ InitRow(s) \/ InitDeclare(s) \/ CompleteConfirm(s) \/ CompleteParseFails(s)
               \/ CompleteAuthorize(s) \/ HandlerDies(s)
               \/ \E p \in Proofs : WorkerRequest(s, p)
        PROVE  FALSE
    BY <1>4, <2>6, QueueUntouched
  <2>7. ASSUME NEW s \in Slots, RenewLease(s) PROVE FALSE
    BY <1>4, <2>7 DEF RenewLease, Holding, TypeOK
  <2>8. ASSUME NEW j \in Jobs, LeaseExpires(j) PROVE FALSE
    <3>1. [job[j] EXCEPT !.lease = "expired"].status = job[j].status
      BY DEF TypeOK, JobRow
    <3> QED BY <1>4, <2>8, <3>1 DEF LeaseExpires, TypeOK
  <2>9. CASE \E c \in Credentials, j \in Jobs : Claim(c, j)
    BY <1>4, <2>9, ClaimStep DEF Taken
  <2>10. CASE ReserveDeletion \/ UNCHANGED vars
    BY <1>4, <2>10 DEF ReserveDeletion, queueVars, vars
  <2> QED
    BY <1>1, <2>1, <2>2, <2>3, <2>4, <2>5, <2>6, <2>7, <2>8, <2>9, <2>10
       DEF Next, Application, WorkerHandler
<1> QED BY <1>1, <1>3, <1>4

-----------------------------------------------------------------------------
(* HandlersKeepTheirRead: what was read outside the transaction stays true. *)

VerifiedText(us, os, t) == us[t] \in {"verified", "ingested"} /\ os[t] = "good"

\* The actions that leave the result uploads and their objects alone.
LEMMA UploadsUntouched ==
  ASSUME [Next]_vars,
         ~ \E s \in Slots : \/ InitRow(s) \/ InitDeclare(s) \/ CompleteConfirm(s)
                           \/ CompleteParseFails(s) \/ CommitNormalize(s)
                           \/ CommitDiarize(s) \/ FailTx(s)
  PROVE  UNCHANGED <<upload, object>>
<1>1. CASE UNCHANGED vars
  BY <1>1 DEF vars
<1>2. ASSUME NEW s \in Slots,
             Application(s) \/ RenewLease(s) \/ CompleteAuthorize(s) \/ CommitTranscribe(s)
             \/ HandlerDies(s)
      PROVE  UNCHANGED <<upload, object>>
  BY <1>2 DEF Application, UploadInit, UploadInitWrite, UploadComplete, UploadConfirm, UploadTx,
              RenewLease, CompleteAuthorize, CommitTranscribe, HandlerDies, resultVars
<1>3. ASSUME NEW s \in Slots, NEW p \in Proofs, WorkerRequest(s, p)
      PROVE  UNCHANGED <<upload, object>>
  BY <1>3 DEF WorkerRequest, Heartbeat, ResultInit, ResultComplete, Fail, resultVars
<1>4. CASE \/ CancelMeeting \/ ReserveDeletion \/ RequeueExpiredLeases
           \/ \E j \in Jobs : LeaseExpires(j)
           \/ \E c \in Credentials, j \in Jobs : Claim(c, j)
  BY <1>4 DEF CancelMeeting, ReserveDeletion, RequeueExpiredLeases, LeaseExpires, Claim, resultVars
<1> QED BY <1>1, <1>2, <1>3, <1>4 DEF Next, WorkerHandler

\* Settling a run only moves its verified uploads on to 'ingested'.
LEMMA SettleUploads ==
  ASSUME TypeOK, NEW r \in Runs, NEW t \in Proofs,
         \/ \E a \in Attempts, outcome \in {"ready", "failed"} : IngestRun(r, outcome, a)
         \/ \E m : LoseRun(r, m)
  PROVE  upload'[t] = upload[t] \/ (upload[t] = "verified" /\ upload'[t] = "ingested")
BY DEF IngestRun, LoseRun, TypeOK

\* A transcript that is verified and parses is never rejected, re-declared or replaced.
LEMMA VerifiedStays ==
  ASSUME TypeOK, HandlersKeepTheirRead, [Next]_vars,
         NEW t \in Proofs, t.stage = "transcribe", VerifiedText(upload, object, t)
  PROVE  /\ VerifiedText(upload', object', t)
         /\ upload[t] = "ingested" => upload'[t] = "ingested"
<1> DEFINE Goal == /\ VerifiedText(upload', object', t)
                   /\ upload[t] = "ingested" => upload'[t] = "ingested"
<1> USE DEF VerifiedText
<1>0. ASSUME NEW s \in Slots PROVE req[s].proof \in Proofs
  BY DEF TypeOK, Handler
<1>1. CASE ~ \E s \in Slots : \/ InitRow(s) \/ InitDeclare(s) \/ CompleteConfirm(s)
                              \/ CompleteParseFails(s) \/ CommitNormalize(s)
                              \/ CommitDiarize(s) \/ FailTx(s)
  BY <1>1, UploadsUntouched
<1>2. ASSUME NEW s \in Slots, InitRow(s) PROVE Goal
  BY <1>0, <1>2 DEF InitRow, TypeOK
<1>3. ASSUME NEW s \in Slots, InitDeclare(s) PROVE Goal
  BY <1>0, <1>3 DEF InitDeclare, TypeOK
<1>4. ASSUME NEW s \in Slots, CompleteConfirm(s) PROVE Goal
  <2> DEFINE p == req[s].proof
  <2>1. PICK found \in {"absent"} \union Artifacts :
          /\ object[p] = "good" => found = "good"
          /\ object' = IF found = "absent" THEN object ELSE [object EXCEPT ![p] = found]
          /\ found = "absent" => upload' = MarkRejected(upload, p)
          /\ found # "absent" => upload' = MarkVerified(upload, p)
    BY <1>4 DEF CompleteConfirm
  <2>2. CASE t = p
    BY <1>0, <2>1, <2>2 DEF MarkVerified, TypeOK
  <2>3. CASE t # p
    BY <1>0, <2>1, <2>3 DEF MarkVerified, MarkRejected, TypeOK
  <2> QED BY <2>2, <2>3
<1>5. ASSUME NEW s \in Slots, CompleteParseFails(s) PROVE Goal
  <2> DEFINE p == req[s].proof
  <2>1. ParseFails(p) /\ upload' = MarkRejected(upload, p) /\ object' = object
    BY <1>5 DEF CompleteParseFails
  <2>2. t # p
    <3> SUFFICES ASSUME t = p PROVE FALSE
      OBVIOUS
    <3>1. PICK a \in Attempts : ParsedFrom(p, a) /\ object[Transcript(p.run, a)] # "good"
      BY <2>1 DEF ParseFails
    <3>2. a = p.attempt
      BY <3>1 DEF ParsedFrom
    <3>3. Transcript(p.run, p.attempt) = p
      BY DEF Transcript, Proofs
    <3> QED BY <3>1, <3>2, <3>3
  <2> QED BY <1>0, <2>1, <2>2 DEF MarkRejected, TypeOK
<1>6. ASSUME NEW s \in Slots, CommitNormalize(s) PROVE Goal
  BY <1>0, <1>6 DEF CommitNormalize, TypeOK
<1>7. ASSUME NEW s \in Slots, CommitDiarize(s) PROVE Goal
  <2>1. object' = object
    BY <1>7 DEF CommitDiarize
  <2> QED BY <1>7, <2>1, DiarizeSettles, SettleUploads
<1>8. ASSUME NEW s \in Slots, FailTx(s) PROVE Goal
  <2>1. object' = object /\ (upload' = upload \/ ResolveTerminalFailure(Job(req[s].proof)))
    BY <1>8 DEF FailTx
  <2>2. Job(req[s].proof) \in Jobs /\ Job(req[s].proof).run \in Runs
    BY <1>0, ProofFields
  <2> QED BY <2>1, <2>2, ResolveSettles, SettleUploads
<1> QED BY <1>1, <1>2, <1>3, <1>4, <1>5, <1>6, <1>7, <1>8

\* No handler is in flight at the start.
LEMMA HandlersInit == Init => HandlersKeepTheirRead
BY DEF Init, HandlersKeepTheirRead, Idle, IdlePc, WorkerPcs

\* A worker's request is let through only for a job that exists.
LEMMA KnownExists ==
  ASSUME TypeOK, NEW p \in Proofs, AuthorizedOrFailed(p)
  PROVE  job[Job(p)].status # "none"
BY DEF AuthorizedOrFailed, Authorized, Holding

\* A handler in a worker's step: it was there, one step back, or has just been let through.
HandlerCameFrom(s) ==
  \/ /\ req[s].pc \in WorkerPcs /\ req'[s].proof = req[s].proof
     /\ \/ req'[s].pc # "complete_commit"
        \/ req[s].pc = "complete_commit" /\ req'[s].source = req[s].source
        \/ /\ ~ParseFails(req[s].proof) /\ req'[s].source \in Attempts
           /\ ParsedFrom(req[s].proof, req'[s].source) /\ UNCHANGED <<upload, object>>
  \/ /\ req'[s].proof \in Proofs /\ AuthorizedOrFailed(req'[s].proof)
     /\ req'[s].pc # "complete_commit"

\* How a handler can come to be at a step: from where, after reading what.
LEMMA HandlerSteps ==
  ASSUME TypeOK, [Next]_vars, NEW s \in Slots, req'[s].pc \in WorkerPcs
  PROVE  HandlerCameFrom(s)
<1> USE DEF HandlerCameFrom
<1>0. req \in [Slots -> Handler] /\ Idle.pc \notin WorkerPcs
      /\ \A h \in Slots : req[h].proof \in Proofs /\ req[h].pc \in {IdlePc} \union UiPcs \union WorkerPcs
  BY DEF TypeOK, Handler, Idle, IdlePc, WorkerPcs
<1>1. CASE req'[s] = req[s]
  BY <1>1
<1>2. ASSUME NEW h \in Slots, Return(h) PROVE req'[s] = req[s]
  BY <1>0, <1>2 DEF Return
<1>3. ASSUME NEW h \in Slots, NEW pc, NEW p, Start(h, pc, p), req'[s] # req[s]
      PROVE  h = s /\ req'[s].pc = pc /\ req'[s].proof = p
  <2> DEFINE fresh == [pc |-> pc, proof |-> p, source |-> 0]
  <2>3. req' = [req EXCEPT ![h] = fresh]
    BY <1>3 DEF Start
  <2>4. fresh.pc = pc /\ fresh.proof = p
    OBVIOUS
  <2> HIDE DEF fresh
  <2>5. h = s /\ req'[s] = fresh
    BY <1>0, <1>3, <2>3
  <2> QED BY <2>4, <2>5
<1>4. ASSUME NEW h \in Slots, NEW pc, Goto(h, pc), req'[s] # req[s]
      PROVE  h = s /\ req'[s].pc = pc /\ req'[s].proof = req[s].proof
             /\ req'[s].source = req[s].source
  BY <1>0, <1>4 DEF Goto, Handler
<1>5. ASSUME NEW h \in Slots, NEW p \in Proofs, WorkerRequest(h, p), req'[s] # req[s]
      PROVE  HandlerCameFrom(s)
  <2>1. AuthorizedOrFailed(p)
    BY <1>5 DEF WorkerRequest, Heartbeat, ResultInit, ResultComplete, Fail, AuthorizedOrFailed
  <2>2. \E pc : Start(h, pc, p) /\ pc # "complete_commit"
    BY <1>5 DEF WorkerRequest, Heartbeat, ResultInit, ResultComplete, Fail
  <2> QED BY <1>3, <1>5, <2>1, <2>2
<1>6. ASSUME NEW h \in Slots, Application(h), req'[s] # req[s] PROVE FALSE
  <2>1. \/ Return(h) \/ Goto(h, "upload_tx")
        \/ Start(h, "upload_init", NoProof) \/ Start(h, "upload_confirm", NoProof)
    BY <1>6 DEF Application, UploadInit, UploadInitWrite, UploadComplete, UploadConfirm, UploadTx
  <2> QED BY <1>2, <1>3, <1>4, <1>6, <2>1 DEF WorkerPcs
<1>7. ASSUME NEW h \in Slots, WorkerHandler(h), req'[s] # req[s] PROVE HandlerCameFrom(s)
  <2>1. CASE InitRow(h)
    <3>1. Goto(h, "init_declare") /\ req[h].pc \in WorkerPcs
      BY <2>1 DEF InitRow, At, WorkerPcs
    <3> QED BY <1>4, <1>7, <3>1
  <2>2. CASE CompleteConfirm(h)
    <3>1. (Return(h) \/ Goto(h, "complete_parse")) /\ req[h].pc \in WorkerPcs
      BY <2>2 DEF CompleteConfirm, At, WorkerPcs
    <3> QED BY <1>2, <1>4, <1>7, <3>1
  <2>3. CASE CompleteAuthorize(h)
    <3>1. CASE Return(h)
      BY <1>2, <1>7, <3>1
    <3>2. ASSUME NEW a \in Attempts, ParsedFrom(req[h].proof, a),
                 req' = [req EXCEPT ![h].pc = "complete_commit", ![h].source = a]
          PROVE  HandlerCameFrom(s)
      <4>1. h = s
        BY <1>0, <1>7, <3>2
      <4>2. req'[s].proof = req[s].proof /\ req'[s].source = a
        BY <1>0, <3>2, <4>1 DEF Handler
      <4>3. req[s].pc \in WorkerPcs /\ ~ParseFails(req[s].proof) /\ UNCHANGED <<upload, object>>
        BY <2>3, <4>1 DEF CompleteAuthorize, At, WorkerPcs, resultVars
      <4> QED BY <3>2, <4>1, <4>2, <4>3
    <3> QED BY <2>3, <3>1, <3>2 DEF CompleteAuthorize
  <2>4. CASE ~(InitRow(h) \/ CompleteConfirm(h) \/ CompleteAuthorize(h))
    <3>1. Return(h)
      BY <1>7, <2>4 DEF WorkerHandler, RenewLease, InitDeclare, CompleteParseFails, CommitNormalize,
                        CommitTranscribe, CommitDiarize, FailTx
    <3> QED BY <1>2, <1>7, <3>1
  <2> QED BY <2>1, <2>2, <2>3, <2>4
<1>8. CASE \/ CancelMeeting \/ ReserveDeletion \/ RequeueExpiredLeases
           \/ \E j \in Jobs : LeaseExpires(j)
           \/ \E c \in Credentials, j \in Jobs : Claim(c, j)
           \/ UNCHANGED vars
  BY <1>1, <1>8
     DEF CancelMeeting, ReserveDeletion, RequeueExpiredLeases, LeaseExpires, Claim, vars
<1>9. ASSUME NEW h \in Slots, HandlerDies(h) PROVE HandlerCameFrom(s)
  BY <1>1, <1>2, <1>9 DEF HandlerDies
<1> QED BY <1>1, <1>5, <1>6, <1>7, <1>8, <1>9 DEF Next

\* No step makes stale what a worker's handler rests on.
LEMMA HandlersStep ==
  ASSUME TypeOK, HandlersKeepTheirRead, [Next]_vars
  PROVE  HandlersKeepTheirRead'
<1> SUFFICES ASSUME NEW s \in Slots, req'[s].pc \in WorkerPcs
             PROVE  LET p == req'[s].proof
                        t == Transcript(p.run, req'[s].source)
                    IN  /\ job'[Job(p)].status # "none"
                        /\ req'[s].pc = "complete_commit" => req'[s].source \in Attempts
                        /\ req'[s].pc = "complete_commit" /\ p.stage = "diarize" =>
                             upload'[t] \in {"verified", "ingested"} /\ object'[t] = "good"
  BY DEF HandlersKeepTheirRead
<1> DEFINE p == req'[s].proof
           t == Transcript(p.run, req'[s].source)
<1>1. HandlerCameFrom(s)
  BY HandlerSteps
<1>2. p \in Proofs /\ Job(p) \in Jobs /\ p.run \in Runs
  BY <1>1, ProofFields DEF HandlerCameFrom, TypeOK, Handler
<1>3. job'[Job(p)].status # "none"
  <2>1. job[Job(p)].status # "none"
    BY <1>1, <1>2, KnownExists DEF HandlerCameFrom, HandlersKeepTheirRead
  <2> QED BY <1>2, <2>1, JobsPersist
<1>4. ASSUME req'[s].pc = "complete_commit"
      PROVE  /\ req'[s].source \in Attempts
             /\ p.stage = "diarize" => VerifiedText(upload', object', t)
  <2>1. CASE /\ req[s].pc = "complete_commit" /\ req[s].proof = p /\ req'[s].source = req[s].source
    <3>1. /\ req[s].source \in Attempts
          /\ p.stage = "diarize" => VerifiedText(upload, object, t)
      BY <2>1 DEF HandlersKeepTheirRead, VerifiedText, WorkerPcs
    <3>2. t \in Proofs /\ t.stage = "transcribe"
      BY <1>2, <2>1, <3>1, TranscriptFields
    <3> QED BY <2>1, <3>1, <3>2, VerifiedStays
  <2>2. CASE /\ req[s].proof = p /\ ~ParseFails(p) /\ req'[s].source \in Attempts
             /\ ParsedFrom(p, req'[s].source) /\ UNCHANGED <<upload, object>>
    <3>1. ASSUME p.stage = "diarize"
          PROVE  upload[t] \in {"verified", "ingested"} /\ object[t] = "good"
      BY <2>2, <3>1
         DEF ParseFails, ParsedFrom, IsOldestVerified, VerifiedTranscripts, Transcript
    <3> QED BY <2>2, <3>1 DEF VerifiedText
  <2> QED BY <1>1, <1>4, <2>1, <2>2 DEF HandlerCameFrom
<1> QED BY <1>3, <1>4 DEF VerifiedText

-----------------------------------------------------------------------------
(* ActiveRunStages                                                         *)

\* No run is active at the start.
LEMMA StagesInit == Init => ActiveRunStages
BY DEF Init, ActiveRunStages

\* What the invariant asks of one run, on any tables.
StagesOf(rs, js, r) ==
  rs[r] = "active" =>
    /\ js[[run |-> r, stage |-> "normalize"]].status # "none"
    /\ \A j \in Jobs : j.run = r =>
         /\ js[j].status \notin {"failed", "cancelled"}
         /\ js[j].status = "succeeded" =>
              j.stage # "diarize" /\ js[[run |-> r, stage |-> NextStage(j.stage)]].status # "none"

\* A step that neither creates, fails, cancels nor completes a job of an active run keeps it.
LEMMA StagesKept ==
  ASSUME NEW r \in Runs, runs[r] = "active", StagesOf(runs, job, r),
         \A j \in Jobs : j.run = r =>
           /\ job[j].status # "none" => job'[j].status # "none"
           /\ job'[j].status = job[j].status
              \/ job'[j].status \in {"queued", "leased", "abandoned"}
  PROVE  StagesOf(runs', job', r)
<1>1. [run |-> r, stage |-> "normalize"] \in Jobs
  BY DEF Jobs, Stages
<1>2. \A j \in Jobs : j.run = r =>
        [run |-> r, stage |-> NextStage(j.stage)] \in Jobs
        /\ [run |-> r, stage |-> NextStage(j.stage)].run = r
  BY DEF Jobs, Stages, NextStage
<1> QED BY <1>1, <1>2 DEF StagesOf

\* No step ends the last open stage of a run and leaves the run active.
LEMMA StagesStep ==
  ASSUME TypeOK, RowsOfRuns, HandlersKeepTheirRead, ActiveRunStages, [Next]_vars
  PROVE  ActiveRunStages'
<1> SUFFICES ASSUME NEW r \in Runs, runs'[r] = "active" PROVE StagesOf(runs', job', r)
  BY DEF ActiveRunStages, StagesOf
<1>0. /\ job \in [Jobs -> JobRow] /\ runs \in [Runs -> RunStates]
      /\ StagesOf(runs, job, r)
      /\ [run |-> r, stage |-> "normalize"] \in Jobs
      /\ \A s \in Slots : req[s].proof \in Proofs
  BY DEF ActiveRunStages, StagesOf, TypeOK, Jobs, Stages, Handler
<1>1. ASSUME UNCHANGED <<runs, job>> PROVE StagesOf(runs', job', r)
  BY <1>0, <1>1 DEF StagesOf
<1>2. ASSUME NEW s \in Slots, UploadTx(s) PROVE StagesOf(runs', job', r)
  <2>1. PICK q \in Runs : /\ RunToUse(q) /\ runs' = [runs EXCEPT ![q] = "active"]
                          /\ job' = CreateJob(job, [run |-> q, stage |-> "normalize"])
    BY <1>2 DEF UploadTx
  <2> DEFINE first == [run |-> q, stage |-> "normalize"]
  <2>2. first \in Jobs /\ first.run = q /\ first.stage = "normalize"
    BY DEF Jobs, Stages
  <2>3. /\ \A j \in Jobs : job'[j] = job[j] \/ (j = first /\ Created(job[j], job'[j]))
        /\ job'[first].status # "none"
    BY <1>0, <2>1, <2>2, CreateJobAt
  <2>4. CASE runs[r] = "active"
    BY <1>0, <2>3, <2>4, StagesKept DEF Created
  <2>5. CASE runs[r] # "active"
    <3>1. r = q
      BY <1>0, <2>1, <2>5
    <3>2. runs[q] = "none"
      BY <2>1, <2>5, <3>1 DEF RunToUse, IsNextRun, Runs
    <3>3. \A j \in Jobs : j.run = r => job[j].status = "none"
      BY <3>1, <3>2 DEF RowsOfRuns
    <3>4. \A j \in Jobs : j.run = r => job'[j].status \in {"none", "queued"}
      BY <2>3, <3>3 DEF Created
    <3> QED BY <2>3, <3>1, <3>4 DEF StagesOf
  <2> QED BY <2>4, <2>5
<1>3. CASE CancelMeeting
  BY <1>0, <1>3 DEF CancelMeeting, FinishRun
<1>4. ASSUME NEW s \in Slots, CommitNormalize(s) \/ CommitTranscribe(s)
      PROVE  StagesOf(runs', job', r)
  <2> DEFINE p == req[s].proof
             next == [run |-> p.run, stage |-> NextStage(p.stage)]
  <2>1. p \in Proofs /\ p.stage # "diarize" /\ job' = Succeed(job, p) /\ runs' = runs
    BY <1>0, <1>4 DEF CommitNormalize, CommitTranscribe, At
  <2>2. /\ \A j \in Jobs : \/ job'[j] = job[j]
                           \/ j = Job(p) /\ EndedAs(job[j], job'[j]) /\ job'[j].status = "succeeded"
                           \/ j = next /\ Created(job[j], job'[j])
        /\ job'[next].status # "none"
    BY <1>0, <2>1, SucceedAt
  <2>3. Job(p).stage = p.stage /\ Job(p).run = p.run /\ next \in Jobs
    BY <2>1, ProofFields
  <2>4. \A j \in Jobs : job[j].status # "none" => job'[j].status # "none"
    BY <2>2 DEF EndedAs
  <2>5. job'[[run |-> r, stage |-> "normalize"]].status # "none"
    BY <1>0, <2>1, <2>4 DEF StagesOf
  <2>6. ASSUME NEW j \in Jobs, j.run = r
        PROVE  /\ job'[j].status \notin {"failed", "cancelled"}
               /\ job'[j].status = "succeeded" =>
                    j.stage # "diarize" /\ job'[[run |-> r, stage |-> NextStage(j.stage)]].status # "none"
    <3>1. CASE job'[j] = job[j]
      <4>1. [run |-> r, stage |-> NextStage(j.stage)] \in Jobs
        BY DEF Jobs, Stages, NextStage
      <4> QED BY <1>0, <2>1, <2>4, <2>6, <3>1, <4>1 DEF StagesOf
    <3>2. CASE j = Job(p) /\ job'[j].status = "succeeded"
      BY <2>1, <2>2, <2>3, <2>6, <3>2
    <3>3. CASE j = next /\ Created(job[j], job'[j])
      BY <3>3 DEF Created
    <3> QED BY <2>2, <3>1, <3>2, <3>3
  <2> QED BY <2>5, <2>6 DEF StagesOf
<1>5. ASSUME NEW s \in Slots, CommitDiarize(s) PROVE StagesOf(runs', job', r)
  <2> DEFINE p == req[s].proof
  <2>1. r # p.run /\ runs'[r] = runs[r]
    BY <1>0, <1>5, DiarizeSettles, SettleRuns
  <2>2. job' = MarkSucceeded(job, Job(p)) /\ Job(p) \in Jobs /\ Job(p).run = p.run
    BY <1>0, <1>5, ProofFields DEF CommitDiarize
  <2>3. \A j \in Jobs : j.run = r => job'[j] = job[j]
    BY <1>0, <2>1, <2>2, MarkSucceededAt
  <2> QED BY <1>0, <2>1, <2>3, StagesKept
<1>6. ASSUME NEW s \in Slots, FailTx(s) PROVE StagesOf(runs', job', r)
  <2> DEFINE j == Job(req[s].proof)
  <2>1. /\ job[j].status \in Holding /\ job' = MarkFailed(job, j)
        /\ \/ job'[j].status = "queued" /\ runs' = runs
           \/ ResolveTerminalFailure(j)
    BY <1>6 DEF FailTx
  <2>2. j \in Jobs /\ j.run \in Runs
    BY <1>0, ProofFields
  <2>3. \A k \in Jobs : \/ job'[k] = job[k]
                        \/ k = j /\ GivenBack(job[k], job'[k])
                        \/ k = j /\ EndedAs(job[k], job'[k])
    BY <1>0, <2>1, <2>2, MarkFailedAt
  <2>4. CASE ResolveTerminalFailure(j)
    <3>1. r # j.run /\ runs'[r] = runs[r]
      BY <2>2, <2>4, ResolveSettles, SettleRuns
    <3>2. \A k \in Jobs : k.run = r => job'[k] = job[k]
      BY <2>3, <3>1
    <3> QED BY <1>0, <3>1, <3>2, StagesKept
  <2>5. CASE job'[j].status = "queued" /\ runs' = runs
    <3>1. \A k \in Jobs : job'[k] = job[k] \/ (job[k].status # "none" /\ job'[k].status = "queued")
      BY <2>3, <2>5 DEF GivenBack, EndedAs
    <3> QED BY <1>0, <2>5, <3>1, StagesKept
  <2> QED BY <2>1, <2>4, <2>5
<1>7. CASE RequeueExpiredLeases
  <2>1. runs' = runs /\ job' = RequeueExpired(job)
    BY <1>7 DEF RequeueExpiredLeases
  <2>2. \A j \in Jobs : job'[j] = job[j] \/ GivenBack(job[j], job'[j])
                        \/ (EndedAs(job[j], job'[j]) /\ job'[j].status = "abandoned")
    BY <1>0, <2>1, SweepsAt
  <2> QED BY <1>0, <2>1, <2>2, StagesKept DEF GivenBack, EndedAs
<1>8. ASSUME NEW c \in Credentials, NEW j \in Jobs, Claim(c, j) PROVE StagesOf(runs', job', r)
  <2>1. runs' = runs /\ Taken(job[j], job'[j]) /\ \A k \in Jobs : k # j => job'[k] = job[k]
    BY <1>8, ClaimStep DEF Claim
  <2> QED BY <1>0, <2>1, StagesKept DEF Taken
<1>9. ASSUME NEW j \in Jobs, LeaseExpires(j) PROVE StagesOf(runs', job', r)
  <2>1. [job[j] EXCEPT !.lease = "expired"].status = job[j].status
    BY DEF TypeOK, JobRow
  <2>2. runs' = runs /\ \A k \in Jobs : job'[k].status = job[k].status
    BY <1>0, <1>9, <2>1 DEF LeaseExpires
  <2> QED BY <1>0, <2>2, StagesKept
<1>10. ASSUME NEW s \in Slots, RenewLease(s) PROVE StagesOf(runs', job', r)
  <2>1. Job(req[s].proof) \in Jobs
    BY <1>0, ProofFields
  <2>2. [job[Job(req[s].proof)] EXCEPT !.lease = "live"].status = job[Job(req[s].proof)].status
    BY <2>1 DEF TypeOK, JobRow
  <2>3. runs' = runs /\ \A k \in Jobs : job'[k].status = job[k].status
    BY <1>0, <1>10, <2>1, <2>2 DEF RenewLease
  <2> QED BY <1>0, <2>3, StagesKept
<1>11. ASSUME NEW s \in Slots,
              \/ UploadInit(s) \/ UploadInitWrite(s) \/ UploadComplete(s) \/ UploadConfirm(s)
              \/ InitRow(s) \/ InitDeclare(s) \/ CompleteConfirm(s) \/ CompleteParseFails(s)
              \/ CompleteAuthorize(s) \/ HandlerDies(s)
              \/ \E p \in Proofs : WorkerRequest(s, p)
       PROVE  StagesOf(runs', job', r)
  BY <1>1, <1>11, QueueUntouched
<1>12. CASE ReserveDeletion \/ UNCHANGED vars
  BY <1>1, <1>12 DEF ReserveDeletion, queueVars, vars
<1> QED
  BY <1>2, <1>3, <1>4, <1>5, <1>6, <1>7, <1>8, <1>9, <1>10, <1>11, <1>12
     DEF Next, Application, WorkerHandler

-----------------------------------------------------------------------------
(* VersionIsVerified and ReadyMeansIngested                                *)

\* A version is written by an ingestion and by nothing else.
LEMMA VersionSteps ==
  ASSUME TypeOK, [Next]_vars
  PROVE  \/ UNCHANGED version
         \/ \E s \in Slots : CommitDiarize(s) \/ (FailTx(s) /\ ResolveTerminalFailure(Job(req[s].proof)))
<1>1. CASE UNCHANGED vars
  BY <1>1 DEF vars
<1>2. ASSUME NEW s \in Slots, Application(s) \/ HandlerDies(s) PROVE UNCHANGED version
  BY <1>2 DEF Application, UploadInit, UploadInitWrite, UploadComplete, UploadConfirm, UploadTx,
              HandlerDies, resultVars
<1>3. ASSUME NEW s \in Slots, NEW p \in Proofs, WorkerRequest(s, p) PROVE UNCHANGED version
  BY <1>3 DEF WorkerRequest, Heartbeat, ResultInit, ResultComplete, Fail, resultVars
<1>4. ASSUME NEW s \in Slots, WorkerHandler(s), ~CommitDiarize(s), ~FailTx(s)
      PROVE  UNCHANGED version
  BY <1>4 DEF WorkerHandler, RenewLease, InitRow, InitDeclare, CompleteConfirm, CompleteParseFails,
              CompleteAuthorize, CommitNormalize, CommitTranscribe, resultVars
<1>5. ASSUME NEW s \in Slots, FailTx(s)
      PROVE  UNCHANGED version \/ ResolveTerminalFailure(Job(req[s].proof))
  BY <1>5 DEF FailTx
<1>6. CASE \/ CancelMeeting \/ ReserveDeletion \/ RequeueExpiredLeases
           \/ \E j \in Jobs : LeaseExpires(j)
           \/ \E c \in Credentials, j \in Jobs : Claim(c, j)
  BY <1>6 DEF CancelMeeting, ReserveDeletion, RequeueExpiredLeases, LeaseExpires, Claim, resultVars
<1> QED BY <1>1, <1>2, <1>3, <1>4, <1>5, <1>6 DEF Next

\* What an ingestion writes, from a transcript that is verified and parses.
LEMMA IngestWrites ==
  ASSUME TypeOK, NEW r \in Runs, NEW a \in Attempts, NEW outcome \in {"ready", "failed"},
         IngestRun(r, outcome, a), upload[Transcript(r, a)] \in {"verified", "ingested"}
  PROVE  /\ version'[r] # NoVersion
         /\ version'[r] # version[r] => version'[r].transcript = a
         /\ \A q \in Runs : q # r => version'[q] = version[q]
         /\ version[r] # NoVersion => version' = version
         /\ upload'[Transcript(r, a)] = "ingested"
         /\ meeting'.transcript = "ready" /\ meeting'.diarization = outcome /\ meeting'.active = r
<1>1. a # 0
  BY AttemptRange
<1>2. [transcript |-> a, diarization |-> outcome] # NoVersion
  BY <1>1 DEF NoVersion
<1>3. upload'[Transcript(r, a)] = "ingested"
  BY TranscriptFields DEF IngestRun
<1>4. meeting'.transcript = "ready" /\ meeting'.diarization = outcome /\ meeting'.active = r
  BY DEF IngestRun, TypeOK, MeetingRow
<1>5. CASE version[r] # NoVersion
  BY <1>3, <1>4, <1>5 DEF IngestRun
<1>6. CASE version[r] = NoVersion
  <2>1. version' = [version EXCEPT ![r] = [transcript |-> a, diarization |-> outcome]]
    BY <1>6 DEF IngestRun
  <2> QED BY <1>2, <1>3, <1>4, <1>6, <2>1 DEF TypeOK
<1> QED BY <1>5, <1>6

\* The ingestions there are: by a diarize that is committed or that failed for good.
LEMMA Ingestions ==
  ASSUME TypeOK, RowsOfRuns, HandlersKeepTheirRead, NEW s \in Slots,
         CommitDiarize(s) \/ (FailTx(s) /\ ResolveTerminalFailure(Job(req[s].proof)))
  PROVE  LET r == req[s].proof.run
         IN  /\ r \in Runs /\ runs[r] # "none" /\ object' = object
             /\ \/ /\ UNCHANGED version /\ meeting'.transcript = "failed"
                \/ \E a \in Attempts, outcome \in {"ready", "failed"} :
                     /\ IngestRun(r, outcome, a) /\ object[Transcript(r, a)] = "good"
                     /\ upload[Transcript(r, a)] \in {"verified", "ingested"}
<1> DEFINE p == req[s].proof
<1>0. p \in Proofs /\ p.run \in Runs /\ Job(p) \in Jobs /\ Job(p).run = p.run
  BY ProofFields DEF TypeOK, Handler
<1>1. \A m \in MeetingRow : LoseRun(p.run, m) => UNCHANGED version /\ meeting'.transcript = "failed"
  BY DEF LoseRun, MeetingRow
<1>2. [meeting EXCEPT !.diarization = "failed"] \in MeetingRow /\ meeting \in MeetingRow
  BY DEF TypeOK, MeetingRow
<1>3. object' = object
  BY DEF CommitDiarize, FailTx
<1>4. CASE CommitDiarize(s)
  <2>1. /\ job[Job(p)].status # "none" /\ req[s].source \in Attempts
        /\ upload[Transcript(p.run, req[s].source)] \in {"verified", "ingested"}
        /\ object[Transcript(p.run, req[s].source)] = "good"
    BY <1>4, DiarizeSettles
  <2>2. LoseRun(p.run, meeting) \/ IngestRun(p.run, "ready", req[s].source)
    BY <1>4 DEF CommitDiarize
  <2>3. runs[p.run] # "none"
    BY <1>0, <2>1 DEF RowsOfRuns
  <2> QED BY <1>0, <1>1, <1>2, <1>3, <2>1, <2>2, <2>3
<1>5. CASE FailTx(s) /\ ResolveTerminalFailure(Job(p))
  <2>1. runs[p.run] # "none"
    <3>1. job[Job(p)].status # "none"
      BY <1>5 DEF FailTx, Holding
    <3> QED BY <1>0, <3>1 DEF RowsOfRuns
  <2>2. \/ LoseRun(p.run, meeting) \/ LoseRun(p.run, [meeting EXCEPT !.diarization = "failed"])
        \/ \E a \in Attempts :
             /\ IsOldestVerified(upload, created, p.run, a)
             /\ object[Transcript(p.run, a)] = "good" /\ IngestRun(p.run, "failed", a)
    BY <1>0, <1>5 DEF ResolveTerminalFailure
  <2> QED BY <1>0, <1>1, <1>2, <1>3, <2>1, <2>2 DEF IsOldestVerified, VerifiedTranscripts
<1> QED BY <1>4, <1>5

\* There is no version at the start.
LEMMA VersionInit == Init => VersionIsVerified
BY DEF Init, VersionIsVerified

\* No step writes a version from a bad transcript, or takes one back.
LEMMA VersionStep ==
  ASSUME TypeOK, RowsOfRuns, HandlersKeepTheirRead, VersionIsVerified, [Next]_vars
  PROVE  VersionIsVerified'
<1> SUFFICES ASSUME NEW r \in Runs, version'[r] # NoVersion
             PROVE  /\ runs'[r] \in Outcomes
                    /\ version'[r].transcript \in Attempts
                    /\ LET p == Transcript(r, version'[r].transcript)
                       IN  upload'[p] = "ingested" /\ object'[p] = "good"
  BY DEF VersionIsVerified
<1>1. CASE version'[r] = version[r]
  <2> DEFINE t == Transcript(r, version[r].transcript)
  <2>1. /\ runs[r] \in Outcomes /\ version[r].transcript \in Attempts
        /\ upload[t] = "ingested" /\ object[t] = "good"
    BY <1>1 DEF VersionIsVerified
  <2>2. runs'[r] \in Outcomes
    BY <2>1, RunSteps DEF RunStep, Outcomes
  <2>3. t \in Proofs /\ t.stage = "transcribe"
    BY <2>1, TranscriptFields
  <2> QED BY <1>1, <2>1, <2>2, <2>3, VerifiedStays DEF VerifiedText
<1>2. CASE version'[r] # version[r]
  <2>1. PICK s \in Slots :
          CommitDiarize(s) \/ (FailTx(s) /\ ResolveTerminalFailure(Job(req[s].proof)))
    BY <1>2, VersionSteps
  <2> DEFINE q == req[s].proof.run
  <2>2. q \in Runs /\ runs[q] # "none" /\ object' = object
    BY <2>1, Ingestions
  <2>3. PICK a \in Attempts, outcome \in {"ready", "failed"} :
          /\ IngestRun(q, outcome, a) /\ object[Transcript(q, a)] = "good"
          /\ upload[Transcript(q, a)] \in {"verified", "ingested"}
    BY <1>2, <2>1, Ingestions
  <2>4. r = q /\ version'[r].transcript = a /\ upload'[Transcript(r, a)] = "ingested"
    BY <1>2, <2>2, <2>3, IngestWrites
  <2>5. runs'[r] \in Outcomes
    BY <2>2, <2>3, <2>4, SettleRuns
  <2> QED BY <2>2, <2>3, <2>4, <2>5
<1> QED BY <1>1, <1>2

\* No text is announced at the start.
LEMMA ReadyInit == Init => ReadyMeansIngested
BY DEF Init, ReadyMeansIngested

\* The text and the diarization of the meeting, apart from an ingestion or a lost run.
LEMMA MeetingSteps ==
  ASSUME TypeOK, [Next]_vars, UNCHANGED version
  PROVE  \/ \E s \in Slots : CommitDiarize(s) \/ (FailTx(s) /\ ResolveTerminalFailure(Job(req[s].proof)))
         \/ meeting'.transcript # "ready"
         \/ /\ meeting'.transcript = meeting.transcript /\ meeting'.active = meeting.active
            /\ meeting'.diarization \in {meeting.diarization, "running"}
<1> USE DEF MeetingRow
<1>0. meeting \in MeetingRow
  BY DEF TypeOK
<1>1. CASE UNCHANGED meeting
  BY <1>1
<1>2. ASSUME NEW s \in Slots, UploadInitWrite(s) \/ UploadConfirm(s) \/ UploadTx(s)
      PROVE  /\ meeting'.transcript = meeting.transcript /\ meeting'.active = meeting.active
             /\ meeting'.diarization = meeting.diarization
  <2>1. \/ UNCHANGED meeting
        \/ \E m : meeting' = [meeting EXCEPT !.media = m]
        \/ meeting' = [meeting EXCEPT !.media = "uploading", !.putUrl = TRUE]
    BY <1>2 DEF UploadInitWrite, UploadConfirm, UploadTx
  <2> QED BY <1>0, <2>1
<1>3. CASE CancelMeeting \/ ReserveDeletion
  BY <1>0, <1>3 DEF CancelMeeting, ReserveDeletion
<1>4. ASSUME NEW c \in Credentials, NEW j \in Jobs, Claim(c, j)
      PROVE  \/ meeting'.transcript = "running"
             \/ /\ meeting'.transcript = meeting.transcript /\ meeting'.active = meeting.active
                /\ meeting'.diarization \in {meeting.diarization, "running"}
  BY <1>0, <1>4 DEF Claim, Running
<1>5. ASSUME NEW s \in Slots, UploadInit(s) \/ UploadComplete(s) \/ HandlerDies(s)
      PROVE  UNCHANGED meeting
  BY <1>5 DEF UploadInit, UploadComplete, HandlerDies
<1>6. ASSUME NEW s \in Slots, NEW p \in Proofs, WorkerRequest(s, p) PROVE UNCHANGED meeting
  BY <1>6 DEF WorkerRequest, Heartbeat, ResultInit, ResultComplete, Fail
<1>7. ASSUME NEW s \in Slots, WorkerHandler(s), ~CommitDiarize(s), ~FailTx(s)
      PROVE  UNCHANGED meeting
  BY <1>7 DEF WorkerHandler, RenewLease, InitRow, InitDeclare, CompleteConfirm, CompleteParseFails,
              CompleteAuthorize, CommitNormalize, CommitTranscribe
<1>8. ASSUME NEW s \in Slots, FailTx(s)
      PROVE  UNCHANGED meeting \/ ResolveTerminalFailure(Job(req[s].proof))
  BY <1>8 DEF FailTx
<1>9. CASE RequeueExpiredLeases \/ (\E j \in Jobs : LeaseExpires(j)) \/ UNCHANGED vars
  BY <1>9 DEF RequeueExpiredLeases, LeaseExpires, vars
<1> QED BY <1>1, <1>2, <1>3, <1>4, <1>5, <1>6, <1>7, <1>8, <1>9 DEF Next, Application

\* No step announces a text without its version.
LEMMA ReadyStep ==
  ASSUME TypeOK, RowsOfRuns, HandlersKeepTheirRead, ReadyMeansIngested, [Next]_vars
  PROVE  ReadyMeansIngested'
<1>1. ASSUME NEW s \in Slots,
             CommitDiarize(s) \/ (FailTx(s) /\ ResolveTerminalFailure(Job(req[s].proof)))
      PROVE  ReadyMeansIngested'
  <2> DEFINE q == req[s].proof.run
  <2>1. CASE meeting'.transcript = "failed"
    BY <2>1 DEF ReadyMeansIngested
  <2>2. ASSUME NEW a \in Attempts, NEW outcome \in {"ready", "failed"}, q \in Runs,
               IngestRun(q, outcome, a), upload[Transcript(q, a)] \in {"verified", "ingested"}
        PROVE  ReadyMeansIngested'
    BY <2>2, IngestWrites DEF ReadyMeansIngested
  <2> QED BY <1>1, <2>1, <2>2, Ingestions
<1>2. CASE ~ \E s \in Slots :
             CommitDiarize(s) \/ (FailTx(s) /\ ResolveTerminalFailure(Job(req[s].proof)))
  <2>1. UNCHANGED version
    BY <1>2, VersionSteps
  <2> QED BY <1>2, <2>1, MeetingSteps DEF ReadyMeansIngested
<1> QED BY <1>1, <1>2

-----------------------------------------------------------------------------
(* The theorems.                                                           *)

\* The invariant holds at the start.
LEMMA IInvInit == Init => IInv
BY InitType, RowsInit, LeaseInit, HandlersInit, StagesInit, ReadyInit, VersionInit DEF IInv

\* The invariant is inductive.
LEMMA IInvStep == IInv /\ [Next]_vars => IInv'
BY NextType, RowsStep, LeaseStep, HandlersStep, StagesStep, ReadyStep, VersionStep DEF IInv

\* The inductive invariant holds in every reachable state, for every value of the constants.
THEOREM IInvHolds == Spec => []IInv
BY IInvInit, IInvStep, PTL DEF Spec

\* The stage chain of an active run has a last link, and it has not ended well or badly.
LEMMA WorkInv == IInv => ActiveRunHasWork
<1> SUFFICES ASSUME IInv, NEW r \in Runs, runs[r] = "active"
             PROVE  \E st \in Stages : job[[run |-> r, stage |-> st]].status
                                        \in Open \union {"abandoned"}
  BY DEF ActiveRunHasWork
<1> DEFINE J(st) == [run |-> r, stage |-> st]
<1>1. \A st \in Stages : J(st) \in Jobs /\ J(st).run = r /\ J(st).stage = st
  BY DEF Jobs
<1>2. \A st \in Stages : job[J(st)] \in JobRow /\ job[J(st)].status \in JobStatus
  BY <1>1 DEF IInv, TypeOK, JobRow
<1>3. /\ job[J("normalize")].status # "none"
      /\ \A st \in Stages :
           /\ job[J(st)].status \notin {"failed", "cancelled"}
           /\ job[J(st)].status = "succeeded" =>
                st # "diarize" /\ job[J(NextStage(st))].status # "none"
  BY <1>1 DEF IInv, ActiveRunStages
<1> QED BY <1>2, <1>3 DEF Stages, NextStage, JobStatus, Open, Holding, Terminal

\* An active run always has a job that can be claimed or is held, unless a worker was given up
\* for dead on its last attempt: the stage chain has a last link, and it has not ended well or
\* badly.
THEOREM ActiveRunsHaveWork == Spec => []ActiveRunHasWork
BY WorkInv, IInvHolds, PTL

\* A job that failed for good has settled its run, for every interleaving of its handlers.
THEOREM FailedJobsEndRuns == Spec => []FailedJobEndsRun
<1>1. IInv => FailedJobEndsRun
  BY JobFields DEF IInv, ActiveRunStages, FailedJobEndsRun
<1> QED BY <1>1, IInvHolds, PTL

\* The text is announced with the version it points to.
THEOREM ReadyIsIngested == Spec => []ReadyMeansIngested
BY IInvHolds, PTL DEF IInv

\* A version stays backed by an ingested transcript that parses, in a finished run.
THEOREM VersionsAreVerified == Spec => []VersionIsVerified
BY IInvHolds, PTL DEF IInv

\* A held job is its latest claim's, whatever the earlier workers still send.
THEOREM LeasesAreLatest == Spec => []LeaseIsLatestClaim
BY IInvHolds, PTL DEF IInv

\* The number of an attempt is never handed out again.
THEOREM AttemptsAreGrantedOnce == Spec => AttemptIsGrantedOnce
<1>1. IInv /\ [Next]_vars =>
        [\A c \in Credentials, j \in Jobs :
            Claim(c, j) => granted[Proof(j, job[j].attempts + 1)] = NoCredential]_vars
  <2> SUFFICES ASSUME IInv, NEW c \in Credentials, NEW j \in Jobs, Claim(c, j)
               PROVE  granted[Proof(j, job[j].attempts + 1)] = NoCredential
    OBVIOUS
  <2> DEFINE q == Proof(j, job[j].attempts + 1)
  <2>1. q.attempt = job[j].attempts + 1 /\ Job(q) = j
    BY JobFields DEF Proof, Job
  <2>2. job[j].attempts \in Nat
    BY AttemptRange DEF IInv, TypeOK, JobRow
  <2>3. q \in Proofs
    BY <2>2, AttemptsAssumption DEF Claim, Claimable, Proof, Proofs, Attempts, Jobs
  <2> QED BY <2>1, <2>2, <2>3 DEF IInv, LeaseIsLatestClaim
<1> QED BY <1>1, IInvHolds, PTL DEF Spec, AttemptIsGrantedOnce

\* The queue of the pipeline implements the queue of LeasedJobs, refused handlers, sweeps and
\* cancellations included.
THEOREM QueueIsImplemented == Spec => QueueSpec
<1>1. Init => Queue!QueueInit
  <2> SUFFICES ASSUME Init PROVE Queue!QueueInit
    OBVIOUS
  <2>1. \A j \in Jobs : /\ Phase(job[j].status) = "absent" /\ job[j].attempts = 0
                        /\ job[j].credential = NoCredential
    BY DEF Init, NoJob, Phase
  <2> QED BY <2>1 DEF Queue!QueueInit
<1>2. IInv /\ [Next]_vars => [\A j \in Jobs : Queue!Move(j) \/ Queue!Stay(j)]_(Queue!queue)
  <2> SUFFICES ASSUME IInv, [Next]_vars, NEW j \in Jobs PROVE Queue!Move(j) \/ Queue!Stay(j)
    OBVIOUS
  <2>1. job[j].status \in JobStatus /\ job[j].attempts \in Nat
    BY AttemptRange DEF IInv, TypeOK, JobRow
  <2>2. CASE Kept(job[j], job'[j])
    <3>1. Queue!Stay(j)
      BY <2>2 DEF Queue!Stay, Queue!Keeps, Kept, Phase
    <3> QED BY <3>1
  <2>3. CASE Created(job[j], job'[j])
    <3>1. job[j].attempts = 0 /\ job[j].credential = NoCredential
      BY <2>3 DEF Created, IInv, RowsOfRuns
    <3>2. Queue!Enqueue(j)
      BY <2>3, <3>1 DEF Queue!Enqueue, Queue!Keeps, Created, Phase
    <3> QED BY <3>2 DEF Queue!Move
  <2>4. CASE Taken(job[j], job'[j])
    <3>1. Queue!Take(j)
      BY <2>4 DEF Queue!Take, Taken, Phase, Holding
    <3> QED BY <3>1 DEF Queue!Move
  <2>5. CASE GivenBack(job[j], job'[j])
    <3>1. Queue!GiveBack(j)
      BY <2>5 DEF Queue!GiveBack, GivenBack, Phase, Holding
    <3> QED BY <3>1 DEF Queue!Move
  <2>6. CASE EndedAs(job[j], job'[j])
    <3>1. Queue!End(j)
      BY <2>6 DEF Queue!End, Queue!Ended, Queue!Keeps, EndedAs, Phase, Holding, Terminal
    <3> QED BY <3>1 DEF Queue!Move
  <2>7. CASE Withdrawn(job[j], job'[j])
    <3>1. Queue!Withdraw(j)
      BY <2>7 DEF Queue!Withdraw, Queue!Keeps, Withdrawn, Phase, Holding
    <3> QED BY <3>1 DEF Queue!Move
  <2>8. CASE \E c \in Credentials, k \in Jobs : Claim(c, k)
    BY <2>2, <2>4, <2>8, ClaimStep DEF IInv, Kept
  <2>9. CASE ~ \E c \in Credentials, k \in Jobs : Claim(c, k)
    BY <2>2, <2>3, <2>5, <2>6, <2>7, <2>9, OtherSteps DEF IInv, QuietStep
  <2> QED BY <2>8, <2>9
<1> QED BY <1>1, <1>2, IInvHolds, PTL DEF Spec, QueueSpec, Queue!QueueSpec

-----------------------------------------------------------------------------
(* Liveness: a started run settles. StepsAreEnabled stays a hypothesis, which TLC checks, as *)
(* ENABLED is beyond the provers. First what the lease of a held job and the queue keep to.  *)

\* A held job has a lease, one that waits has an attempt left, and retries keep to their bound.
LeaseFits ==
  \A j \in Jobs : /\ job[j].status = "leased" => job[j].lease \in {"live", "expired"}
                  /\ job[j].status = "queued" => job[j].attempts < MaxAttempts
RetriesFit == Retries <= MaxRetries

\* A row that is held after a step was held as it is, or its lease was written.
LEMMA HeldRows ==
  ASSUME TypeOK, [Next]_vars, NEW k \in Jobs, job'[k].status = "leased"
  PROVE  job'[k] = job[k] \/ job'[k].lease \in {"live", "expired"}
<1> DEFINE Goal == job'[k] = job[k] \/ job'[k].lease \in {"live", "expired"}
<1>1. CASE UNCHANGED job
  BY <1>1
<1>2. ASSUME NEW s \in Slots, UploadTx(s) PROVE Goal
  <2>1. PICK r \in Runs : job' = CreateJob(job, [run |-> r, stage |-> "normalize"])
    BY <1>2 DEF UploadTx
  <2>2. PICK j : j = [run |-> r, stage |-> "normalize"]
    OBVIOUS
  <2>3. j \in Jobs
    BY <2>2 DEF Jobs, Stages
  <2>4. job'[k] = job[k] \/ Created(job[k], job'[k])
    BY <2>1, <2>2, <2>3, CreateJobAt DEF TypeOK
  <2> QED BY <2>4 DEF Created
<1>3. CASE CancelMeeting \/ RequeueExpiredLeases
  <2>1. job \in [Jobs -> JobRow]
    BY DEF TypeOK
  <2>2. CASE job' = CancelJobsForMeeting(job)
    BY <2>1, <2>2, SweepsAt DEF EndedAs, Withdrawn, Terminal
  <2>3. CASE job' = RequeueExpired(job)
    BY <2>1, <2>3, SweepsAt DEF GivenBack, EndedAs, Terminal
  <2> QED BY <1>3, <2>2, <2>3 DEF CancelMeeting, RequeueExpiredLeases
<1>4. ASSUME NEW j \in Jobs, LeaseExpires(j) \/ \E c \in Credentials : Claim(c, j) PROVE Goal
  <2>1. job \in [Jobs -> JobRow] /\ job[k] \in JobRow
    BY DEF TypeOK
  <2>2. k # j => job'[k] = job[k]
    BY <1>4, <2>1 DEF LeaseExpires, Claim
  <2>3. LeaseExpires(j) /\ k = j => job'[k].lease = "expired"
    BY <2>1 DEF LeaseExpires, JobRow
  <2>4. ASSUME NEW c \in Credentials, Claim(c, j), k = j PROVE job'[k].lease = "live"
    BY <2>1, <2>4 DEF Claim
  <2> QED BY <1>4, <2>2, <2>3, <2>4
<1>5. ASSUME NEW s \in Slots, RenewLease(s) PROVE Goal
  BY <1>5 DEF RenewLease, TypeOK, JobRow
<1>6. ASSUME NEW s \in Slots, CommitNormalize(s) \/ CommitTranscribe(s) PROVE Goal
  <2>1. req[s].proof \in Proofs /\ req[s].proof.stage # "diarize" /\ job' = Succeed(job, req[s].proof)
    BY <1>6 DEF CommitNormalize, CommitTranscribe, TypeOK, Handler
  <2> QED BY <2>1, SucceedAt DEF TypeOK, Created
<1>7. ASSUME NEW s \in Slots, CommitDiarize(s) PROVE Goal
  <2>1. Job(req[s].proof) \in Jobs /\ job' = MarkSucceeded(job, Job(req[s].proof))
    BY <1>7, ProofFields DEF CommitDiarize, TypeOK, Handler
  <2> QED BY <2>1, MarkSucceededAt DEF TypeOK
<1>8. ASSUME NEW s \in Slots, FailTx(s) PROVE Goal
  <2>1. /\ Job(req[s].proof) \in Jobs /\ job[Job(req[s].proof)].status \in Holding
        /\ job' = MarkFailed(job, Job(req[s].proof))
    BY <1>8, ProofFields DEF FailTx, TypeOK, Handler
  <2> QED BY <2>1, MarkFailedAt DEF TypeOK, GivenBack
<1>9. ASSUME NEW s \in Slots,
             \/ UploadInit(s) \/ UploadInitWrite(s) \/ UploadComplete(s) \/ UploadConfirm(s)
             \/ InitRow(s) \/ InitDeclare(s) \/ CompleteConfirm(s) \/ CompleteParseFails(s)
             \/ CompleteAuthorize(s) \/ HandlerDies(s)
             \/ \E p \in Proofs : WorkerRequest(s, p)
      PROVE  Goal
  BY <1>1, <1>9, QueueUntouched
<1>10. CASE ReserveDeletion \/ UNCHANGED vars
  BY <1>1, <1>10 DEF ReserveDeletion, queueVars, vars
<1> QED
  BY <1>2, <1>3, <1>4, <1>5, <1>6, <1>7, <1>8, <1>9, <1>10 DEF Next, Application, WorkerHandler

\* How a step moves a row of the queue, claims included.
LEMMA RowMoves ==
  ASSUME TypeOK, [Next]_vars, NEW k \in Jobs
  PROVE  QuietStep(job[k], job'[k]) \/ Taken(job[k], job'[k])
<1>1. CASE \E c \in Credentials, j \in Jobs : Claim(c, j)
  BY <1>1, ClaimStep DEF QuietStep, Kept
<1>2. CASE ~ \E c \in Credentials, j \in Jobs : Claim(c, j)
  BY <1>2, OtherSteps
<1> QED BY <1>1, <1>2

LEMMA LeaseFitsStep == IInv /\ LeaseFits /\ [Next]_vars => LeaseFits'
<1> SUFFICES ASSUME IInv, LeaseFits, [Next]_vars, NEW k \in Jobs
             PROVE  /\ job'[k].status = "leased" => job'[k].lease \in {"live", "expired"}
                    /\ job'[k].status = "queued" => job'[k].attempts < MaxAttempts
  BY DEF LeaseFits
<1>1. TypeOK /\ (job[k].status = "leased" => job[k].lease \in {"live", "expired"})
  BY DEF IInv, LeaseFits
<1>2. job[k].status = "queued" => job[k].attempts < MaxAttempts
  BY DEF LeaseFits
<1>3. QuietStep(job[k], job'[k]) \/ Taken(job[k], job'[k])
  BY <1>1, RowMoves
<1>4. job'[k].status = "queued" => job'[k].attempts < MaxAttempts
  BY <1>2, <1>3, AttemptsAssumption
     DEF QuietStep, Kept, Created, GivenBack, EndedAs, Withdrawn, Taken, Terminal
<1> QED BY <1>1, <1>4, HeldRows

LEMMA ProofsAreFinite == IsFiniteSet(Proofs)
<1> DEFINE T == Runs \X (Stages \X Attempts)
           f == [t \in T |-> [run |-> t[1], stage |-> t[2][1], attempt |-> t[2][2]]]
<1>1. IsFiniteSet(Runs) /\ IsFiniteSet(Attempts)
  BY FS_Interval, RunsAssumption, AttemptsAssumption DEF Runs, Attempts
<1>2. IsFiniteSet(Stages)
  <2>1. IsFiniteSet({"normalize"})
    BY FS_Singleton
  <2>2. IsFiniteSet({"normalize"} \cup {"transcribe"})
    BY <2>1, FS_AddElement
  <2>3. IsFiniteSet(({"normalize"} \cup {"transcribe"}) \cup {"diarize"})
    BY <2>2, FS_AddElement
  <2>4. Stages = ({"normalize"} \cup {"transcribe"}) \cup {"diarize"}
    BY DEF Stages
  <2> QED BY <2>3, <2>4
<1>3. IsFiniteSet(Stages \X Attempts)
  BY <1>1, <1>2, FS_Product
<1>4. IsFiniteSet(T)
  BY <1>1, <1>3, FS_Product
<1>5. f \in Surjection(T, Proofs)
  <2>1. f \in [T -> Proofs]
    BY DEF Proofs
  <2>2. ASSUME NEW p \in Proofs PROVE \E t \in T : f[t] = p
    <3>1. <<p.run, <<p.stage, p.attempt>>>> \in T
      BY DEF Proofs
    <3>2. f[<<p.run, <<p.stage, p.attempt>>>>] = p
      BY <3>1 DEF Proofs
    <3> QED BY <3>1, <3>2
  <2> QED BY <2>1, <2>2 DEF Surjection
<1> QED BY <1>4, <1>5, FS_Surjection

LEMMA RetriesInit == Init => RetriesFit
<1> SUFFICES ASSUME Init PROVE Retries <= MaxRetries
  BY DEF RetriesFit
<1>1. {p \in Proofs : p.attempt > 1 /\ granted[p] # NoCredential} = {}
  BY DEF Init
<1> QED BY <1>1, FS_EmptySet, RetriesAssumption DEF Retries

LEMMA RetriesStep == IInv /\ RetriesFit /\ [Next]_vars => RetriesFit'
<1> SUFFICES ASSUME IInv, RetriesFit, [Next]_vars PROVE RetriesFit'
  OBVIOUS
<1> DEFINE R == {p \in Proofs : p.attempt > 1 /\ granted[p] # NoCredential}
           S == {p \in Proofs : p.attempt > 1 /\ granted'[p] # NoCredential}
<1>1. Cardinality(R) <= MaxRetries /\ IsFiniteSet(R) /\ Cardinality(R) \in Nat
  BY ProofsAreFinite, FS_Subset, FS_CardinalityType DEF RetriesFit, Retries
<1>2. Cardinality(S) <= MaxRetries
  <2>1. ASSUME NEW c \in Credentials, NEW j \in Jobs, Claim(c, j) PROVE Cardinality(S) <= MaxRetries
    <3> DEFINE q == Proof(j, job[j].attempts + 1)
    <3>1. granted' = [granted EXCEPT ![q] = c] /\ (job[j].attempts > 0 => Cardinality(R) < MaxRetries)
      BY <2>1 DEF Claim, Retries
    <3>2. job[j].attempts \in Nat /\ q.attempt = job[j].attempts + 1
      BY AttemptRange DEF IInv, TypeOK, JobRow, Proof
    <3>3. S \subseteq R \cup {q} /\ (job[j].attempts = 0 => S \subseteq R)
      BY <3>1, <3>2 DEF IInv, TypeOK
    <3> HIDE DEF R, S, q
    <3>4. CASE job[j].attempts = 0
      <4>1. Cardinality(S) <= Cardinality(R) /\ Cardinality(S) \in Nat
        BY <1>1, <3>3, <3>4, FS_Subset, FS_CardinalityType
      <4> QED BY <1>1, <4>1, RetriesAssumption
    <3>5. CASE job[j].attempts # 0
      <4>0. IsFiniteSet(R \cup {q}) /\ Cardinality(R \cup {q}) \in Nat
        BY <1>1, FS_AddElement, FS_CardinalityType
      <4>1. IsFiniteSet(R \cup {q}) /\ Cardinality(R \cup {q}) <= Cardinality(R) + 1 /\ Cardinality(R \cup {q}) \in Nat
        BY <1>1, <4>0, FS_AddElement
      <4>2. Cardinality(S) <= Cardinality(R \cup {q}) /\ Cardinality(S) \in Nat
        BY <3>3, <4>1, FS_Subset, FS_CardinalityType
      <4>3. Cardinality(R) < MaxRetries
        BY <3>1, <3>2, <3>5
      <4> QED BY <1>1, <4>1, <4>2, <4>3, RetriesAssumption
    <3> QED BY <3>4, <3>5
  <2>2. CASE ~ \E c \in Credentials, j \in Jobs : Claim(c, j)
    BY <1>1, <2>2, OtherSteps DEF IInv
  <2> QED BY <2>1, <2>2
<1> QED BY <1>2 DEF RetriesFit, Retries

LEMMA QueueFits == Spec => [](LeaseFits /\ RetriesFit)
<1>1. Init => LeaseFits
  BY AttemptsAssumption DEF Init, LeaseFits, NoJob
<1> QED BY <1>1, LeaseFitsStep, RetriesInit, RetriesStep, IInvHolds, PTL DEF Spec

-----------------------------------------------------------------------------
(* What holds all along a fair behaviour. *)

ClaimFair(j) == WF_vars(\E c \in Credentials : Claim(c, j))
ExpiryFair(j) == WF_vars(LeaseExpires(j))
FairToJobs == (\A j \in Jobs : ClaimFair(j)) /\ (\A j \in Jobs : ExpiryFair(j))
Working ==
  /\ [][Next]_vars /\ []IInv /\ []LeaseFits /\ []RetriesFit /\ []StepsAreEnabled
  /\ FairToJobs /\ SF_vars(RequeueExpiredLeases)

LEMMA WorkingStays == Working => []Working
<1>1. ASSUME NEW j \in Jobs PROVE ClaimFair(j) => []ClaimFair(j)
  BY PTL DEF ClaimFair
<1>2. ASSUME NEW j \in Jobs PROVE ExpiryFair(j) => []ExpiryFair(j)
  BY PTL DEF ExpiryFair
<1>3. FairToJobs => (\A j \in Jobs : []ClaimFair(j)) /\ (\A j \in Jobs : []ExpiryFair(j))
  BY <1>1, <1>2 DEF FairToJobs
<1>4. (\A j \in Jobs : []ClaimFair(j)) => [](\A j \in Jobs : ClaimFair(j))
  OBVIOUS
<1>5. (\A j \in Jobs : []ExpiryFair(j)) => [](\A j \in Jobs : ExpiryFair(j))
  OBVIOUS
<1>6. FairToJobs => []FairToJobs
  BY <1>3, <1>4, <1>5, PTL DEF FairToJobs
<1> QED BY <1>6, PTL DEF Working

LEMMA Works == FairSpec /\ []StepsAreEnabled => Working
<1>1. Fairness => FairToJobs /\ SF_vars(RequeueExpiredLeases)
  BY PTL DEF Fairness, FairToJobs, ClaimFair, ExpiryFair
<1> QED BY <1>1, IInvHolds, QueueFits, PTL DEF FairSpec, Spec, Working

-----------------------------------------------------------------------------
(* A finite set all of whose members leave for good is empty for good. What is emptied: the *)
(* proofs outside D that hold their job, those of D that do not, and the numbers of attempts. *)

LEMMA FiniteInduction ==
  ASSUME NEW S, IsFiniteSet(S), NEW g,
         \A U \in SUBSET S : (\A x \in U : g[U \ {x}]) => g[U]
  PROVE  \A U \in SUBSET S : g[U]
<1> SUFFICES ASSUME NEW V \in SUBSET S, ~g[V] PROVE FALSE
  OBVIOUS
<1>1. PICK T : T = {U \in SUBSET S : ~g[U]}
  OBVIOUS
<1>2. IsWellFoundedOn(StrictSubsetOrdering(S), SUBSET S)
  BY FS_StrictSubsetOrderingWellFounded, FS_FiniteSubsetsOfFinite
<1>3. PICK U \in T : \A W \in T : ~(<<W, U>> \in StrictSubsetOrdering(S))
  <2>1. V \in T /\ T \subseteq SUBSET S /\ T # {}
    BY <1>1
  <2> QED BY <1>2, <2>1, WFMin
<1>4. PICK x \in U : ~g[U \ {x}]
  BY <1>1, <1>3
<1>5. U \ {x} \in T /\ U \in SUBSET S
  BY <1>1, <1>3, <1>4
<1>6. <<U \ {x}, U>> \in StrictSubsetOrdering(S)
  BY <1>5, <1>4 DEF StrictSubsetOrdering
<1> QED BY <1>3, <1>5, <1>6

Holds(p) == job[Job(p)].status = "leased" /\ job[Job(p)].attempts = p.attempt
Left(k) ==
  CASE k[1] = "held" -> {p \in Proofs \ k[2] : Holds(p)}
    [] k[1] = "freed" -> {p \in k[2] : ~Holds(p)}
    [] k[1] = "tried" -> {job[k[2]].attempts}
GoesOut(k, x) == <>[](x \notin Left(k))
AllGoOut(k, S) == \A x \in S : GoesOut(k, x)
Empties(k, U) == <>[](Left(k) \cap U = {})
Emptied(k, S, U) == AllGoOut(k, S) => Empties(k, U)
Emptyings(k, S) == [U \in SUBSET S |-> Emptied(k, S, U)]
Given(t) == t \/ TRUE

LEMMA OneMoreGoes ==
  ASSUME NEW k, NEW S, NEW U \in SUBSET S
  PROVE  (\A x \in U : Emptied(k, S, U \ {x})) => Emptied(k, S, U)
<1>1. CASE U = {}
  <2>1. Left(k) \cap U = {}
    BY <1>1
  <2> QED BY <2>1, PTL DEF Empties, Emptied
<1>2. CASE U # {}
  <2>1. PICK x \in U : TRUE
    BY <1>2
  <2>2. Left(k) \cap (U \ {x}) = {} /\ x \notin Left(k) => Left(k) \cap U = {}
    OBVIOUS
  <2>3. Empties(k, U \ {x}) /\ GoesOut(k, x) => Empties(k, U)
    BY <2>2, PTL DEF Empties, GoesOut
  <2>4. AllGoOut(k, S) => GoesOut(k, x)
    BY <2>1 DEF AllGoOut
  <2> QED BY <2>1, <2>3, <2>4 DEF Emptied
<1> QED BY <1>1, <1>2

LEMMA AllAreOut ==
  ASSUME NEW k, NEW S, IsFiniteSet(S)
  PROVE  AllGoOut(k, S) => Empties(k, S)
<1>1. PICK g : \A U \in SUBSET S : g[U] <=> Emptied(k, S, U)
  <2>1. Given(Emptyings(k, S))
    BY DEF Given
  <2> QED BY <2>1, SMTT(20) DEF Emptyings
<1>2. \A U \in SUBSET S : (\A x \in U : g[U \ {x}]) => g[U]
  <2>1. ASSUME NEW U \in SUBSET S
        PROVE  (\A x \in U : Emptied(k, S, U \ {x})) => Emptied(k, S, U)
    BY OneMoreGoes
  <2> QED BY <1>1, <2>1
<1>3. g[S]
  BY <1>2, FiniteInduction
<1> QED BY <1>1, <1>3 DEF Emptied

-----------------------------------------------------------------------------
(* No lease is kept for ever: sweeps come to an end, as each of them takes a lease that no *)
(* claim gives again, and a lease that no sweep takes does not expire.                      *)

Done(p) == job[Job(p)].attempts >= p.attempt /\ ~Holds(p)

\* An attempt is held once, from its claim on.
LEMMA AttemptIsOver ==
  ASSUME IInv, [Next]_vars, NEW p \in Proofs
  PROVE  /\ Holds(p) => Holds(p)' \/ Done(p)'
         /\ Done(p) => Done(p)'
<1>1. Job(p) \in Jobs /\ p.attempt \in Nat /\ p.attempt > 0
  BY ProofFields, AttemptRange
<1> DEFINE j == Job(p)
<1>2. job[j].attempts \in Nat /\ (job[j].status = "none" => job[j].attempts = 0)
  BY <1>1, AttemptRange DEF IInv, TypeOK, JobRow, RowsOfRuns
<1>3. QuietStep(job[j], job'[j]) \/ Taken(job[j], job'[j])
  BY <1>1, RowMoves DEF IInv
<1>4. job'[j].attempts = job[j].attempts \/ job'[j].attempts = job[j].attempts + 1
  BY <1>2, <1>3 DEF QuietStep, Kept, Created, GivenBack, EndedAs, Withdrawn, Taken
<1>5. job'[j].status = "leased" => (job[j].status = "leased" /\ job'[j].attempts = job[j].attempts) \/ job'[j].attempts = job[j].attempts + 1
  BY <1>3 DEF QuietStep, Kept, Created, GivenBack, EndedAs, Withdrawn, Taken, Terminal
<1> QED BY <1>1, <1>2, <1>4, <1>5 DEF Holds, Done

LEMMA HeldByProof ==
  ASSUME IInv, NEW j \in Jobs, job[j].status = "leased"
  PROVE  \E p \in Proofs : Holds(p) /\ Job(p) = j
<1>1. job[j].attempts \in 0 .. MaxAttempts
  BY DEF IInv, TypeOK, JobRow
<1>2. Proof(j, 1) \in Proofs /\ Job(Proof(j, 1)) = j
  BY JobFields, AttemptsAssumption DEF Attempts, Proof, Job
<1>3. job[j].attempts > 0
  BY <1>2 DEF IInv, LeaseIsLatestClaim, Holding
<1>4. job[j].attempts \in Attempts
  BY <1>1, <1>3 DEF Attempts
<1> DEFINE p == Proof(j, job[j].attempts)
<1>5. p \in Proofs /\ Job(p) = j /\ p.attempt = job[j].attempts
  BY <1>4, JobFields DEF Proof, Job
<1>6. Holds(p)
  BY <1>5 DEF Holds
<1> QED BY <1>5, <1>6

\* A sweep takes every expired lease.
LEMMA SweepTakes ==
  ASSUME TypeOK, RequeueExpiredLeases, NEW j \in Jobs, Expired(job[j])
  PROVE  job'[j].status # "leased"
<1>1. job[j] \in JobRow
  BY DEF TypeOK
<1>2. job'[j] = Requeued(job[j]) \/ job'[j] = Closed(job[j], "abandoned")
  BY DEF RequeueExpiredLeases, RequeueExpired
<1>3. Requeued(job[j]).status = "queued" /\ Closed(job[j], "abandoned").status = "abandoned"
  BY <1>1 DEF Requeued, Closed, JobRow
<1> QED BY <1>2, <1>3

HeldForEver(p) == <>[]Holds(p)
Calm(D) == \A p \in Proofs : Holds(p) <=> p \in D
CalmInTheEnd(D) == <>[]Calm(D)

LEMMA LeasesCalm ==
  ASSUME NEW D, D \subseteq Proofs
  PROVE  Working /\ (\A p \in Proofs : HeldForEver(p) <=> p \in D) => CalmInTheEnd(D)
<1> DEFINE k == <<"held", D>>
           m == <<"freed", D>>
           Those == \A p \in Proofs : HeldForEver(p) <=> p \in D
<1>1. \A p : (p \in Left(k) <=> p \in Proofs \ D /\ Holds(p)) /\ (p \in Left(m) <=> p \in D /\ ~Holds(p))
  BY DEF Left
<1>2. Left(k) \cap Proofs = {} /\ Left(m) \cap Proofs = {} => Calm(D)
  BY <1>1 DEF Calm
<1>5. ASSUME NEW p \in Proofs PROVE Working /\ Those => GoesOut(k, p)
  <2>1. CASE p \in D
    <3>1. p \notin Left(k)
      BY <1>1, <2>1
    <3> HIDE DEF k
    <3> QED BY <3>1, PTL DEF GoesOut
  <2>2. CASE p \notin D
    <3>1. Those => ~HeldForEver(p)
      BY <2>2
    <3>2. IInv /\ [Next]_vars => (Holds(p) => Holds(p)' \/ Done(p)') /\ (Done(p) => Done(p)')
      BY AttemptIsOver
    <3>3. Done(p) => ~Holds(p)
      BY DEF Done
    <3>4. ~Holds(p) => p \notin Left(k)
      BY <1>1
    <3> HIDE DEF Those, k
    <3> QED BY <3>4, <3>1, <3>2, <3>3, PTL DEF GoesOut, HeldForEver, Working
  <2> QED BY <2>1, <2>2
<1>6. ASSUME NEW p \in Proofs PROVE Working /\ Those => GoesOut(m, p)
  <2>1. CASE p \in D
    <3>1. Those => HeldForEver(p)
      BY <2>1
    <3>2. Holds(p) => p \notin Left(m)
      BY <1>1
    <3> HIDE DEF Those, m
    <3> QED BY <3>1, <3>2, PTL DEF GoesOut, HeldForEver
  <2>2. CASE p \notin D
    <3>1. p \notin Left(m)
      BY <1>1, <2>2
    <3> HIDE DEF m
    <3> QED BY <3>1, PTL DEF GoesOut
  <2> QED BY <2>1, <2>2
<1>7. Working /\ Those => Empties(k, Proofs) /\ Empties(m, Proofs)
  <2>1. (AllGoOut(k, Proofs) => Empties(k, Proofs)) /\ (AllGoOut(m, Proofs) => Empties(m, Proofs))
    BY ProofsAreFinite, AllAreOut
  <2> HIDE DEF Those
  <2> QED BY <1>5, <1>6, <2>1 DEF AllGoOut
<1> HIDE DEF Those, k, m
<1>8. Working /\ Those => CalmInTheEnd(D)
  BY <1>2, <1>7, PTL DEF Empties, CalmInTheEnd
<1> QED BY <1>8 DEF Those

LEMMA CalmHasNoLease ==
  ASSUME NEW D, NEW p \in D, D \subseteq Proofs
  PROVE  Working => ~CalmInTheEnd(D)
<1>1. IInv /\ Calm(D) /\ RequeueExpiredLeases => ~Calm(D)'
  <2> SUFFICES ASSUME IInv, Calm(D), RequeueExpiredLeases, Calm(D)' PROVE FALSE
    OBVIOUS
  <2>1. PICK j \in Jobs : Expired(job[j])
    BY DEF RequeueExpiredLeases
  <2>2. job[j].status = "leased" /\ job'[j].status # "leased"
    BY <2>1, SweepTakes DEF Expired, Holding, IInv
  <2>3. PICK q \in Proofs : Holds(q) /\ Job(q) = j
    BY <2>2, HeldByProof
  <2> QED BY <2>2, <2>3 DEF Calm, Holds
<1>2. PICK j \in Jobs : j = Job(p)
  BY ProofFields
<1>3. LeaseFits /\ Calm(D) => job[j].lease = "live" \/ (\E i \in Jobs : Expired(job[i]))
  <2> SUFFICES ASSUME LeaseFits, Calm(D), job[j].lease # "live" PROVE Expired(job[j])
    BY <1>2
  <2> QED BY <1>2 DEF Calm, Holds, LeaseFits, Expired, Holding
<1>4. StepsAreEnabled => (job[j].lease = "live" => ENABLED <<LeaseExpires(j)>>_vars)
                         /\ ((\E i \in Jobs : Expired(job[i])) => ENABLED <<RequeueExpiredLeases>>_vars)
  BY <1>2 DEF StepsAreEnabled
<1>5. IInv /\ Calm(D) /\ <<LeaseExpires(j)>>_vars => ~(job[j].lease = "live")'
  BY <1>2 DEF LeaseExpires, IInv, TypeOK, JobRow
<1>6. FairToJobs => ExpiryFair(j)
  BY <1>2 DEF FairToJobs
<1> QED BY <1>1, <1>3, <1>4, <1>5, <1>6, WorkingStays, PTL DEF Working, ExpiryFair, CalmInTheEnd

Keepers == [p \in Proofs |-> HeldForEver(p)]

LEMMA NoLeaseIsKept ==
  ASSUME NEW p \in Proofs
  PROVE  Working => ~HeldForEver(p)
<1>1. PICK d : \A q \in Proofs : d[q] <=> HeldForEver(q)
  <2>1. Given(Keepers)
    BY DEF Given
  <2> QED BY <2>1, SMTT(20) DEF Keepers
<1>2. PICK D : D = {q \in Proofs : d[q]}
  OBVIOUS
<1>3. D \subseteq Proofs /\ \A q \in Proofs : HeldForEver(q) <=> q \in D
  BY <1>1, <1>2
<1>4. Working => CalmInTheEnd(D)
  BY <1>3, LeasesCalm
<1>5. ASSUME p \in D PROVE Working => ~CalmInTheEnd(D)
  BY <1>3, <1>5, CalmHasNoLease
<1> QED BY <1>3, <1>4, <1>5

-----------------------------------------------------------------------------
(* So a job of a run that is stuck does not stay open: it would be claimed once more again *)
(* and again, and its attempts are counted.                                                 *)

Stuck(r) ==
  /\ runs[r] = "active" /\ meeting.deletion = "live" /\ ~RetriesSpent
  /\ \A st \in Stages : job[[run |-> r, stage |-> st]].status # "abandoned"
StaysStuck(r) == []Stuck(r)

IsOpen(j) == job[j].status \in Open
Over(j) == job[j].status \in Terminal
Waiting(j, n) == job[j].status = "queued" /\ job[j].attempts = n
HeldAt(j, n) == job[j].status = "leased" /\ job[j].attempts = n
Tried(j, n) == job[j].attempts = n
TriedMore(j, n) == job[j].attempts > n
StaysOpenAt(j, n) == <>[](IsOpen(j) /\ Tried(j, n))
StaysOpen(j) == <>[]IsOpen(j)
EndsOpen(j) == <>[]~IsOpen(j)

LEMMA WaitingIsClaimed ==
  ASSUME NEW r \in Runs, NEW j \in Jobs, NEW n
  PROVE  Working /\ StaysStuck(r) => ~<>[]Waiting(j, n)
<1>1. LeaseFits /\ RetriesFit /\ StepsAreEnabled /\ Stuck(r) /\ Waiting(j, n)
        => ENABLED <<\E c \in Credentials : Claim(c, j)>>_vars
  <2> SUFFICES ASSUME LeaseFits, RetriesFit, Stuck(r), Waiting(j, n)
               PROVE  Claimable(j) /\ (job[j].attempts > 0 => Retries < MaxRetries)
    BY DEF StepsAreEnabled
  <2>1. Claimable(j)
    BY DEF LeaseFits, Stuck, Waiting, Claimable
  <2>2. job[j].attempts > 0 => Retries # MaxRetries
    BY <2>1 DEF Stuck, RetriesSpent
  <2>3. Retries \in Nat
    <3>1. IsFiniteSet({p \in Proofs : p.attempt > 1 /\ granted[p] # NoCredential})
      BY ProofsAreFinite, FS_Subset
    <3> QED BY <3>1, FS_CardinalityType DEF Retries
  <2> QED BY <2>1, <2>2, <2>3, RetriesAssumption DEF RetriesFit
<1>2. IInv /\ <<\E c \in Credentials : Claim(c, j)>>_vars => ~Waiting(j, n)'
  BY ClaimStep DEF Waiting, Taken, IInv
<1>3. FairToJobs => ClaimFair(j)
  BY DEF FairToJobs
<1> QED BY <1>1, <1>2, <1>3, PTL DEF Working, ClaimFair, StaysStuck

LEMMA OpenIsClaimed ==
  ASSUME NEW r \in Runs, NEW j \in Jobs, NEW n \in 0 .. MaxAttempts
  PROVE  Working /\ StaysStuck(r) => ~StaysOpenAt(j, n)
<1>1. IsOpen(j) /\ Tried(j, n) => Waiting(j, n) \/ HeldAt(j, n)
  BY DEF IsOpen, Tried, Open, Waiting, HeldAt
<1>2. IInv /\ [Next]_vars /\ Waiting(j, n) => ~HeldAt(j, n)'
  <2> SUFFICES ASSUME IInv, [Next]_vars, Waiting(j, n), HeldAt(j, n)' PROVE FALSE
    OBVIOUS
  <2>1. QuietStep(job[j], job'[j]) \/ Taken(job[j], job'[j])
    BY RowMoves DEF IInv
  <2> QED BY <2>1, AttemptRange
          DEF Waiting, HeldAt, QuietStep, Kept, Created, GivenBack, EndedAs, Withdrawn, Taken, Terminal
<1>3. Working => ~<>[]HeldAt(j, n)
  <2>1. CASE n > 0
    <3>1. PICK p \in Proofs : p = Proof(j, n)
      BY <2>1, JobFields DEF Attempts
    <3>2. HeldAt(j, n) => Holds(p)
      BY <3>1, JobFields DEF HeldAt, Holds, Job, Proof
    <3>3. Working => ~HeldForEver(p)
      BY NoLeaseIsKept
    <3> QED BY <3>2, <3>3, PTL DEF HeldForEver
  <2>2. CASE ~(n > 0)
    <3>1. IInv => ~HeldAt(j, n)
      <4> SUFFICES ASSUME IInv, HeldAt(j, n) PROVE FALSE
        OBVIOUS
      <4>1. PICK p \in Proofs : Holds(p) /\ Job(p) = j
        BY HeldByProof DEF HeldAt
      <4>2. p.attempt > 0
        BY ProofFields, AttemptRange
      <4> QED BY <2>2, <4>1, <4>2 DEF Holds, HeldAt
    <3> QED BY <3>1, PTL DEF Working
  <2> QED BY <2>1, <2>2
<1>4. Working /\ StaysStuck(r) => ~<>[]Waiting(j, n)
  BY WaitingIsClaimed
<1> QED BY <1>1, <1>2, <1>3, <1>4, PTL DEF Working, StaysOpenAt

LEMMA NobodyStaysOpen ==
  ASSUME NEW r \in Runs, NEW j \in Jobs
  PROVE  Working /\ StaysStuck(r) => ~StaysOpen(j)
<1> DEFINE k == <<"tried", j>>
           S == 0 .. MaxAttempts
<1>1. \A n : n \notin Left(k) <=> ~Tried(j, n)
  BY DEF Left, Tried
<1>2. ASSUME NEW n \in S PROVE Working /\ StaysStuck(r) /\ StaysOpen(j) => GoesOut(k, n)
  <2>1. n \notin Left(k) <=> ~Tried(j, n)
    BY <1>1
  <2>2. IInv /\ [Next]_vars => /\ Tried(j, n) => Tried(j, n)' \/ TriedMore(j, n)'
                               /\ TriedMore(j, n) => TriedMore(j, n)'
    <3> SUFFICES ASSUME IInv, [Next]_vars
                 PROVE  /\ Tried(j, n) => Tried(j, n)' \/ TriedMore(j, n)'
                        /\ TriedMore(j, n) => TriedMore(j, n)'
      OBVIOUS
    <3>1. job[j].attempts \in Nat /\ (job[j].status = "none" => job[j].attempts = 0)
      BY AttemptRange DEF IInv, TypeOK, JobRow, RowsOfRuns
    <3>2. QuietStep(job[j], job'[j]) \/ Taken(job[j], job'[j])
      BY RowMoves DEF IInv
    <3>3. job'[j].attempts = job[j].attempts \/ job'[j].attempts = job[j].attempts + 1
      BY <3>1, <3>2 DEF QuietStep, Kept, Created, GivenBack, EndedAs, Withdrawn, Taken
    <3> QED BY <3>1, <3>3, AttemptRange DEF Tried, TriedMore
  <2>3. TriedMore(j, n) => ~Tried(j, n)
    BY AttemptRange DEF Tried, TriedMore
  <2>4. Working /\ StaysStuck(r) => ~StaysOpenAt(j, n)
    BY OpenIsClaimed
  <2> HIDE DEF k
  <2> QED BY <2>1, <2>2, <2>3, <2>4, PTL DEF Working, GoesOut, StaysOpen, StaysOpenAt
<1>3. AllGoOut(k, S) => Empties(k, S)
  BY FS_Interval, AttemptsAssumption, AllAreOut
<1>4. IInv => ~(Left(k) \cap S = {})
  BY DEF IInv, TypeOK, JobRow, Left
<1> HIDE DEF k, S
<1>5. Working /\ StaysStuck(r) /\ StaysOpen(j) => AllGoOut(k, S)
  BY <1>2 DEF AllGoOut
<1> QED BY <1>3, <1>4, <1>5, PTL DEF Empties, Working

LEMMA NobodyIsStuck ==
  ASSUME NEW r \in Runs
  PROVE  Working => ~StaysStuck(r)
<1> DEFINE J(st) == [run |-> r, stage |-> st]
<1>1. \A st \in Stages : J(st) \in Jobs
  BY DEF Jobs
<1>2. PICK a \in Jobs, b \in Jobs, c \in Jobs : a = J("normalize") /\ b = J("transcribe") /\ c = J("diarize")
  BY <1>1 DEF Stages
<1>3. IInv /\ Stuck(r) => IsOpen(a) \/ IsOpen(b) \/ IsOpen(c)
  <2>1. IInv => ActiveRunHasWork
    BY WorkInv
  <2> QED BY <1>2, <2>1 DEF ActiveRunHasWork, Stuck, IsOpen, Stages, Open
<1>4. ASSUME NEW j \in Jobs
      PROVE  IInv /\ [Next]_vars => (IsOpen(j) => IsOpen(j)' \/ Over(j)') /\ (Over(j) => Over(j)')
  <2> SUFFICES ASSUME IInv, [Next]_vars PROVE (IsOpen(j) => IsOpen(j)' \/ Over(j)') /\ (Over(j) => Over(j)')
    OBVIOUS
  <2>1. QuietStep(job[j], job'[j]) \/ Taken(job[j], job'[j])
    BY RowMoves DEF IInv
  <2> QED BY <2>1 DEF IsOpen, Over, Open, Terminal, QuietStep, Kept, Created, GivenBack, EndedAs, Withdrawn, Taken
<1>5. ASSUME NEW j \in Jobs PROVE Working /\ StaysStuck(r) => EndsOpen(j)
  <2>1. IInv /\ [Next]_vars => (IsOpen(j) => IsOpen(j)' \/ Over(j)') /\ (Over(j) => Over(j)')
    BY <1>4
  <2>2. Over(j) => ~IsOpen(j)
    BY DEF Over, IsOpen, Open, Terminal
  <2>3. Working /\ StaysStuck(r) => ~StaysOpen(j)
    BY NobodyStaysOpen
  <2> QED BY <2>1, <2>2, <2>3, PTL DEF Working, StaysOpen, EndsOpen
<1>6. Working /\ StaysStuck(r) => EndsOpen(a) /\ EndsOpen(b) /\ EndsOpen(c)
  BY <1>5
<1> QED BY <1>3, <1>6, PTL DEF Working, StaysStuck, EndsOpen

\* The target of RunSettles.
Settled(r) ==
  \/ runs[r] \in Outcomes \/ meeting.deletion = "deleting"
  \/ \E st \in Stages : job[[run |-> r, stage |-> st]].status = "abandoned"
  \/ RetriesSpent
SettlesFrom(r) == runs[r] = "active" ~> Settled(r)

(* A started run does not stay active for ever, for any number of runs, workers, attempts and *)
(* handlers, whatever leases are lost and whichever requests die (service.ts, jobs.ts).         *)
THEOREM RunsSettle == FairSpec /\ []StepsAreEnabled => RunSettles
<1>1. ASSUME NEW r \in Runs PROVE Working => SettlesFrom(r)
  <2>1. IInv /\ ~Settled(r) /\ runs[r] = "active" => Stuck(r)
    BY DEF IInv, TypeOK, MeetingRow, Settled, Stuck
  <2>2. IInv /\ [Next]_vars /\ runs[r] = "active" => (runs[r] = "active")' \/ Settled(r)'
    <3> SUFFICES ASSUME IInv, [Next]_vars, runs[r] = "active" PROVE runs'[r] = "active" \/ runs'[r] \in Outcomes
      BY DEF Settled
    <3> QED BY RunSteps DEF IInv, RunStep
  <2>3. Working => ~StaysStuck(r)
    BY NobodyIsStuck
  <2> QED BY <2>1, <2>2, <2>3, WorkingStays, PTL DEF Working, StaysStuck, SettlesFrom
<1>2. Working => RunSettles
  BY <1>1 DEF RunSettles, SettlesFrom, Settled
<1> QED BY <1>2, Works

(* RetriesSpent is the price of the bound TLC needs, not of the code: with a bound as high as *)
(* MAX_JOB_ATTEMPTS lets every job go, no job that may be handed out is ever withheld.        *)
SecondAttempts == {p \in Proofs : p.attempt > 1}
NoBound == MaxRetries >= Cardinality(SecondAttempts)

LEMMA RetriesAreLeft == NoBound /\ IInv => ~RetriesSpent
<1> SUFFICES ASSUME NoBound, IInv, NEW j \in Jobs, Claimable(j), job[j].attempts > 0
             PROVE  Retries # MaxRetries
  BY DEF RetriesSpent
<1> DEFINE R == {p \in Proofs : p.attempt > 1 /\ granted[p] # NoCredential}
<1>1. PICK q \in Proofs : q = Proof(j, job[j].attempts + 1) /\ q \in SecondAttempts
  <2>1. job[j].attempts + 1 \in Attempts /\ job[j].attempts + 1 > 1
    BY AttemptRange, AttemptsAssumption DEF Claimable, Attempts, IInv, TypeOK, JobRow
  <2>2. Proof(j, job[j].attempts + 1) \in Proofs
    BY <2>1, JobFields
  <2> QED BY <2>1, <2>2 DEF SecondAttempts, Proof
<1>2. granted[q] = NoCredential
  <2>1. Job(q) = j /\ q.attempt = job[j].attempts + 1
    BY <1>1, JobFields DEF Job, Proof
  <2>2. q.attempt > job[Job(q)].attempts
    BY <2>1, AttemptRange DEF IInv, TypeOK, JobRow
  <2> QED BY <2>2 DEF IInv, LeaseIsLatestClaim
<1>3. R \subseteq SecondAttempts /\ R # SecondAttempts
  BY <1>1, <1>2 DEF SecondAttempts
<1>4. IsFiniteSet(SecondAttempts)
  BY ProofsAreFinite, FS_Subset DEF SecondAttempts
<1> HIDE DEF R
<1>5. Cardinality(R) < Cardinality(SecondAttempts) /\ Cardinality(R) \in Nat
  BY <1>3, <1>4, FS_Subset, FS_CardinalityType
<1>6. Cardinality(SecondAttempts) \in Nat
  BY <1>4, FS_CardinalityType
<1> QED BY <1>5, <1>6, RetriesAssumption DEF NoBound, Retries, R

\* What the code promises of a run that was started, with nothing of the bound left in it.
SettledForGood(r) ==
  \/ runs[r] \in Outcomes \/ meeting.deletion = "deleting"
  \/ \E st \in Stages : job[[run |-> r, stage |-> st]].status = "abandoned"
SettlesForGood(r) == runs[r] = "active" ~> SettledForGood(r)
EveryRunSettles == \A r \in Runs : SettlesForGood(r)

(* When no bound on retries is in the way, a started run is always left as finished, as one a *)
(* worker died on for the last time, or as a meeting's that is being deleted (service.ts,      *)
(* jobs.ts): what RunSettles says of the code itself, for any MAX_JOB_ATTEMPTS.                 *)
THEOREM EveryRunIsSettled ==
  ASSUME NoBound PROVE FairSpec /\ []StepsAreEnabled => EveryRunSettles
<1>1. ASSUME NEW r \in Runs PROVE IInv /\ Settled(r) => SettledForGood(r)
  BY RetriesAreLeft DEF Settled, SettledForGood
<1>2. ASSUME NEW r \in Runs PROVE []IInv /\ SettlesFrom(r) => SettlesForGood(r)
  <2>1. IInv /\ Settled(r) => SettledForGood(r)
    BY <1>1
  <2> QED BY <2>1, PTL DEF SettlesFrom, SettlesForGood
<1>3. RunSettles => \A r \in Runs : SettlesFrom(r)
  BY DEF RunSettles, SettlesFrom, Settled
<1>4. []IInv /\ RunSettles => \A r \in Runs : SettlesForGood(r)
  BY <1>2, <1>3
<1> QED BY <1>4, RunsSettle, IInvHolds DEF FairSpec, EveryRunSettles
=============================================================================
