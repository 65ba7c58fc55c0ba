-------------------------- MODULE MeetingsPipeline --------------------------
(***************************************************************************)
(* The meetings pipeline: one meeting, its original upload, its processing *)
(* runs, the job queue the GPU workers lease from, the result uploads and  *)
(* the transcript versions (src/meetings/service.ts over the repositories  *)
(* of src/db/repositories/meetings).                                       *)
(*                                                                         *)
(* PostgreSQL runs at READ COMMITTED and authorizeLease takes no row lock, *)
(* so an HTTP handler is a process of its own: it occupies a slot, and     *)
(* each action below is one statement (or one group of statements that no  *)
(* other process can see in the middle) between two reads of shared state. *)
(* Statements that are one UPDATE are operators on the table they update.  *)
(***************************************************************************)
EXTENDS Naturals, FiniteSets, Sequences

CONSTANTS Credentials,   \* worker credentials that may lease jobs
          Slots,         \* HTTP handlers that can be in flight at once
          MaxRuns,       \* bound: processing runs of the meeting
          MaxAttempts,   \* jobs.max_attempts (3 in the schema)
          MaxRetries,    \* bound: claims beyond the first of each job, all jobs together
          Originals,     \* what a browser may PUT: "good", "mismatch" with what it declared
          Artifacts,     \* what a worker may PUT: "good", "corrupt" (it does not parse)
          AppRequests    \* "cancel" and "delete", those the application may ask for

ASSUME RunsAssumption     == MaxRuns \in Nat \ {0}
ASSUME AttemptsAssumption == MaxAttempts \in Nat \ {0}
ASSUME RetriesAssumption  == MaxRetries \in Nat
ASSUME InputsAssumption   == /\ Originals \subseteq {"good", "mismatch"}
                             /\ Artifacts \subseteq {"good", "corrupt"}
                             /\ AppRequests \subseteq {"cancel", "delete"}

CONSTANT NoCredential
ASSUME CredentialAssumption == NoCredential \notin Credentials

VARIABLES meeting,   \* the row of meetings
          original,  \* the original object in the private bucket
          runs,      \* meeting_processing_runs: run -> its state or outcome
          job,       \* meeting_processing_jobs
          upload,    \* meeting_result_uploads: proof -> state
          object,    \* result objects in the bucket, one key per proof
          created,   \* run -> attempts of its transcript uploads, by created_at
          media,     \* run -> attempts whose normalized audio has a media row
          live,      \* run -> attempt of the live normalized row, or 0
          version,   \* meeting_transcript_versions: run -> version
          granted,   \* who received the lease token of each proof (claim's answer)
          req        \* the handlers in flight

vars == <<meeting, original, runs, job, upload, object, created, media, live,
          version, granted, req>>

-----------------------------------------------------------------------------
Runs     == 1 .. MaxRuns
Attempts == 1 .. MaxAttempts
Stages   == {"normalize", "transcribe", "diarize"}
Jobs     == [run : Runs, stage : Stages]
\* What a worker sends with every request: the job and the attempt of its lease.
Proofs   == [run : Runs, stage : Stages, attempt : Attempts]

Open     == {"leased", "queued"}
Terminal == {"succeeded", "failed", "cancelled", "abandoned"}
\* 'leased' and 'uploading_result' are one status here: every guard of the code accepts both.
Holding  == {"leased"}
JobStatus == {"none", "queued"} \union Holding \union Terminal
Outcomes == {"succeeded", "partial", "failed", "cancelled"}
RunStates == {"none", "active"} \union Outcomes
UploadStates == {"none", "awaiting_upload", "uploaded", "verified", "ingested", "rejected"}

Job(p)         == [run |-> p.run, stage |-> p.stage]
Proof(j, a)    == [run |-> j.run, stage |-> j.stage, attempt |-> a]
Transcript(r, a) == [run |-> r, stage |-> "transcribe", attempt |-> a]
NextStage(s)   == IF s = "normalize" THEN "transcribe" ELSE "diarize"
NoVersion      == [transcript |-> 0, diarization |-> "pending"]
NoJob          == [status |-> "none", attempts |-> 0, credential |-> NoCredential,
                   lease |-> "none"]

IdlePc == "idle"
UiPcs     == {"upload_init", "upload_confirm", "upload_tx"}
WorkerPcs == {"beat_renew", "fail_tx", "init_row", "init_declare",
              "complete_confirm", "complete_parse", "complete_commit"}
NoProof == [run |-> 1, stage |-> "normalize", attempt |-> 1]
Idle    == [pc |-> IdlePc, proof |-> NoProof, source |-> 0]

-----------------------------------------------------------------------------
(* Statements of the repositories, as functions of the table they update. *)

\* getActiveRun: finished_at IS NULL; runs_one_active_per_meeting_idx makes it unique.
NoActiveRun(rs) == \A r \in Runs : rs[r] # "active"

\* createRun numbers it MAX(run_number) + 1.
IsNextRun(rs, r) ==
  /\ \A q \in Runs : q >= r => rs[q] = "none"
  /\ r > 1 => rs[r - 1] # "none"

\* Guarded by finished_at IS NULL: the first outcome stays.
FinishRun(rs, r, outcome) == IF rs[r] = "active" THEN [rs EXCEPT ![r] = outcome] ELSE rs

\* ON CONFLICT (run_id, stage) DO NOTHING.
CreateJob(js, j) ==
  IF js[j].status = "none" THEN [js EXCEPT ![j] = [NoJob EXCEPT !.status = "queued"]] ELSE js

\* Mutant: going back to the queue forgets the attempts.
Requeued_resetsAttempts(row) ==
  [row EXCEPT !.status = "queued", !.attempts = 0, !.lease = "none", !.credential = NoCredential]
Requeued(row) == [row EXCEPT !.status = "queued", !.lease = "none", !.credential = NoCredential]
Closed(row, status) == [row EXCEPT !.status = status, !.lease = "none"]

\* Mutant: without its guard on the status.
MarkSucceeded_unguarded(js, j) == [js EXCEPT ![j] = Closed(@, "succeeded")]
MarkSucceeded(js, j) ==
  IF js[j].status \in Holding THEN [js EXCEPT ![j] = Closed(@, "succeeded")] ELSE js

MarkFailed(js, j) ==
  [js EXCEPT ![j] = IF @.attempts < MaxAttempts THEN Requeued(@) ELSE Closed(@, "failed")]

CancelJobsForMeeting(js) ==
  [j \in Jobs |-> IF js[j].status \in Open
                  THEN Closed(js[j], "cancelled") ELSE js[j]]

Expired(row) == row.status \in Holding /\ row.lease = "expired"

\* Mutant: the sweep leaves the jobs without attempts where they are.
RequeueExpired_keepsSpent(js) ==
  [j \in Jobs |-> IF Expired(js[j]) /\ js[j].attempts < MaxAttempts THEN Requeued(js[j]) ELSE js[j]]
RequeueExpired(js) ==
  [j \in Jobs |-> IF ~Expired(js[j]) THEN js[j]
                  ELSE IF js[j].attempts < MaxAttempts THEN Requeued(js[j])
                  ELSE Closed(js[j], "abandoned")]

\* markVerified: WHERE state IN ('uploaded', 'verified'); its answer is not read.
MarkVerified(us, p) == IF us[p] \in {"uploaded", "verified"} THEN [us EXCEPT ![p] = "verified"] ELSE us
MarkRejected(us, p) == IF us[p] # "ingested" THEN [us EXCEPT ![p] = "rejected"] ELSE us

\* Mutant: the upload is not asked for its state.
VerifiedTranscripts_anyState(us, r) == {a \in Attempts : us[Transcript(r, a)] # "none"}

\* findVerifiedForRun(...).find(kind = 'transcript'): the oldest row by created_at.
VerifiedTranscripts(us, r) ==
  {a \in Attempts : us[Transcript(r, a)] \in {"verified", "ingested"}}
IsOldestVerified(us, cs, r, a) ==
  /\ a \in VerifiedTranscripts(us, r)
  /\ \A b \in VerifiedTranscripts(us, r) : cs[r][a] <= cs[r][b]

-----------------------------------------------------------------------------
Init ==
  /\ meeting = [media |-> "pending", transcript |-> "pending", diarization |-> "pending",
                active |-> 0, cancelled |-> FALSE, deletion |-> "live", putUrl |-> FALSE]
  /\ original = "absent"
  /\ runs = [r \in Runs |-> "none"]
  /\ job = [j \in Jobs |-> NoJob]
  /\ upload = [p \in Proofs |-> "none"]
  /\ object = [p \in Proofs |-> "unsigned"]
  /\ created = [r \in Runs |-> [a \in Attempts |-> 0]]
  /\ media = [r \in Runs |-> {}]
  /\ live = [r \in Runs |-> 0]
  /\ version = [r \in Runs |-> NoVersion]
  /\ granted = [p \in Proofs |-> NoCredential]
  /\ req = [s \in Slots |-> Idle]

Start(s, pc, p) ==
  req[s].pc = IdlePc /\ req' = [req EXCEPT ![s] = [pc |-> pc, proof |-> p, source |-> 0]]
At(s, pc)       == req[s].pc = pc
Goto(s, pc)     == req' = [req EXCEPT ![s].pc = pc]
Return(s)       == req' = [req EXCEPT ![s] = Idle]

queueVars  == <<runs, job, granted>>
resultVars == <<upload, object, created, media, live, version>>

-----------------------------------------------------------------------------
(* The application's side: upload the original, start the run, cancel. *)

\* uploadInit: the guards are read first ...
UploadInit(s) ==
  /\ meeting.deletion = "live" /\ ~meeting.cancelled /\ meeting.media # "ready"
  /\ Start(s, "upload_init", NoProof)
  /\ UNCHANGED <<meeting, original, queueVars, resultVars>>

\* ... and after signing, setOriginalPutExpiry and setMediaState are written unguarded.
UploadInitWrite(s) ==
  /\ At(s, "upload_init")
  /\ meeting' = [meeting EXCEPT !.media = "uploading", !.putUrl = TRUE]
  /\ Return(s)
  /\ UNCHANGED <<original, queueVars, resultVars>>

\* The re-send that finds its active run with a normalize job returns it.
AlreadyStarted ==
  /\ meeting.media = "ready"
  /\ \E r \in Runs : runs[r] = "active" /\ job[[run |-> r, stage |-> "normalize"]].status # "none"

\* getActiveRun ?? createRun.
RunToUse(r) == runs[r] = "active" \/ (NoActiveRun(runs) /\ IsNextRun(runs, r))

UploadComplete(s) ==
  /\ meeting.deletion = "live" /\ ~meeting.cancelled
  /\ ~AlreadyStarted
  /\ \E r \in Runs : RunToUse(r)    \* the bound MaxRuns
  /\ Start(s, "upload_confirm", NoProof)
  /\ UNCHANGED <<meeting, original, queueVars, resultVars>>

\* store.confirm: by now the browser may have PUT the file, the promised one or another.
UploadConfirm(s) ==
  /\ At(s, "upload_confirm")
  /\ \E found \in {"absent"} \union Originals :
       /\ found # "absent" => meeting.putUrl
       /\ original = "good" => found = "good"
       /\ original = "mismatch" => found # "absent"
       /\ original' = found
       /\ IF found = "good" THEN Goto(s, "upload_tx") /\ UNCHANGED meeting
          ELSE /\ Return(s)
               /\ meeting' = [meeting EXCEPT !.media = IF found = "absent" THEN "pending" ELSE "invalid"]
  /\ UNCHANGED <<queueVars, resultVars>>

\* One transaction: media ready, the run (the active one or a new one) and its first job.
UploadTx(s) ==
  /\ At(s, "upload_tx")
  /\ \E r \in Runs :
       /\ RunToUse(r)
       /\ runs' = [runs EXCEPT ![r] = "active"]
       /\ job' = CreateJob(job, [run |-> r, stage |-> "normalize"])
  /\ meeting' = [meeting EXCEPT !.media = "ready"]
  /\ Return(s)
  /\ UNCHANGED <<original, granted, resultVars>>

CancelMeeting ==
  /\ "cancel" \in AppRequests
  /\ meeting' = [meeting EXCEPT !.cancelled = TRUE]
  /\ job' = CancelJobsForMeeting(job)
  /\ runs' = [r \in Runs |-> FinishRun(runs, r, "cancelled")[r]]
  /\ UNCHANGED <<original, granted, resultVars, req>>

\* deletion.ts reserves the row; the purge itself is MeetingDeletion's.
ReserveDeletion ==
  /\ "delete" \in AppRequests /\ meeting.deletion = "live"
  /\ meeting' = [meeting EXCEPT !.deletion = "deleting"]
  /\ UNCHANGED <<original, queueVars, resultVars, req>>

-----------------------------------------------------------------------------
(* The queue: lease, heartbeat, expiry, sweep. *)

Running(m, stage) ==
  CASE stage = "transcribe" -> [m EXCEPT !.transcript = "running"]
    [] stage = "diarize"    -> [m EXCEPT !.diarization = "running"]
    [] OTHER                -> m

\* Proofs beyond first attempts ever granted: only the bound reads it.
Retries == Cardinality({p \in Proofs : p.attempt > 1 /\ granted[p] # NoCredential})

\* The guard of the SELECT ... FOR UPDATE SKIP LOCKED.
Claimable(j) ==
  job[j].status = "queued" /\ job[j].attempts < MaxAttempts /\ meeting.deletion = "live"

\* Mutant: the lease does not record whose it is.
Claim_anonymous(c, j) ==
  /\ Claimable(j)
  /\ job[j].attempts > 0 => Retries < MaxRetries
  /\ job' = [job EXCEPT ![j].status = "leased", ![j].attempts = @ + 1, ![j].lease = "live"]
  /\ granted' = [granted EXCEPT ![Proof(j, job[j].attempts + 1)] = c]
  /\ meeting' = Running(meeting, j.stage)
  /\ UNCHANGED <<original, runs, resultVars, req>>

Claim(c, j) ==
  /\ Claimable(j)
  /\ job[j].attempts > 0 => Retries < MaxRetries
  /\ job' = [job EXCEPT ![j] = [status |-> "leased", attempts |-> @.attempts + 1,
                                credential |-> c, lease |-> "live"]]
  /\ granted' = [granted EXCEPT ![Proof(j, job[j].attempts + 1)] = c]
  /\ meeting' = Running(meeting, j.stage)
  /\ UNCHANGED <<original, runs, resultVars, req>>

LeaseExpires(j) ==
  /\ job[j].lease = "live"
  /\ job' = [job EXCEPT ![j].lease = "expired"]
  /\ UNCHANGED <<meeting, original, runs, granted, resultVars, req>>

\* Mutant: the sweep looks for leases of last attempts only.
RequeueExpiredLeases_lastOnly ==
  /\ \E j \in Jobs : Expired(job[j]) /\ job[j].attempts = MaxAttempts
  /\ job' = RequeueExpired(job)
  /\ UNCHANGED <<meeting, original, runs, granted, resultVars, req>>

RequeueExpiredLeases ==
  /\ \E j \in Jobs : Expired(job[j])
  /\ job' = RequeueExpired(job)
  /\ UNCHANGED <<meeting, original, runs, granted, resultVars, req>>

\* authorizeLease up to the attempt check, for the credential that was given the proof.
KnownProof(p) ==
  /\ granted[p] # NoCredential
  /\ job[Job(p)].credential = granted[p]
  /\ job[Job(p)].attempts = p.attempt

\* authorizeLease without allowTerminalIdempotent. The token is live with its lease.
Authorized(p) ==
  KnownProof(p) /\ job[Job(p)].status \in Holding /\ job[Job(p)].lease = "live"

\* ... and with it: a 'failed' job passes too ('succeeded' is answered by its callers).
AuthorizedOrFailed(p) ==
  Authorized(p) \/ (KnownProof(p) /\ job[Job(p)].status = "failed")

Heartbeat(s, p) ==
  /\ Authorized(p)
  /\ Start(s, "beat_renew", p)
  /\ UNCHANGED <<meeting, original, queueVars, resultVars>>

\* renewLease is guarded by the status alone, not by the attempt.
RenewLease(s) ==
  /\ At(s, "beat_renew")
  /\ LET j == Job(req[s].proof)
     IN  job' = IF job[j].status \in Holding THEN [job EXCEPT ![j].lease = "live"] ELSE job
  /\ Return(s)
  /\ UNCHANGED <<meeting, original, runs, granted, resultVars>>

-----------------------------------------------------------------------------
(* result/init: three statements without a transaction. *)

ResultInit(s, p) ==
  /\ Authorized(p) /\ meeting.deletion = "live"
  /\ Start(s, "init_row", p)
  /\ UNCHANGED <<meeting, original, queueVars, resultVars>>

\* initResultUpload: insert, or refresh put_expires_at of the row that is there.
InitRow(s) ==
  /\ At(s, "init_row")
  /\ LET p == req[s].proof
         earlier == {a \in Attempts : created[p.run][a] # 0}
     IN  IF upload[p] # "none" THEN UNCHANGED <<upload, created>>
         ELSE /\ upload' = [upload EXCEPT ![p] = "awaiting_upload"]
              /\ created' = IF p.stage = "transcribe"
                            THEN [created EXCEPT ![p.run][p.attempt] = Cardinality(earlier) + 1]
                            ELSE created
  /\ Goto(s, "init_declare")
  /\ UNCHANGED <<meeting, original, queueVars, object, media, live, version>>

\* markUploaded; markUploadingResult follows it and changes nothing a guard reads. Only with
\* this answer does the worker hold a URL to PUT its artifact to.
InitDeclare(s) ==
  /\ At(s, "init_declare")
  /\ LET p == req[s].proof
     IN  /\ upload' = IF upload[p] \in {"awaiting_upload", "uploaded", "rejected"}
                      THEN [upload EXCEPT ![p] = "uploaded"] ELSE upload
         /\ object' = IF object[p] = "unsigned" THEN [object EXCEPT ![p] = "absent"] ELSE object
  /\ Return(s)
  /\ UNCHANGED <<meeting, original, queueVars, created, media, live, version>>

-----------------------------------------------------------------------------
(* result/complete: preflight, confirm, parse, and the transaction, whose   *)
(* authorizeLease reads the job without FOR UPDATE.                         *)

ResultComplete(s, p) ==
  /\ AuthorizedOrFailed(p) /\ meeting.deletion = "live" /\ upload[p] # "none"
  /\ Start(s, IF upload[p] \in {"verified", "ingested"} THEN "complete_parse"
              ELSE "complete_confirm", p)
  /\ UNCHANGED <<meeting, original, queueVars, resultVars>>

\* store.confirm: the object may have been PUT since, or a corrupt one regenerated. Only the
\* NDJSON artifacts are parsed, so only they can be found corrupt later.
CompleteConfirm(s) ==
  /\ At(s, "complete_confirm")
  /\ LET p == req[s].proof
     IN  \E found \in {"absent"} \union Artifacts :
           /\ CASE object[p] = "unsigned" -> found = "absent"
                [] object[p] = "absent"   -> found = "corrupt" => p.stage # "normalize"
                [] object[p] = "corrupt"  -> found # "absent"
                [] object[p] = "good"     -> found = "good"
           /\ object' = IF found = "absent" THEN object ELSE [object EXCEPT ![p] = found]
           /\ IF found = "absent" THEN upload' = MarkRejected(upload, p) /\ Return(s)
              ELSE upload' = MarkVerified(upload, p) /\ Goto(s, "complete_parse")
  /\ UNCHANGED <<meeting, original, queueVars, created, media, live, version>>

\* The transcript a complete ingests: its own for transcribe, for diarize the verified one.
ParsedFrom(p, a) ==
  IF p.stage = "diarize" THEN IsOldestVerified(upload, created, p.run, a) ELSE a = p.attempt

\* An ArtifactError: this artifact, or the transcript diarize needs, does not parse.
ParseFails(p) ==
  /\ p.stage # "normalize"
  /\ \/ object[p] # "good"
     \/ \E a \in Attempts : ParsedFrom(p, a) /\ object[Transcript(p.run, a)] # "good"

CompleteParseFails(s) ==
  /\ At(s, "complete_parse") /\ ParseFails(req[s].proof)
  /\ upload' = MarkRejected(upload, req[s].proof)
  /\ Return(s)
  /\ UNCHANGED <<meeting, original, queueVars, object, created, media, live, version>>

\* The parse, then the transaction's authorizeLease, which reads the job without FOR UPDATE.
\* A job that succeeded meanwhile is answered as it is; every other refusal is an error.
CompleteAuthorize(s) ==
  /\ At(s, "complete_parse") /\ ~ParseFails(req[s].proof)
  /\ \/ \E a \in Attempts :
           /\ AuthorizedOrFailed(req[s].proof) /\ ParsedFrom(req[s].proof, a)
           /\ req' = [req EXCEPT ![s].pc = "complete_commit", ![s].source = a]
     \/ /\ ~AuthorizedOrFailed(req[s].proof) \/ \A a \in Attempts : ~ParsedFrom(req[s].proof, a)
        /\ Return(s)
  /\ UNCHANGED <<meeting, original, queueVars, resultVars>>

\* Mutant: the completion does not enqueue the next stage.
Succeed_noNext(js, p) == MarkSucceeded(js, Job(p))

\* markSucceeded's answer is not read: the next job is created either way.
Succeed(js, p) == CreateJob(MarkSucceeded(js, Job(p)), [run |-> p.run, stage |-> NextStage(p.stage)])

CommitNormalize(s) ==
  /\ At(s, "complete_commit") /\ req[s].proof.stage = "normalize"
  /\ LET p == req[s].proof
     IN  /\ job' = Succeed(job, p)
         /\ media' = [media EXCEPT ![p.run] = @ \union {p.attempt}]
         \* supersedeLiveDerived keeps this key; the insert does nothing if its row exists.
         /\ live' = [live EXCEPT ![p.run] = IF p.attempt \notin media[p.run] \/ @ = p.attempt
                                            THEN p.attempt ELSE 0]
         /\ upload' = IF upload[p] = "verified" THEN [upload EXCEPT ![p] = "ingested"] ELSE upload
  /\ Return(s)
  /\ UNCHANGED <<meeting, original, runs, granted, object, created, version>>

\* Mutant: the text is announced when it is verified, not when it is ingested.
CommitTranscribe_announces(s) ==
  /\ At(s, "complete_commit") /\ req[s].proof.stage = "transcribe"
  /\ job' = Succeed(job, req[s].proof)
  /\ meeting' = [meeting EXCEPT !.transcript = "ready"]
  /\ Return(s)
  /\ UNCHANGED <<original, runs, granted, resultVars>>

CommitTranscribe(s) ==
  /\ At(s, "complete_commit") /\ req[s].proof.stage = "transcribe"
  /\ job' = Succeed(job, req[s].proof)
  /\ Return(s)
  /\ UNCHANGED <<meeting, original, runs, granted, resultVars>>

\* ingestRun with a verified transcript: version, uploads, meeting and run together.
IngestRun(r, outcome, a) ==
  /\ version' = IF version[r] # NoVersion THEN version
                ELSE [version EXCEPT ![r] = [transcript |-> a, diarization |-> outcome]]
  /\ upload' = [p \in Proofs |-> IF p.run = r /\ upload[p] = "verified" THEN "ingested" ELSE upload[p]]
  /\ meeting' = [meeting EXCEPT !.transcript = "ready", !.diarization = outcome, !.active = r]
  /\ runs' = FinishRun(runs, r, IF outcome = "failed" THEN "partial" ELSE "succeeded")

\* Mutant: the failure is shown, the run stays open.
LoseRun_open(r, m) ==
  /\ meeting' = [m EXCEPT !.transcript = "failed"]
  /\ UNCHANGED <<runs, upload, version>>

LoseRun(r, m) ==
  /\ meeting' = [m EXCEPT !.transcript = "failed"]
  /\ runs' = FinishRun(runs, r, "failed")
  /\ UNCHANGED <<upload, version>>

CommitDiarize(s) ==
  /\ At(s, "complete_commit") /\ req[s].proof.stage = "diarize"
  /\ LET p == req[s].proof
     IN  /\ job' = MarkSucceeded(job, Job(p))
         /\ IF VerifiedTranscripts(upload, p.run) = {} THEN LoseRun(p.run, meeting)
            ELSE IngestRun(p.run, "ready", req[s].source)
  /\ Return(s)
  /\ UNCHANGED <<original, granted, object, created, media, live>>

-----------------------------------------------------------------------------
(* fail: authorizeLease and markFailed in one transaction, again without a lock. *)

Fail(s, p) ==
  /\ Authorized(p)
  /\ Start(s, "fail_tx", p)
  /\ UNCHANGED <<meeting, original, queueVars, resultVars>>

\* Without a transcript the run is lost; with one, it is ingested without speakers.
ResolveTerminalFailure(j) ==
  \/ j.stage # "diarize" /\ LoseRun(j.run, meeting)
  \/ /\ j.stage = "diarize" /\ VerifiedTranscripts(upload, j.run) = {}
     /\ LoseRun(j.run, [meeting EXCEPT !.diarization = "failed"])
  \/ /\ j.stage = "diarize"
     /\ \E a \in Attempts :
          /\ IsOldestVerified(upload, created, j.run, a)
          /\ object[Transcript(j.run, a)] = "good"
          /\ IngestRun(j.run, "failed", a)

FailTx(s) ==
  /\ At(s, "fail_tx")
  /\ LET j == Job(req[s].proof)
     IN  /\ job[j].status \in Holding
         /\ job' = MarkFailed(job, j)
         /\ IF job'[j].status = "queued" THEN UNCHANGED <<meeting, runs, upload, version>>
            ELSE ResolveTerminalFailure(j)
  /\ Return(s)
  /\ UNCHANGED <<original, granted, object, created, media, live>>

\* An exception, a lost connection or a dead process: a transaction rolls back, and what
\* was written outside one stays.
HandlerDies(s) ==
  /\ req[s].pc # IdlePc /\ Return(s)
  /\ UNCHANGED <<meeting, original, queueVars, resultVars>>

-----------------------------------------------------------------------------
Application(s) ==
  UploadInit(s) \/ UploadInitWrite(s) \/ UploadComplete(s) \/ UploadConfirm(s) \/ UploadTx(s)

WorkerRequest(s, p) == Heartbeat(s, p) \/ ResultInit(s, p) \/ ResultComplete(s, p) \/ Fail(s, p)

WorkerHandler(s) ==
  \/ RenewLease(s) \/ InitRow(s) \/ InitDeclare(s)
  \/ CompleteConfirm(s) \/ CompleteParseFails(s) \/ CompleteAuthorize(s)
  \/ CommitNormalize(s) \/ CommitTranscribe(s) \/ CommitDiarize(s) \/ FailTx(s)

Next ==
  \/ \E s \in Slots : Application(s) \/ WorkerHandler(s) \/ HandlerDies(s)
  \/ \E s \in Slots, p \in Proofs : WorkerRequest(s, p)
  \/ \E c \in Credentials, j \in Jobs : Claim(c, j)
  \/ \E j \in Jobs : LeaseExpires(j)
  \/ RequeueExpiredLeases \/ CancelMeeting \/ ReserveDeletion

Spec == Init /\ [][Next]_vars

-----------------------------------------------------------------------------
(* Properties *)

MeetingRow == [media : {"pending", "uploading", "ready", "invalid"},
               transcript : {"pending", "running", "ready", "failed"},
               diarization : {"pending", "running", "ready", "failed"},
               active : 0 .. MaxRuns, cancelled : BOOLEAN,
               deletion : {"live", "deleting"}, putUrl : BOOLEAN]
JobRow     == [status : JobStatus, attempts : 0 .. MaxAttempts,
               credential : Credentials \union {NoCredential},
               lease : {"none", "live", "expired"}]
VersionRow == [transcript : 0 .. MaxAttempts, diarization : {"pending", "ready", "failed"}]
Handler    == [pc : {IdlePc} \union UiPcs \union WorkerPcs, proof : Proofs,
               source : 0 .. MaxAttempts]

\* Every table holds values of its columns, every handler a proof and a parsed transcript.
TypeOK ==
  /\ meeting \in MeetingRow
  /\ original \in {"absent", "mismatch", "good"}
  /\ runs \in [Runs -> RunStates]
  /\ job \in [Jobs -> JobRow]
  /\ upload \in [Proofs -> UploadStates]
  /\ object \in [Proofs -> {"unsigned", "absent", "corrupt", "good"}]
  /\ created \in [Runs -> [Attempts -> Nat]]
  /\ media \in [Runs -> SUBSET Attempts]
  /\ live \in [Runs -> 0 .. MaxAttempts]
  /\ version \in [Runs -> VersionRow]
  /\ granted \in [Proofs -> Credentials \union {NoCredential}]
  /\ req \in [Slots -> Handler]

\* What resultComplete's comment asks of its transaction ("la reunion se quedaria quieta sin
\* que nada dijera por que"): while a run is active, one of its jobs can still be claimed or
\* is held, unless its worker was given up for dead on the last attempt.
ActiveRunHasWork ==
  \A r \in Runs : runs[r] = "active" =>
    \E st \in Stages : job[[run |-> r, stage |-> st]].status \in Open \union {"abandoned"}

\* fail on the last attempt settles the run in the same transaction: lost, or partial with
\* the text saved; no later commit reopens it under a failed job.
FailedJobEndsRun ==
  \A j \in Jobs : job[j].status = "failed" => runs[j.run] # "active"

\* transcript_state and diarization_state are written together with the version that
\* active_transcript_id points to: the text is never announced before it exists.
ReadyMeansIngested ==
  meeting.transcript = "ready" =>
    /\ meeting.active \in Runs /\ version[meeting.active] # NoVersion
    /\ meeting.diarization # "pending"

\* ingestRun writes the version, the uploads and the run together: a version belongs to a
\* finished run, the transcript it was read from parses, and no late rejection or re-declaration
\* takes that artifact out of 'ingested'.
VersionIsVerified ==
  \A r \in Runs : version[r] # NoVersion =>
    /\ runs[r] \in Outcomes
    /\ version[r].transcript \in Attempts
    /\ LET p == Transcript(r, version[r].transcript)
       IN  upload[p] = "ingested" /\ object[p] = "good"

\* Whatever handlers are in flight, a held job belongs to the latest claim of it, so every
\* worker that claimed an earlier attempt is refused by authorizeLease.
LeaseIsLatestClaim ==
  \A p \in Proofs :
    /\ p.attempt > job[Job(p)].attempts => granted[p] = NoCredential
    /\ job[Job(p)].status \in Holding =>
         /\ job[Job(p)].attempts > 0
         /\ p.attempt = job[Job(p)].attempts => granted[p] = job[Job(p)].credential

\* No number of attempt is handed out twice, so the proof a late worker holds is never valid
\* for the work of another one: the check of the attempt in authorizeLease rests on it.
AttemptIsGrantedOnce ==
  [][\A c \in Credentials, j \in Jobs :
        Claim(c, j) => granted[Proof(j, job[j].attempts + 1)] = NoCredential]_vars

\* The queue keeps the promises of LeasedJobs, at any interleaving of handlers, sweeps and
\* cancellations: no job skips an attempt, goes past the limit or moves once it ended.
Phase(status) == IF status = "none" THEN "absent"
                 ELSE IF status = "queued" THEN "waiting"
                 ELSE IF status \in Holding THEN "held" ELSE status

Queue == INSTANCE LeasedJobs WITH
  JobIds <- Jobs, Holders <- Credentials, NoHolder <- NoCredential, AttemptLimit <- MaxAttempts,
  phase   <- [j \in Jobs |-> Phase(job[j].status)],
  attempt <- [j \in Jobs |-> job[j].attempts],
  holder  <- [j \in Jobs |-> job[j].credential]

QueueSpec == Queue!QueueSpec

\* The bound on retries leaves a job waiting that a worker would be given.
RetriesSpent == Retries = MaxRetries /\ \E j \in Jobs : Claimable(j) /\ job[j].attempts > 0

\* A started run does not stay active for ever, however leases expire and requests die, unless
\* a worker died on the last attempt of one of its jobs (that run is never finished, see
\* DiarizeOverMeansIngested) or the meeting is being deleted (then no job of it is handed out).
RunSettles ==
  \A r \in Runs : runs[r] = "active" ~>
    \/ runs[r] \in Outcomes \/ meeting.deletion = "deleting"
    \/ \E st \in Stages : job[[run |-> r, stage |-> st]].status = "abandoned"
    \/ RetriesSpent

\* Workers poll for jobs, no worker keeps a job for ever without answering, and the sweep
\* runs on its schedule, so it meets every lease that stays expired long enough.
Fairness ==
  /\ \A j \in Jobs : WF_vars(\E c \in Credentials : Claim(c, j))
  /\ \A j \in Jobs : WF_vars(LeaseExpires(j))
  /\ SF_vars(RequeueExpiredLeases)

FairSpec == Spec /\ Fairness

\* What fairness speaks of can be done: a claim while the job may be handed out and the bound
\* allows it, the end of a lease, and a sweep as soon as one lease has expired.
StepsAreEnabled ==
  /\ \A j \in Jobs : Claimable(j) /\ (job[j].attempts > 0 => Retries < MaxRetries)
                     => ENABLED <<\E c \in Credentials : Claim(c, j)>>_vars
  /\ \A j \in Jobs : job[j].lease = "live" => ENABLED <<LeaseExpires(j)>>_vars
  /\ (\E j \in Jobs : Expired(job[j])) => ENABLED <<RequeueExpiredLeases>>_vars

-----------------------------------------------------------------------------
(* The inductive invariant the safety properties follow from.              *)

\* A row of meeting_processing_jobs exists only for a run, and starts clean.
RowsOfRuns ==
  \A j \in Jobs :
    /\ job[j].status = "none" => job[j].attempts = 0 /\ job[j].credential = NoCredential
    /\ job[j].status # "none" => runs[j.run] # "none"

\* What a handler of a worker read stays true until it writes: its job exists, and the
\* transcript a diarize is about to ingest stays verified and parseable.
HandlersKeepTheirRead ==
  \A s \in Slots : req[s].pc \in WorkerPcs =>
    LET p == req[s].proof
        t == Transcript(p.run, req[s].source)
    IN  /\ job[Job(p)].status # "none"
        /\ req[s].pc = "complete_commit" => req[s].source \in Attempts
        /\ req[s].pc = "complete_commit" /\ p.stage = "diarize" =>
             upload[t] \in {"verified", "ingested"} /\ object[t] = "good"

\* The stages of an active run follow one another, and none of them has settled it.
ActiveRunStages ==
  \A r \in Runs : runs[r] = "active" =>
    /\ job[[run |-> r, stage |-> "normalize"]].status # "none"
    /\ \A j \in Jobs : j.run = r =>
         /\ job[j].status \notin {"failed", "cancelled"}
         /\ job[j].status = "succeeded" =>
              j.stage # "diarize" /\ job[[run |-> r, stage |-> NextStage(j.stage)]].status # "none"

IInv ==
  /\ TypeOK
  /\ RowsOfRuns
  /\ LeaseIsLatestClaim
  /\ HandlersKeepTheirRead
  /\ ActiveRunStages
  /\ ReadyMeansIngested
  /\ VersionIsVerified

-----------------------------------------------------------------------------
(* What comments and documents of the repository say, and the code does not keep. *)

\* service.ts: a 'failed' job never gets past authorizeLease to be completed, so no next
\* stage is created for it.
FailedIsNotCompleted ==
  \A j \in Jobs : job[j].status = "failed" /\ j.stage # "diarize" =>
    job[[run |-> j.run, stage |-> NextStage(j.stage)]].status = "none"

\* meetings-stage-contracts: the result of an old attempt cannot take the place of the
\* current one, so what is ingested is the transcript of the attempt that succeeded.
AcceptedIsIngested ==
  \A r \in Runs :
    version[r] # NoVersion /\ job[[run |-> r, stage |-> "transcribe"]].status = "succeeded" =>
      version[r].transcript = job[[run |-> r, stage |-> "transcribe"]].attempts

\* meetings-stage-contracts: when diarize does not come out, the transcript is ingested anyway.
DiarizeOverMeansIngested ==
  \A r \in Runs :
    /\ job[[run |-> r, stage |-> "diarize"]].status \in {"failed", "abandoned"}
    /\ VerifiedTranscripts(upload, r) # {}
    => version[r] # NoVersion
=============================================================================
