# Verification of the observation platform

TLA+ models, TLC runs and TLAPS proofs for the backend of the platform
(`src/src`, TypeScript over PostgreSQL, with its schema in `src/migrations`).
`PROJECT.json` lists the components, the runs, the mutants that show each
property can fail, the source lines of each definition (`map`), the hazards and
the theorems.

## 1. The system and its parts

The platform watches the conversations an n8n bot holds for its clients, keeps
their contacts, appointments, payments and sales, lets people take a
conversation over, and processes recordings of meetings with GPU workers that
lease jobs over HTTP. There is no in-process concurrency beyond the event loop:
what runs concurrently are HTTP handlers, periodic jobs and several processes
(web, worker, maintenance) over one PostgreSQL at READ COMMITTED. So the hard
behaviour is always of one kind: a handler reads a row, does something else
(signs a URL, asks the bucket, parses, calls a model) and writes on what it
read; and a transaction locks only what it locks by name.

| Component | State | Operations | Talks to | Hard | Correct means |
|---|---|---|---|---|---|
| Meetings pipeline (`meetings/service.ts`) | meetings, runs, jobs, result uploads, media, transcript versions | upload-init/complete, lease, heartbeat, result-init/complete, fail, sweep, cancel | browser, GPU workers, bucket | lost leases, late answers, reads without lock, multi-statement handlers | an attempt is granted once; a run ends with its text saved or says it failed; only verified text is announced |
| Meeting deletion (`meetings/deletion.ts`, `maintenance.ts`) | `deletion_*` columns, attempts, lease, expiries of signed URLs | reserve, claim, list, delete, verify, delete row, fail | bucket, maintenance process | signed URLs outlive reads; sweeps die and overlap | nothing of a deleted meeting remains or comes back; a purge is never forgotten |
| Meeting analysis (`meetings/analysis`) | analyses, active analysis | reserve, complete, fail, activate | language model, pipeline, deletion | a reservation expires while the model answers; the transcript is replaced or the meeting deleted meanwhile | a document is paid and written once; the summary shown belongs to the transcript shown |
| Meetings admission, read side | credentials, rate windows | checks, reads | - | little | - |
| Booking (`scheduling/booking.ts`) | appointments, idempotency keys | create (public page, agent, past attendance), reschedule, correct, change service, confirm, close | public page, n8n, panel, hooks | writers of one slot with and without locks, a re-sent creation, deadlocks | no professional is booked twice; a key creates once; the public cap holds |
| Payments (`scheduling/payments.ts`) | payments and their lines | complete with payment, late payment, void | booking | drafts from unlocked reads | only what was attended is paid, and no edit changes what was paid for |
| Recurring series (`scheduling/series.ts`) | series, skips, moved occurrences | edit and delete by scope | availability | splits after splits | what is past stays; a skipped date stays skipped |
| Availability, time zones, promotions | - | pure functions | - | boundaries, time changes | equal to their definition |
| Handoff (`handoff`) | mode of a conversation, its agent, replies, access, the inbox module | escalate, take, dismiss, return, auto-return, release, reply, retry, switch | n8n, inbox, webhook | agents, workflow, sweep and administration race | modes follow the legal edges with a true trail; nobody waits for ever; a reply is posted by one |
| Sales pipeline (`pipeline/engine.ts`) | opportunities, links, stage history | messages, bookings, payments, auto-lost | hooks of booking, bot | hooks in any order, one open sale per contact | at most one open sale; stages follow what happened |
| Contacts and identities (`contactIdentities.ts`, `contacts.ts`) | contacts, identities, links of conversations, duplicate candidates, sales | resolve, claim, link, merge, delete | messages, bookings, inbox, API, panel | two creations of one person, a merge against whoever writes, a claim inside an open booking | one person is one contact; nothing is taken from anybody but by a merge; nothing belongs to a contact that is gone |
| Ingestion worker (`ingestion`, `analytics/deriveLlmUsage.ts`) | cursor, executions, scans, usage | list, fetch, insert, record, derive, backfill | n8n API | cursor against failures, overlapping processes | the cursor runs over nothing that could be had; tokens are counted once |
| Attribution, occupancy, CRM, access, analytics, costs, storage adapters, web | rows | - | - | recomputation | see `components` in PROJECT.json |

## 2. Modules

| Module | What it is | How it corresponds to the code |
|---|---|---|
| `MeetingsPipeline` | the detailed model of one meeting from upload to transcript | one variable per table, one action per statement or group of statements between two reads |
| `LeasedJobs` | what the job queue promises | abstract; `MeetingsPipeline!QueueSpec` is the refinement mapping |
| `MCMeetingsPipeline` | instances for TLC | symmetry of credentials and handlers |
| `MeetingsPipelineProofs` | TLAPS proofs about `MeetingsPipeline` | see section 5 |
| `MeetingDeletion` | reservation, signed URLs, sweeps, the bucket | one meeting, one artifact row; instants as ticks that remain |
| `MCMeetingDeletion`, `MeetingDeletionProofs` | instances and proofs | |
| `SalesPipeline` | the sales of one contact: `pipeline/engine.ts`, `hooks.ts`, `autoLost.ts` and their callers in `booking.ts`, `payments.ts` and the message route | one variable per table, one action per transaction, or per part of one between two reads of rows it has not locked |
| `ContactSales` | what the pipeline promises of one contact | abstract; `SalesPipeline!ContactSpec` is the refinement mapping |
| `MCSalesPipeline`, `SalesPipelineProofs` | instances and proofs | |
| `Booking` | the appointments of one site under concurrent requests, and their charges: `booking.ts`, `payments.ts` | one action per statement group: read, locks, pending write, constraint and commit |
| `Agenda` | what the agenda promises | abstract; `Booking!AgendaSpec` |
| `MCBooking`, `BookingProofs` | instances and proofs | |
| `Handoff` | conversations between bot and agents: `handoff.ts`, `autoReturn.ts`, `clientModules.ts` and the actions in `web/` | a request reads, then asks; a transition is gate, row lock, commit |
| `ConversationModes` | who answers a conversation, and how that changes | abstract; `Handoff!ModesSpec` |
| `HandoffProofs` | proofs (the instance is in `handoff.cfg`) | |
| `MeetingAnalysis` | the summary and the reports of one meeting: `analysis/service.ts`, `reports/service.ts`, `analyses.ts` | reserve, call, close, activate are separate statements |
| `SummaryCatalogue` | what is kept of those documents | abstract; `MeetingAnalysis!CatalogueSpec` |
| `MCMeetingAnalysis`, `MeetingAnalysisProofs` | instances and proofs | |
| `ExecutionIngestion` | the cycles of one n8n connection: `worker.ts`, `ingestExecutions.ts`, `executions.ts`, `llmUsage.ts` | one action per call to n8n or statement |
| `ExecutionIngestionProofs` | proofs (the instance is in `ingestion.cfg`) | |
| `ContactIdentities` | the contacts of one client: `contactIdentities.ts`, `contacts.ts` and their callers | one action per statement, or per transaction where it holds its rows |
| `Directory` | who the customers are, as the rest may rely on it | abstract; `ContactIdentities!DirectorySpec` |
| `MCContactIdentities`, `ContactIdentitiesProofs` | instances and proofs | |

### MeetingsPipeline

State. `meeting` is the row of `meetings`; `runs`, `job`, `upload`, `media`/`live`
and `version` are the tables of its runs, jobs, result uploads, derived media and
transcript versions; `original` and `object` are the bucket; `created` is the order
of `created_at` of the transcript uploads; `granted` says who received the token of
each attempt; `req` holds the handlers in flight.

A handler occupies a slot of `Slots`. It begins with the guards the code reads
(`Start`), and each later action is one transaction or statement, up to the next
read of shared state. `authorizeLease` takes no row lock, so `CompleteAuthorize`
(read) and `CommitNormalize`, `CommitTranscribe`, `CommitDiarize` (write) are
separate steps although they are one transaction, and so are `Fail` and `FailTx`.
`HandlerDies` may end a handler between any two steps: a transaction rolls back,
what was written before it stays.

Merged or left out, because no guard distinguishes them:

- `leased` and `uploading_result` are one status (every guard accepts both).
- What a browser or worker PUTs is decided when `store.confirm` looks: absent,
  as declared, or not. Until the code looks, nobody can tell. A corrupt artifact
  may be PUT again, a good one is not overwritten (keys are per attempt).
- The read of the verified transcript in `resultComplete` happens in the same
  step as the transaction's `authorizeLease`; it stays in `req.source` until
  commit, so that it can be stale.
- A lease is `none`, `live` or `expired`; `LeaseExpires` may happen at any time.
  `next_attempt_at` is a delay the model does not bound.
- Diarization is always wanted: no code writes the option that would skip it.
- Job events, warnings, progress and contents are not modelled.

### LeasedJobs

A job is absent, waiting, held by one holder for one attempt, or ended. One step
may move several jobs. `QueueSpec` in `MeetingsPipeline` maps `status`, `attempts`
and `credential` onto it; every step of the detailed model is a step of the
queue or a stutter. That is checked by TLC and proved.

### MeetingDeletion

Instants are the number of ticks left until them (0: now, past or NULL). `Tick`
lowers all of them, `GREATEST` is the greater number, `expires_at <= now()` is 0.
`put` are the requests that sign a PUT URL (`OriginalPuts` for `upload-init`,
`ResultPuts` for `result/init` of one artifact row): they read that the meeting is
live (`CheckWritable`), sign (`SignPut`), write the expiry and answer
(`IssueOriginal`, `IssueResult`), or die. From then until it expires the bucket
honours the URL and asks nobody (`Put`). `sweep` are the purges at work; the row is
claimed with a lease and counted, the prefix is listed and deleted page by page,
listed again, and the row is deleted only if it is still due. `recorded` is a
history variable: the original URLs already answered when the row left `live`.

Left out: the fallback deadline for rows that predate `original_put_expires_at`,
clock differences between database, processes and bucket, the early `too_early`
check of `purgeMeeting` (the claim has the same condition), the batch of ten.

### SalesPipeline

State. `sale` is the contact's rows of `opportunities`, numbered in the order of
`created_at`; `appt` its appointments with their link (`opportunity_id`), whether a payment
is recorded, and whether they came from a conversation; `last` says who spoke last in the
conversation, and `stale` that it was the business longer than `auto_lost_after_hours` ago;
`swept` is what the auto-lost job has selected and has not tried. `speaker` and `heard` are
history variables: whose hook is still to hear the last message, and which sale was open when
it came.

A handler occupies a slot. The write that begins it (a message, an appointment, a status, a
payment) has committed before its hook looks at the sales, so the beginning and the hook are
separate steps, and `HandlerDies` may come between them. In the hook, a transaction that found
an open sale keeps its row lock, so it is one step (`FindOpen`, `StatusHook`, `PayLinked`);
one that found none holds nothing, so the look (`FindNone`), the read of the latest sale
(`DecideReopen`, `DecideOpen`) and the write (`ReopenLost`, `OpenNew`, `PayNew`) are separate
steps, with the outcomes the code has for what it meets: the UPDATE that matches no row or the
index that refuses it throws (`ReopenThrows`), `ON CONFLICT DO NOTHING` returns no row
(`OpenLosesRace`) and the hook looks again (`FindRaced`, `FindRacedNone`). The rows the hooks of
a status or a payment are given may be old: `req` holds the link as it was read.

Merged or left out:

- `scheduled` and `confirmed` are one status; the reasons of a lost sale are `no_respondio` and
  `other`: only the first is one a property speaks of.
- `talk` stands for `conversation_id` being set. There is one conversation; the origin of a sale
  matters only as the difference between `inbound` and `inbound_ad`.
- A `SELECT ... FOR UPDATE` that waits for another transaction is the step taken after the
  wait; a wait that ends with the row no longer open is a look when none was open.
- `created_at` is when a transaction began, the model's order is that of the inserts: they differ only for two
  inserts at once, of which the index lets one through unless one is paid.
- The stages' time stamps, events and actors are not modelled, and the client's CRM module is on.

`ContactSales` is a relation between a state and the next: at most one open sale, one sale moves at a
time and by a legal move, a won one stays won, and an appointment is linked to a sale that is
open or was just paid.

### Booking

State. `appts` are the committed rows of `appointments` (with `asBooked`, history: still where and
what it was booked), `charge` the recorded payment of each with the service and professional of
its line, `txn` what each request in flight has read, holds and is about to write, `enabled` the
scheduling module, `now` the clock. The site has one customer, so one phone and one cap.

A creation is `CheckKey` (the idempotency key, before any transaction), `Plan` (is the slot
offered), `BeginPast` / `BeginPublic` / `BeginAgent` (the transaction, with the module read FOR
SHARE and the advisory lock of past attendances or of the phone), `InsertAppointment` (the lock of the
professional, then the key: whoever meets a pending row of its key waits at `key`, with that lock in hand, until the other ends; the row now
pending), `Commit`. An edit begins under the lock of its row with what it read of the
others, and writes in `WriteEdit`: `moveInterval` takes the lock of the professional,
`changeServiceColumns` none. Whoever has written waits for the others whose pending or replaced
version overlaps (`WaitsFor`); then the exclusion constraint decides (`Commit`, `ConflictSlot`), or the database picks the victim of a cycle (`DeadlockVictim`). A refused
creation with a key stays for one step (`refused`), as its answer is what a property is about. A charge reads
the appointment without a lock (`ReadForCharge`) and writes under one.

Merged or left out: buffers are part of the duration; the events, hooks, prices, attendees and contacts of
an appointment; the choice of a professional among several (an offered slot names one); amounts and methods of payments. Past attendances are
completed in the transaction that books them (`Committed`).

### Handoff

State. `conv` is mode and agent, `last` the last row of the audit trail, `aged` what lies further back than
`auto_return_minutes`, `inbox` the module, `access` who may use it, `msgs` the replies, `req` the
requests in flight and the sweep. A transition goes through `Gate` (escalations only: the module's
row FOR SHARE), `LockRow` (FOR UPDATE, what is expected and what is legal) and `CommitMode`. The release of an agent's
conversations lists them (`ListReleased`) and moves each in a transaction of its own. The switch of the module is lock,
count and write. A reply is inserted or claimed, posted, and its outcome recorded.

Left out: ingestion of the customer's and the bot's messages, tokens, health of the webhook, read markers,
and the gate of the other transitions (the code has none: they read the module before).

### MeetingAnalysis

State. `meeting` has the columns of `meetings` that matter here, `rows` are `meeting_analyses` (one per document: the
summary and each report of each version of the transcript, as `inputsDigest` tells them apart), `req` the requests, `paid`
(history) the calls made under a reservation in its term, less those that failed. `Reserve` is the upsert whose condition
decides alone; `CallModel`, `Complete` / `FailReservation` and `ActivateIfTranscriptUnchanged` follow as statements of their own. `Expire`, `Dies`,
`ActivateTranscript`, `RequestDeletion` and `DeleteMeetingRow` come in between.

Left out: what the model answers and its retry, templates and their versions (a template edited is another
document), the cost preview. A process that died holds its reservations in a name nobody has.

### ExecutionIngestion

State. `n8n` is each execution at n8n, `cursor` `last_seen_execution_id`, `stored` the table, `usage` and
`scanned` the derived tokens, `task` the cycles of each worker process and the backfill, `skipped` (history) what a cycle could
not read or fetch. The guard against overlapping cycles is in the memory of a process, so two processes may be in a cycle of one connection
(during a replacement). `ListExecutions` takes every page in one step, since the executions of later pages exist when the first is read;
a page may hold rows that cannot be read. `UpsertMany` is one INSERT, which throws beyond `InsertLimit` (`UpsertThrows`). Usage is replaced
under the lock that the upsert of the scan takes (`ReplaceUsage`, `InsertUsage`).

Left out: turns, synchronization of workflows, billing, health columns.

### ContactIdentities

State. `contacts` and `born` are the rows, `owner` the identities, `link` the conversations with a reference, `sale` the
opportunities (whose, and open, lost or won), `pairs` the duplicate candidates, `req` the requests in flight, `lost` (history) the contacts
whose maker died before claiming an identity for them. `Ask` begins a message, a booking, a click in the inbox or an upsert of the API;
`Find`, `InsertContact`, `ClaimPrimary`, `ReadOwner`, `DropOrphan`, `AttachIdentities`, `FillEmptyAndTouch`, `LinkNullConversations`, `PickWinner` and
`RecordCandidates` are `resolveContactByIdentity`, a statement each; `LinkOwn`, `OpenSale` what the callers do next. A booking does all
of it in one transaction (`InTx`): its claims, links and its contact are in `req` until `CommitBooking`, and whoever wants the same identity waits. A merge locks both
contacts (`LockBoth`) and then closes, moves and deletes; who refers to a contact waits for it (`Locked`), as it waits for bookings that refer to one of its contacts
(`Refers`). What a wait cannot tell from a death (a deadlock) is `Dies`. `Erase` is the deletion of the row with its cascades.

Left out: how an identity is normalised, contacts of legacy BSUIDs, dismissal of a pair, edits by hand, appointments, payments,
notes, tags, consent and attribution of a merge, the backfill. A merge is asked for in both directions of a pair, as the API accepts either.

## 3. Runs

Bounds are in the `.cfg` files, and each `CONSTANT` that is one says so where it is declared.

| Run | Bounds | What it shows |
|---|---|---|
| `pipeline_two_handlers` | two handlers, one credential, one attempt, good and corrupt artifacts, a deletion (2.4 M states) | `ActiveRunHasWork`, `FailedJobEndsRun`, `ReadyMeansIngested`, `VersionIsVerified` under every interleaving of two requests: two completes (one may reject what the other verified), a complete and a fail, a heartbeat and a complete |
| `pipeline_requests` | one credential, one handler, two attempts, one retry, good and mismatching originals, a cancellation (1.2 M) | `StepsAreEnabled`; `RunSettles`: a started run ends, although leases are lost |
| `pipeline_attempts` | two credentials, two attempts, one retry (2.1 M) | `LeaseIsLatestClaim`, `AttemptIsGrantedOnce`, `QueueSpec`: late requests of a lost attempt between the steps of the next |
| `deletion_purge` | two original URLs, one artifact URL, two sweeps, two automatic attempts (858 k) | `RecordedStaysDeleted`, `PurgeIsRetried` |
| `sales_one_handler` | every operation, two sales, one appointment, one handler; messages without a hook, people, the job and crashes at any time (830 k) | `AnsweredStays`, `UnansweredIsLost` |
| `sales_two_handlers` | messages, bookings, charges and people, two handlers, two sales, one appointment (1.7 M) | `ContactSpec`, `HeardIsReopened`: two hooks at each other's steps |
| `booking_requests` | two appointments, two professionals, a short and a long service, two instants, four creations of every origin, two requests, a cap of one (741 k) | `PastWalkInsApart`, `CapHolds`, `LockedWritersDoNotDeadlock`, `AgendaSpec` |
| `booking_charges` | one appointment, two requests, every edit, charges and voids (37 k) | `PaidIsCompleted`, `PaidStaysAsCharged`, `RequestEnds` |
| `handoff` | one conversation, one agent, one reply, two requests and the sweep (82 k) | `StepsAreEnabled`, `EscalationNeedsInbox`, `PostedByOne`, `ModesSpec`, `SentStays`, `EscalationEnds`, `StrandedIsReturned` |
| `analysis` | three requests, two transcripts, the summary and a report (108 k) | `StepsAreEnabled`, `PaidOnce`, `CatalogueSpec`, `AbandonedIsTakenOver` |
| `ingestion` | three executions, a page and an insert of one, two worker processes and the backfill (608 k) | `StepsAreEnabled`, `CursorCovers`, `CountedOnce`, `EveryOneArrives` |
| `contacts` | two contacts, a phone that is a conversation's reference and an email, two sales, two requests of any of the six kinds (1.9 M) | `NoGhost`, `AnswerIsOwner`, `DirectorySpec` |

No run lists `TypeOK`: the theorem on it of each proof module says the same for every instance.

Why these bounds are enough.

- Meetings. `MaxRuns = 1`, as one run is active at a time and an ended run is inert but for late handlers
  of its own. `MaxAttempts` is 1 or 2 (3 in the schema): the second attempt is the first one with a predecessor, and the code
  compares attempts only for equality and with the limit. `MaxRetries` bounds the second attempts of all jobs together.
- Sales. `MaxSales = 2`: an old sale and one that is open or being opened; a third would be a second old one, and
  the code looks at the latest only. `MaxAppts = 1`: the hooks of one appointment are what meets.
- Booking. Two appointments overlap or do not; a third waits for either of them. Two services of different length make an edit
  that grows into a neighbour, two instants the difference of past and upcoming. Cap one is the smallest that can be passed.
- Handoff. Conversations meet only in the count of the switch and in the list of a release. The same properties
  hold with two agents, which takes several minutes.
- Analysis. Three requests, so that one takes over what a second lost while a third asks.
- Ingestion. Pages and inserts of one row, so that a backlog of two already has a second page and does not fit.
- Contacts. With two contacts and two identities a person can be two, be merged, and be made again; the third
  contact multiplies the states by more than ten and the pairs it adds are of the same kinds.

`CHECK_DEADLOCK FALSE` appears in the pipeline runs (with the bounds, an ended meeting has no step left) and in
`analysis` (the meeting may be gone). No other system stops.

### Fairness

`MeetingsPipeline!FairSpec`: workers poll for jobs (weak fairness of `Claim` of each
job), no worker keeps a lease for ever without finishing (weak fairness of
`LeaseExpires`: a worker that renews for ever would keep a run open, and the code
sets no limit to it), and the sweep, which the maintenance process runs on an interval, meets a
lease that is expired again and again (strong fairness of `RequeueExpiredLeases`: a late
heartbeat can renew an expired lease, so weak fairness would not do). Nothing is
assumed of handlers: they may die.

`MeetingDeletion!FairSpec`: time passes and a sweep that lives takes its next step.
Nothing is assumed about failures or deaths of sweeps. `PurgeIsRetried` is stated for
behaviours in which, from some time on, nobody asks again for the deletion, as each
request starts the count anew.

`SalesPipeline!FairSpec`: the auto-lost job runs on an interval (weak fairness of
`SelectUnanswered`) and, although it may die in a batch, does not die before the same sale for
ever (strong fairness of `AutoLose`). Nothing is assumed of the handlers.

`Booking!FairSpec`: a request goes on, and the locks it waits for are granted in the order they are asked for (strong fairness of
its `Continue`: others may take a lock in between, not for ever).

`Handoff!FairSpec`: requests go on; time goes by; the sweep runs on its interval over every stale conversation (strong
fairness of `Sweep`, as a conversation may stop being stale and be it again), is granted the row, and from some time on does not fail (`SweepSettles`).

`MeetingAnalysis!FairSpec`: requests go on, reservations expire (a timer), and people who do not get a document ask again
(strong fairness of `Ask` and `Reserve` of each document). `AbandonedIsTakenOver` is about what asking again brings.

`ExecutionIngestion!FairSpec`: one process stays, polls on its interval and goes on; n8n does not refuse to list for
ever; whoever else dies, its transaction ends (weak fairness of each task's commit or failure), so that locks are released.

`ContactIdentities` states safety only: no fairness is assumed.

## 4. Properties

| Property | Hazard it is for |
|---|---|
| `ActiveRunHasWork` | a stage is closed and none is in the queue: the meeting stands still with nothing that says why |
| `FailedJobEndsRun` | `fail` on the last attempt settles the job, and the run stays open, or is reopened |
| `ReadyMeansIngested` | the text is announced before, or without, the version it points to |
| `VersionIsVerified` | a version made of an artifact that did not parse, or of an upload that is later rejected |
| `LeaseIsLatestClaim` | a job held by someone else than the one who claimed it last |
| `AttemptIsGrantedOnce` | two workers with the same proof |
| `QueueSpec` | an ended job moves again, an attempt too many, a requeued job with a holder |
| `RunSettles` | a run that nobody finishes |
| `StepsAreEnabled` | a step everything waits for that cannot be taken: a sweep that skips an expired lease, a request with no way on, a row nobody may write (four modules; what the fairness is about) |
| `RecordedStaysDeleted` | a recording or a result that survives or comes back after its meeting was deleted |
| `PurgeIsRetried` | a purge that is forgotten |
| `ContactSpec` | two open sales, a won sale lost or reopened, a stage that jumps, an appointment linked to a sale that was over |
| `AnsweredStays` | the job loses a sale it had selected before the customer answered |
| `HeardIsReopened` | the customer writes, the hook runs to its end, and the contact is left with a sale lost as unanswered and none open |
| `UnansweredIsLost` | a sale the business has written to in vain that no cycle of the job closes |
| `AgendaSpec` | a professional booked twice at once, a key that names two appointments, an edit of a cancelled one, a write while scheduling is off |
| `PastWalkInsApart` | two past attendances registered over each other, which the constraint does not see |
| `CapHolds` | a phone that books beyond the cap by asking twice at once |
| `LockedWritersDoNotDeadlock` | creations and moves that lock and read in an order of their own, and each wait for the other's row |
| `PaidIsCompleted`, `PaidStaysAsCharged` | a payment of an appointment that was cancelled meanwhile, or of another service than the one it has |
| `RequestEnds` | a request stuck behind the locks of others |
| `ModesSpec` | two agents who both get a conversation, a return or release that overrides, a trail that is not true |
| `EscalationNeedsInbox` | an escalation that waits for people who have no inbox |
| `PostedByOne`, `SentStays` | a reply posted by two retries at once, a sent one marked as failed by a late answer |
| `EscalationEnds`, `StrandedIsReturned` | a customer who waits for ever, or for an agent who lost access |
| `PaidOnce` | two requests that both pay for the model |
| `CatalogueSpec` | a document written twice, a summary of a replaced transcript shown, an analysis left of a deleted meeting |
| `AbandonedIsTakenOver` | a document blocked by the reservation of a process that died |
| `CursorCovers` | the cursor runs over an execution that could have been stored |
| `CountedOnce` | tokens derived twice and counted twice |
| `EveryOneArrives` | an execution that no cycle ever stores |
| `DirectorySpec` | an identity, conversation or sale taken from its contact, split by a merge, or of a contact that is gone; two open sales of one |
| `NoGhost` | two first messages that leave two contacts, one of which nobody finds |
| `AnswerIsOwner` | a message or booking written to a contact that does not own the identity it came with |

Exceptions stated in the properties. `ActiveRunHasWork` and `RunSettles` except a run with an abandoned job, which
the code does not settle (section 6). `RunSettles` also excepts meetings reserved for deletion, whose jobs are handed out no
more, and a job that waits for an attempt which the bound `MaxRetries` does not allow. `EveryOneArrives` supposes a backlog that one
INSERT holds, `NoGhost` excepts makers that died, and `AnswerIsOwner` is about requests made for one identity: a request that names
several answers with the oldest contact by design.

## 5. Proofs

`tlapm` proves these for every value of the constants, from the named
assumptions of the modules only (positive bounds, names that are no members, disjoint or finite
sets, durations that are positive). Every property of every run is a theorem, the
liveness properties included, except `StepsAreEnabled`, which the liveness theorems suppose (below).

`MeetingsPipelineProofs`. The invariants are not inductive alone, so one inductive
invariant `IInv` carries all of them. Beyond `TypeOK` it says: rows exist only of runs
that exist and a later stage only after the one before (`RowsOfRuns`); a held job
belongs to its latest claim (`LeaseIsLatestClaim`); what a handler read and decided
remains usable until its write, e.g. the transcript that a diarize commit is going to
ingest parses and stays verified (`HandlersKeepTheirRead`); in an active run
a stage that ended well has its successor, and none failed or was cancelled
(`ActiveRunStages`); `ReadyMeansIngested` and `VersionIsVerified`. `HandlersKeepTheirRead`
is the heart of it: the code does not lock what it read, and it is right for these
properties only because what was read cannot be taken back. `IInvHolds` shows `IInv`
inductive, one lemma per group of actions; the theorems on single properties
follow. `QueueIsImplemented` shows the refinement: initial states map to initial
states, every step to a step of the queue or a stutter.

`MeetingDeletionProofs`. `DInv`: the recorded expiry covers every URL answered
(`ExpiryCoversIssued`), so the deadline covers the recorded ones (`DeadlineCoversRecorded`), so
a sweep starts when they are dead (`SweepsAreLate`), so a prefix found empty stays without
them until the row is deleted (`VerifiedIsEmpty`), whatever other sweep holds the lease: the
lease is not needed for the safety of the deletion, only to save work. What is recorded is every URL the reservation counts: of the original,
through the expiry in the row, and of results, for which it adds their life whole. A purge that failed has a deadline that passed
(`DeadlineCoversRecorded`), which is why a second request, whose deadline may be an earlier one, does no harm. `SweepsStartLate` states the middle of the argument by itself.

`SalesPipelineProofs`. `IInv` joins `TypeOK` (rows that do not contradict themselves), `LinksExist`
(appointments and handlers name sales that exist), `HandlersHaveAppt` (a handler at a step that
needs an appointment has one), `OneOpenSale` and `HeardIsLive` (`AnsweredStays`, and a sale is heard only
while the customer spoke last, which is what keeps the job from losing it). The proof shows that each action moves at most one
sale, by one of a few moves (`SaleStep`), appointments, handlers and messages likewise; that these moves
keep `IInv`; and that each is a move of `ContactSales`. So a new action has to be matched with a move
only. `HeardReopens` adds `Hearing`: while the hook of the last message runs, the customer is the last to have spoken, so
nothing is lost as unanswered, and at its reopening no sale later than the one it read is; so a reopening that throws finds
another sale open, or its own won.

`BookingProofs`. Every action is a `RequestStep` (one request goes on, rows stay), a `RowStep` (one row is written and at most its
writer moves), a `ChargeStep` or a `SwitchStep`. The invariant joins the types, what a request at each step holds
(`Fits`: its shape and its locks, and what a creator of a past attendance has checked under its lock), what two requests never
share (`Distinct`), and the rows (`Agreed`: the past ones done, the active ones and the keys apart, only completed ones paid). `TheCapHolds` needs counting: a public creation past the lock of the phone counted fewer than the cap and is alone (`CapInv`); every other step is
`Quiet`, it brings no public booking and no such creation, and its commit adds one.
`LockedNeverDeadlock` is what remains true of the comment `NoDeadlock` quotes (section 6). Those who take the lock of the professional and then read never wait in a
circle: two of them with pending rows of one professional exclude each other (`LocksApart`), so one can only meet what another wrote *before* it read, and it would have
read that (`ReadsClear`); so in each set of them the last to have read meets nobody (`LastMeetsNobody`, kept by each step: `LastStep`). The order of the reads is no
variable: "in each set someone meets nobody" stands for it. A circle therefore has a request in it that writes without the lock.

`HandoffProofs`. `Ok` (types, and what each request in flight holds) with `Apart` (two transitions do not hold one row, two
requests not one reply, the switch and a gated transition not the module). Steps are `RequestStep`, `ModeStep`, `ReplyStep`, `ModuleStep`; the mode that a
transition read under its lock is still there when it commits, which is the refinement.

`MeetingAnalysisProofs`. `RowOk` (a pending row and its payments) and `RequestOk` (who is at the activation has finished its summary) are all that
`PaidOnce` and the refinement need: the reservation's condition decides alone.

`ExecutionIngestionProofs`. `Fit` (what a cycle at each step has listed, fetched and inserted: everything between the cursor it read and the one it writes
is in its rows or was skipped), `Apart` and `Handing` (who holds a scan, who was handed a row; with it `HandedToOne`, which is proved and listed in no run). Every action `Moves` one task and only lets tables `Grow`, so what
other cycles rely on stays.

`ContactIdentitiesProofs`. `TablesOk` and `FieldsOk` (types), `HiddenOk` (a contact being made, not yet claimed, is nobody else's), `ClaimsOk` (pending claims and links are
free and of one booking), `HeldOk` (a booking that holds a contact keeps it), `MergeOk` (both contacts of a merge live, and what it has read of their sales), `AnswerOk`. Every
step lets contacts grow what is their own (`GrowKeeps`), lets one leave (`LeaveKeeps`) or changes the status of a sale (`StatusKeeps`); the requests at other steps are kept by each. The refinement maps the same
three kinds of steps.

### Liveness

| Theorem | Property | Besides `FairSpec` and `[]StepsAreEnabled` |
|---|---|---|
| `RunsSettle` | `RunSettles` | - |
| `EveryRunIsSettled` | `EveryRunSettles` | `NoBound`: the bound of the runs is no bound |
| `PurgesAreRetried` | `PurgeIsRetried` | at least one sweep |
| `UnansweredIsLostInTheEnd` | `UnansweredIsLost` | - |
| `RequestsEnd` | `RequestEnds` | finitely many handlers |
| `EscalationsEnd` | `EscalationEnds` | - |
| `StrandedAreReturned` | `StrandedIsReturned` | finitely many replies |
| `AbandonedAreTakenOver` | `AbandonedIsTakenOver` | finitely many handlers |
| `EveryOneArrivesInTheEnd` | `EveryOneArrives` | - |

The hypothesis. `tlapm` treats `ENABLED A` as a formula it knows nothing about, and weak and strong fairness are defined with it. So a liveness
theorem says: if in every state the actions the fairness is about are enabled when they are waited for (`StepsAreEnabled`, one conjunct per action,
stated in each module beside its fairness), the property holds. That `StepsAreEnabled` is an invariant is what is only model-checked: by the runs
`pipeline_requests`, `handoff`, `analysis` and `ingestion`, which list it. The other three modules define it too; it holds under the bounds of
`deletion_purge`, `sales_one_handler`, `booking_charges` and `booking_requests` when it is added to their cfg as an INVARIANT. The guards it
states are no bounds of the small instance but those of the actions themselves, `MaxRetries` of the pipeline excepted, where the conjunct says so.

How they go. Each proof uses the inductive invariant of its module as known of every state. What holds until a step is taken is an action lemma (one case per action),
fairness and the enabledness give the leads-to of that step by `PTL`, and leads-tos are chained. A finite set that only shrinks (the requests that hold a lock, the
replies not yet answered) is emptied one member at a time: the induction theorem of `FiniteSetTheorems` takes an operator, so each module that needs it proves `FiniteInduction` over a table of formulas.

- `RunsSettle`. A run that stays active has a job that is waiting or held (`ActiveRunHasWork`). A waiting job is claimed in the end, a claim takes an attempt, and
  attempts are at most `MaxAttempts`. That no lease is kept for ever needs an argument, as heartbeats renew them: were some kept, then from some time on
  no other job would be held, and yet a sweep would come again and again, each taking an expired lease that no claim gives again for that attempt (`NoLeaseIsKept`). So each
  job of the run ends, and a run has three. `RunSettles` excepts a job that waits for an attempt the bound `MaxRetries` does not allow;
  the code has no such bound, and `EveryRunIsSettled` is the statement without it: if `MaxRetries` allows a retry of each attempt of each job there can be (`NoBound`),
  fewer have been made whenever an attempt is left (`RetriesAreLeft`, by counting), so the exception is never met.
- `PurgesAreRetried`. Time brings the deadline and the end of every lease; from then on a sweep at work goes on and an idle one can claim; each
  claim counts, up to the attempts there are, and nobody asks anew by hypothesis.
- `UnansweredIsLostInTheEnd`. The job selects again whenever it has tried all it selected; a sale that stays unanswered is in the next selection and is tried.
- `RequestsEnd`. A request that is not idle and never goes on waits for one that never goes on. Those who wait with a pending row wait for each other's rows only;
  waiting for ever they form a cycle (finitely many), from which the database picks a victim. So rows do not stay pending. Then whoever
  waits for a key goes on, then whoever waits for a professional, then whoever waits for a phone, a past attendance or the row of an appointment.
- `EscalationsEnd`, `StrandedAreReturned`. Time makes what waits stale, the sweep meets it again and again, is granted the row, since who holds
  it commits or dies, and moves it unless someone else does.
- `AbandonedAreTakenOver`. A reservation expires; who wants the document asks again and its upsert takes the row, or another finishes it.
- `EveryOneArrivesInTheEnd`. The process that stays starts a cycle, lists, fetches and inserts what is beyond the cursor, which is behind everything that has not arrived (`CursorCovers`).

Only model-checked: `StepsAreEnabled`, for the reason above. Every other property of every run is a theorem.

## 6. Where the code does not do what the repository says

These formulas are kept at the end of each module, under the sentence they come from, and no run lists them. To see one fail, add it
to the cfg of the component: the formulas on a state as INVARIANT, the others (`ActiveIsKept`, `ReleasesOnlyTheirs`, `NoneOfCondemned`,
`LateOnesArrive`, `AnyBacklogArrives`, `HistoryIsKept`) as PROPERTY. Most fail under the bounds of the run as they are. `FailedIsNotCompleted`
wants `pipeline_attempts` with two handlers, `BookedIsAwaited` two handlers in `sales_one_handler`, `PaymentLeavesSalePaid` `MaxAppts = 2`,
and `NoReversedPair` three contacts and three identities.

| Formula | Says | What happens |
|---|---|---|
| `MeetingsPipeline!FailedIsNotCompleted` | a failed job is over | a `failed` job can be completed, and its next stage is enqueued |
| `MeetingsPipeline!AcceptedIsIngested` | what was accepted is the text | the transcript of the attempt that lost its lease is ingested (the oldest by `created_at`) |
| `MeetingsPipeline!DiarizeOverMeansIngested` | `docs/meetings-stage-contracts.md:83` | the transcript of a run whose diarize job the sweep abandoned is never ingested |
| `MeetingDeletion!NoOrphan` | nothing outlives the row | an URL signed for a live meeting is answered after the reservation; its object outlives the row |
| `SalesPipeline!BookedIsAwaited` | a booked sale waits for an appointment | an appointment that ends before its booking hook has linked it leaves a sale booked for ever |
| `SalesPipeline!PaymentLeavesSalePaid` | a payment leaves its sale paid | voiding one of two payments of a sale puts it back to attended, though the other stands |
| `Booking!RetryReplays` | the same key and payload return the appointment | a retry that meets its first request still running is refused, as the slot it planned is now taken |
| `Booking!NoDeadlock` | `appointments.ts:304`: a clean 23P01 rather than a deadlock | `changeServiceColumns` writes its interval without the lock, so two writers wait for each other; every such circle has a change of service or a confirmation in it (`LockedWritersDoNotDeadlock`) |
| `Booking!ChargeMatches` | lines stay consistent | a draft computed from an unlocked read is charged after the service was changed |
| `Handoff!DisabledIsIdle` | `inboxActions.ts:37` | a take that read the module before it was switched off commits afterwards |
| `Handoff!ActiveIsKept` | `autoReturn.ts:16` | the sweep expects the mode it read, not the reply that has come since |
| `Handoff!ReleasesOnlyTheirs` | a removed member's conversations are released | the release moves each listed conversation whoever has it by then |
| `MeetingAnalysis!NoneOfCondemned` | no summaries of a meeting being deleted | the state is read before the reservation |
| `ExecutionIngestion!LateOnesArrive` | new executions are ingested | one that had not started when fetched is never read again, as the cursor has passed it |
| `ExecutionIngestion!AnyBacklogArrives` | likewise | a backlog beyond 5 957 rows (65 535 parameters, 11 a row) fails at every cycle |
| `ContactIdentities!HistoryIsKept` | no contact with history is deleted | the check and the deletion are apart: a sale opened in between goes with the contact |
| `ContactIdentities!NoReversedPair` | no reversed pair | a merge makes the survivor as old as the dropped contact, so a later collision records the pair the other way round |
| `ContactIdentities!MergeFits` | moving the sales cannot violate the index | a sale opened or reopened between the look and the move makes the merge fail (it is rolled back) |

Further ones, seen in the models and without a formula:

- `service.ts:1105`: a cancellation or a sweep between the transaction's `authorizeLease` and its
  writes leaves the next stage of a cancelled or abandoned job queued.
- `service.ts:296`: an `upload-complete` that read the meeting before it was cancelled starts a run
  afterwards, against the comment at `service.ts:1607`.
- `repositories/meetings/jobs.ts:341`: `markFailed` is guarded by the status alone: a `fail` authorized
  before its lease was swept and claimed again fails the attempt of the other worker.
- `repositories/meetings/deletion.ts:190`: a sweep that dies on the last attempt leaves the meeting
  `deleting` with its attempts spent, which no claim takes and a renewed request answers as reserved.
- `service.ts:1060`: of two completes of one transcript, one may reject (it looked before the
  PUT) what the other accepts; diarize is created without a verified transcript.
- `service.ts:311`: an `upload-complete` re-sent after its run ended starts a second run.
- `artifacts.ts:91`: of two `result/init` the later writer's expiry stays, and a verified
  upload's is not touched although a URL is answered: the reservation can miss a URL.
- `deletion.ts:112`: asking again for a deletion clears the lease of the sweep at work.
- `service.ts:229`: `upload-init` writes `uploading` over a `ready` that came meanwhile.
- `repositories/meetings/meetings.ts:262`: attempts of `normalize` closed out of order may leave no live normalized row.
- `engine.ts:306`: a booking that loses the race to open a sale links its appointment to the winner's
  and returns without advancing it; the comment beside it says it advances it instead.
- `engine.ts:650`: a payment voided between its commit and its hook leaves the sale paid, as the
  hook does not look at the payment again.
- `payments.ts:295`: a payment recorded while the booking hook of the same appointment is in flight
  finds no link and no open sale and inserts a paid one; the booking then opens a second sale for one visit.
- `booking.ts:580`, `payments.ts:341`: events and hooks run after the commit, and a crash loses them.
- `analysis/service.ts:275`: a crash between the completion and the activation leaves a finished summary that is not shown;
  a failed call was paid for too, which the cost does not count.
- `handoff.ts`: a return to the bot that an agent asked for is applied although another agent has taken the conversation since
  (`human` again); a reply whose process died stays `sending` and cannot be retried; an old reply makes a conversation that was taken again stale at once.
- `contactIdentities.ts:481`: a request that loses the race to create adopts the other's contact and records no duplicate
  candidate, although its other identities may be a third contact's; a conversation may be linked to the oldest of several contacts, which does not own its reference.

## 7. What could follow

- The planner of recurring series and the availability engine as functions against the meaning of each scope.
- Compositions: booking with the sales pipeline and the contacts (today the sales and the contacts model have the booking's
  transaction and its hooks in their own steps), deletion with analysis and pipeline (`MeetingAnalysis` has the deletion's
  two steps, `MeetingDeletion` the requests that sign).
- More appointments than one in `SalesPipeline`, more contacts than two, if a faster checker is at hand: the safety properties
  are proved without bounds.

## 8. Not modelled

The components with status `not_modelled` in `PROJECT.json`, each with its reason: reads, row-level
storage, pure computations over calendars, adapters of external services, and the
web application, whose server actions appear only as far as they call the services above. The contents of artifacts, the wording of errors and the HTTP layer
are left out throughout.
