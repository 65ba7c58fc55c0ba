-------------------------- MODULE ExecutionIngestion --------------------------
(* The executions of one n8n connection, from n8n to the platform's tables:     *)
(* src/ingestion/worker.ts and ingestExecutions.ts, ingestion_state, and the    *)
(* token usage derived from what was inserted (src/analytics/deriveLlmUsage.ts, *)
(* repositories/llmUsage.ts), which a backfill script derives as well.          *)
(*                                                                              *)
(* The overlap guard of the worker is in its memory: while one process replaces *)
(* another, two cycles of the same connection may run. A cycle is cut between   *)
(* its calls to n8n and its statements; it may be lost between any two. The     *)
(* health columns of ingestion_state, which no cycle reads, are left out.       *)
EXTENDS Naturals, FiniteSets

CONSTANTS
  MaxId,        \* bound: executions 1 .. MaxId, numbered as n8n numbers them
  Delayed,      \* bound: those that may be waiting for their start when they are created
  Rescanned,    \* bound: those the backfill visits
  Workers,      \* worker processes alive at once
  Survivor,     \* the one of them that outlives the others
  Backfill,     \* the process of the backfill script
  PageLimit,    \* executions of a page
  InsertLimit   \* rows one INSERT can bind: 65535 parameters, 11 to a row

ASSUME BoundsAssumption == MaxId \in Nat /\ PageLimit \in Nat /\ InsertLimit \in Nat
ASSUME TasksAssumption == Survivor \in Workers /\ Backfill \notin Workers

Execs == 1 .. MaxId
Tasks == Workers \cup {Backfill}

VARIABLES
  n8n,      \* of each execution, at n8n: none, waiting to start, or started
  cursor,   \* ingestion_state.last_seen_execution_id (0: null)
  stored,   \* executions
  usage,    \* execution_llm_usage: how many times the tokens of an execution are counted
  scanned,  \* execution_llm_scans
  task,     \* the cycles in flight, and the backfill
  skipped   \* history: unreadable when listed, failed or not started when fetched, or older than the first page

vars == <<n8n, cursor, stored, usage, scanned, task, skipped>>

(* A task at a step: the cursor it read or will write, the executions it listed, the rows it made *)
(* of them, and those it was handed to derive, of which it is at one, that had so much usage.      *)
Task(pc, seen, listed, rows, todo, at, gone) ==
  [pc |-> pc, seen |-> seen, listed |-> listed, rows |-> rows, todo |-> todo, at |-> at, gone |-> gone]
Cycle(pc, seen, listed, rows) == Task(pc, seen, listed, rows, {}, 0, 0)
Deriving(todo) == Task("derive", 0, {}, {}, todo, 0, 0)
Idle == Cycle("idle", 0, {}, {})

Init ==
  /\ n8n = [e \in Execs |-> "none"]
  /\ cursor = 0
  /\ stored = {} /\ usage = [e \in Execs |-> 0] /\ scanned = {}
  /\ task = [w \in Tasks |-> Idle]
  /\ skipped = {}

Existing == {e \in Execs : n8n[e] # "none"}
IsHighest(top, S) == top \in S /\ \A f \in S : f <= top
Ends(w) == task' = [task EXCEPT ![w] = Idle]

-----------------------------------------------------------------------------
(* n8n. *)
Create(e) ==
  /\ n8n[e] = "none" /\ \A f \in Execs : f < e => n8n[f] # "none"
  /\ \E s \in {"started"} \cup {t \in {"waiting"} : e \in Delayed} : n8n' = [n8n EXCEPT ![e] = s]
  /\ UNCHANGED <<cursor, stored, usage, scanned, task, skipped>>

Begins(e) ==
  /\ n8n[e] = "waiting"
  /\ n8n' = [n8n EXCEPT ![e] = "started"]
  /\ UNCHANGED <<cursor, stored, usage, scanned, task, skipped>>

-----------------------------------------------------------------------------
(* A cycle. *)
Start(w) ==
  /\ task[w] = Idle
  /\ task' = [task EXCEPT ![w] = Cycle("list", cursor, {}, {})]
  /\ UNCHANGED <<n8n, cursor, stored, usage, scanned, skipped>>

(* The first cycle reads the newest page only; the others page down to what was seen. The *)
(* executions of the later pages exist when the first is read, so that decides.            *)
NewestPage == {e \in Existing : Cardinality({f \in Existing : f > e}) < PageLimit}
NewSummaries(seen) == IF seen = 0 THEN NewestPage ELSE {e \in Existing : e > seen}

ListExecutions(w) ==
  LET page == NewSummaries(task[w].seen) IN
  /\ task[w].pc = "list"
  /\ \E readable \in SUBSET page :
       /\ task' = [task EXCEPT ![w] = Cycle("fetch", task[w].seen, readable, {})]
       /\ skipped' = skipped \cup (page \ readable)
                     \cup (IF task[w].seen = 0 THEN Existing \ page ELSE {})
  /\ UNCHANGED <<n8n, cursor, stored, usage, scanned>>

ListFails(w) ==
  /\ task[w].pc = "list"
  /\ Ends(w)
  /\ UNCHANGED <<n8n, cursor, stored, usage, scanned, skipped>>

(* Each detail may fail; of an execution that has not started there is no row to make. What *)
(* is left of the list is the highest number in it, which becomes the cursor.               *)
Storable(S) == {e \in S : n8n[e] = "started"}

FetchRows(w) ==
  /\ task[w].pc = "fetch"
  /\ \E rows \in SUBSET Storable(task[w].listed), top \in 0 .. MaxId :
       /\ IsHighest(top, task[w].listed \cup {task[w].seen})
       /\ task' = [task EXCEPT ![w] = Cycle("insert", top, {}, rows)]
       /\ skipped' = skipped \cup (task[w].listed \ rows)
  /\ UNCHANGED <<n8n, cursor, stored, usage, scanned>>

(* ON CONFLICT DO NOTHING RETURNING id: only what this statement inserted is handed on. *)
Inserted(rows) == rows \ stored
FitsOneInsert_strict(rows) == Cardinality(rows) < InsertLimit
FitsOneInsert(rows) == Cardinality(rows) <= InsertLimit

UpsertMany(w) ==
  /\ task[w].pc = "insert" /\ FitsOneInsert(task[w].rows)
  /\ stored' = stored \cup task[w].rows
  /\ task' = [task EXCEPT ![w] = Task("record", task[w].seen, {}, {}, Inserted(task[w].rows), 0, 0)]
  /\ UNCHANGED <<n8n, cursor, usage, scanned, skipped>>

UpsertThrows_later(w) ==
  /\ task[w].pc = "insert" /\ Cardinality(task[w].rows) > InsertLimit + 1
  /\ Ends(w)
  /\ UNCHANGED <<n8n, cursor, stored, usage, scanned, skipped>>

(* Too many rows: the cycle of this connection is rejected, and nothing records it. *)
UpsertThrows(w) ==
  /\ task[w].pc = "insert" /\ ~FitsOneInsert(task[w].rows)
  /\ Ends(w)
  /\ UNCHANGED <<n8n, cursor, stored, usage, scanned, skipped>>

RecordSuccessfulPoll_newest(w) ==
  /\ task[w].pc = "record"
  /\ \E top \in 0 .. MaxId : IsHighest(top, Existing \cup {0}) /\ cursor' = top
  /\ task' = [task EXCEPT ![w] = Deriving(task[w].todo)]
  /\ UNCHANGED <<n8n, stored, usage, scanned, skipped>>

RecordSuccessfulPoll(w) ==
  /\ task[w].pc = "record"
  /\ cursor' = task[w].seen
  /\ task' = [task EXCEPT ![w] = Deriving(task[w].todo)]
  /\ UNCHANGED <<n8n, stored, usage, scanned, skipped>>

-----------------------------------------------------------------------------
(* The token usage of an execution: one transaction. The upsert of its scan waits for any other *)
(* such transaction to end, then the usage found is deleted, and the new one inserted.          *)
Scanning(w, e) == task[w].pc = "count" /\ task[w].at = e
ScanFree_always(e) == TRUE
ScanFree(e) == \A w \in Tasks : ~Scanning(w, e)

NextOf(w) ==
  IF task[w].todo \subseteq {task[w].at} THEN Ends(w)
  ELSE task' = [task EXCEPT ![w] = Deriving(task[w].todo \ {task[w].at})]

NothingNew(w) ==
  /\ task[w].pc = "derive" /\ task[w].todo = {}
  /\ Ends(w)
  /\ UNCHANGED <<n8n, cursor, stored, usage, scanned, skipped>>

ReplaceUsage(w) ==
  /\ task[w].pc = "derive"
  /\ \E e \in task[w].todo :
       ScanFree(e) /\ task' = [task EXCEPT ![w] = Task("count", 0, {}, {}, task[w].todo, e, usage[e])]
  /\ UNCHANGED <<n8n, cursor, stored, usage, scanned, skipped>>

InsertUsage(w) ==
  LET e == task[w].at IN
  /\ task[w].pc = "count"
  /\ usage' = [usage EXCEPT ![e] = (@ - task[w].gone) + 1]
  /\ scanned' = scanned \cup {e}
  /\ NextOf(w)
  /\ UNCHANGED <<n8n, cursor, stored, skipped>>

(* A failure is logged, and the next execution is taken. *)
DeriveFails(w) ==
  /\ task[w].pc = "count"
  /\ NextOf(w)
  /\ UNCHANGED <<n8n, cursor, stored, usage, scanned, skipped>>

(* One execution of a page of the backfill: one never scanned when the page was read, or any. *)
BackfillOne(e) ==
  /\ task[Backfill] = Idle /\ e \in stored \cap Rescanned
  /\ task' = [task EXCEPT ![Backfill] = Deriving({e})]
  /\ UNCHANGED <<n8n, cursor, stored, usage, scanned, skipped>>

(* A process dies, and is replaced; or a statement of it fails, which ends its cycle. *)
Dies(w) ==
  /\ task[w] # Idle /\ w # Survivor
  /\ Ends(w)
  /\ UNCHANGED <<n8n, cursor, stored, usage, scanned, skipped>>

-----------------------------------------------------------------------------
Persist(w) == UpsertMany(w) \/ UpsertThrows(w)
Derive(w) == NothingNew(w) \/ ReplaceUsage(w) \/ InsertUsage(w)

Next ==
  \/ \E e \in Execs : Create(e) \/ Begins(e) \/ BackfillOne(e)
  \/ \E w \in Workers : Start(w) \/ ListExecutions(w) \/ ListFails(w) \/ FetchRows(w)
                        \/ Persist(w) \/ RecordSuccessfulPoll(w)
  \/ \E w \in Tasks : Derive(w) \/ DeriveFails(w) \/ Dies(w)

Spec == Init /\ [][Next]_vars

(* One process stays in the end: it polls on its interval and goes on with its cycle; n8n does *)
(* not refuse to list for ever. Whoever else dies or stops, a transaction of its is committed   *)
(* or rolled back, and the lock of a scan is granted in turn.                                   *)
Continue(w) == FetchRows(w) \/ Persist(w) \/ RecordSuccessfulPoll(w) \/ Derive(w)
Fairness ==
  /\ WF_vars(Start(Survivor)) /\ SF_vars(ListExecutions(Survivor)) /\ SF_vars(Continue(Survivor))
  /\ \A w \in Tasks : WF_vars(InsertUsage(w) \/ DeriveFails(w))
FairSpec == Spec /\ Fairness

(* What is waited for can be done: the process that stays has a next step whatever others do, *)
(* unless all it has left to derive are scans that other transactions hold.                     *)
StepsAreEnabled ==
  LET r == task[Survivor] IN
  /\ r = Idle => ENABLED <<Start(Survivor)>>_vars
  /\ r.pc = "list" => ENABLED <<ListExecutions(Survivor)>>_vars
  /\ r.pc \in {"fetch", "insert", "record", "count"} => ENABLED <<Continue(Survivor)>>_vars
  /\ r.pc = "derive" /\ (r.todo = {} \/ \E e \in r.todo : ScanFree(e)) => ENABLED <<Continue(Survivor)>>_vars
  /\ \A w \in Tasks : task[w].pc = "count" => ENABLED <<InsertUsage(w) \/ DeriveFails(w)>>_vars

-----------------------------------------------------------------------------
(* Every table keeps to its columns; a row of executions has a start, and usage is of a row. *)
TypeOK ==
  /\ n8n \in [Execs -> {"none", "waiting", "started"}]
  /\ cursor \in 0 .. MaxId
  /\ stored \subseteq Execs /\ \A e \in stored : n8n[e] = "started"
  /\ usage \in [Execs -> Nat] /\ scanned \subseteq stored
  /\ task \in [Tasks -> [pc : {"idle", "list", "fetch", "insert", "record", "derive", "count"},
                         seen : 0 .. MaxId, listed : SUBSET Execs, rows : SUBSET Execs, todo : SUBSET Execs,
                         at : 0 .. MaxId, gone : Nat]]
  /\ skipped \subseteq Execs

(* The cursor never runs over an execution that every cycle could read and fetch, whatever   *)
(* arrives while pages are read, whoever dies after the insert and whichever cycle writes    *)
(* the cursor last (ingestExecutions.ts:193).                                                *)
CursorCovers == \A e \in Execs : e <= cursor => e \in stored \cup skipped

(* However cycles overlap and cursors go back, an execution is handed on for derivation to   *)
(* the cycle that inserted it and to no other (upsertMany, executions.ts:49). No run lists it: *)
(* it is a part of the inductive invariant CountedOnce follows from.                          *)
HandedToOne ==
  \A v, w \in Workers : v # w => task[v].todo \cap task[w].todo = {}

(* The tokens of an execution are counted once, however often the worker and the backfill    *)
(* derive them, at once or again (persistExecutionLlmUsage, llmUsage.ts:68).                  *)
CountedOnce == \A e \in Execs : usage[e] = IF e \in scanned THEN 1 ELSE 0

(* While the backlog is one that an INSERT can hold, an execution is stored or was skipped.   *)
Backlog == {e \in Existing : e > cursor}
BacklogFits == [](Cardinality(Backlog) <= InsertLimit)
Arrives(e) == n8n[e] # "none" ~> e \in stored \cup skipped
EveryOneArrives == BacklogFits => \A e \in Execs : Arrives(e)

(* What the documents say and the code does not keep. *)

(* «Polls every active connection every POLL_INTERVAL_SECONDS and ingests new executions». *)
LateOnesArrive == \A e \in Execs : n8n[e] = "started" /\ e \notin stored ~> e \in stored
AnyBacklogArrives == \A e \in Execs : Arrives(e)
=============================================================================
