---------------------- MODULE ExecutionIngestionProofs ----------------------
(***************************************************************************)
(* Theorems about ExecutionIngestion for every number of executions, of    *)
(* processes at once, and every size of a page and of an INSERT.           *)
(*                                                                         *)
(* Fit says what a cycle or the backfill may rely on at its step, in terms *)
(* of the tables it relies on, so that the same predicate speaks of a      *)
(* state and of the next; Apart is what two of them never share. A step    *)
(* moves at most one task (Moves), and the tables only grow (Grows).       *)
(***************************************************************************)
EXTENDS ExecutionIngestion, TLAPS, FiniteSetTheorems, WellFoundedInduction

TaskRecords ==
  [pc : {"idle", "list", "fetch", "insert", "record", "derive", "count"},
   seen : 0 .. MaxId, listed : SUBSET Execs, rows : SUBSET Execs, todo : SUBSET Execs,
   at : 0 .. MaxId, gone : Nat]

(* n is n8n, s what is stored, k what was skipped, u the usage. *)
Fit(t, n, s, k, u) ==
  /\ t \in TaskRecords
  /\ t.pc # "fetch" => t.listed = {}
  /\ t.pc # "insert" => t.rows = {}
  /\ \A e \in t.listed : n[e] # "none"
  /\ \A e \in t.rows : n[e] = "started"
  /\ t.todo \subseteq s
  /\ \A e \in Execs : \A f \in t.listed \cup {t.seen} : e <= f => e \in s \cup k \cup t.listed \cup t.rows
  /\ t.pc = "count" => t.at \in t.todo /\ t.gone = u[t.at]

FitNow(w) == Fit(task[w], n8n, stored, skipped, usage)

Apart(t, r) == t.pc = "count" /\ r.pc = "count" => t.at # r.at

Handing ==
  /\ \A w \in Tasks : FitNow(w)
  /\ \A v, w \in Tasks : v # w => Apart(task[v], task[w])
  /\ HandedToOne

(* n8n numbers executions in the order it creates them. *)
InOrder == \A e, f \in Execs : f < e /\ n8n[e] # "none" => n8n[f] # "none"

IInv == TypeOK /\ Handing /\ InOrder /\ CursorCovers /\ CountedOnce

Tables ==
  /\ n8n \in [Execs -> {"none", "waiting", "started"}]
  /\ cursor \in 0 .. MaxId
  /\ stored \subseteq Execs /\ \A e \in stored : n8n[e] = "started"
  /\ usage \in [Execs -> Nat] /\ scanned \subseteq stored
  /\ skipped \subseteq Execs

LEMMA TypesOfFits == Tables /\ task \in [Tasks -> TaskRecords] => TypeOK
BY DEF Tables, TypeOK, TaskRecords

LEMMA FitsOfTypes == TypeOK => Tables /\ task \in [Tasks -> TaskRecords]
BY DEF Tables, TypeOK, TaskRecords

-----------------------------------------------------------------------------
(* The form of a step. *)

Grows ==
  /\ stored \subseteq stored' /\ skipped \subseteq skipped'
  /\ \A e \in Execs : n8n[e] # "none" => n8n'[e] # "none"
  /\ \A e \in Execs : n8n[e] = "started" => n8n'[e] = "started"

(* A task relies on nothing that growing takes away. *)
LEMMA FitStays ==
  ASSUME NEW t, NEW n, NEW n2, NEW s, NEW s2, NEW k, NEW k2, NEW u, NEW u2,
         Fit(t, n, s, k, u), s \subseteq s2, k \subseteq k2,
         \A e \in Execs : n[e] # "none" => n2[e] # "none",
         \A e \in Execs : n[e] = "started" => n2[e] = "started",
         t.pc = "count" => u2[t.at] = u[t.at]
  PROVE  Fit(t, n2, s2, k2, u2)
<1>1. t.listed \subseteq Execs /\ t.rows \subseteq Execs
  BY DEF Fit, TaskRecords
<1> QED BY <1>1 DEF Fit

(* Task w becomes t; nobody else notices. *)
Moves(w, t) ==
  /\ w \in Tasks /\ task' = [task EXCEPT ![w] = t]
  /\ Grows
  /\ Fit(t, n8n', stored', skipped', usage')
  /\ \A v \in Tasks \ {w} : Apart(t, task[v]) /\ Apart(task[v], t)
  /\ \A v \in Tasks \ {w} : task[v].pc = "count" => usage'[task[v].at] = usage[task[v].at]
  /\ \A v \in Workers \ {w} : w \in Workers => t.todo \cap task[v].todo = {}

LEMMA HandingMoves ==
  ASSUME IInv, NEW w, NEW t, Moves(w, t)
  PROVE  Handing' /\ task' \in [Tasks -> TaskRecords]
<1>1. task \in [Tasks -> TaskRecords]
  BY FitsOfTypes DEF IInv
<1>2. \A v \in Tasks : task'[v] = IF v = w THEN t ELSE task[v]
  BY <1>1 DEF Moves
<1>3. \A v \in Tasks : Fit(task'[v], n8n', stored', skipped', usage')
  <2> TAKE v \in Tasks
  <2>1. CASE v = w
    BY <2>1, <1>2 DEF Moves
  <2>2. CASE v # w
    <3>1. Fit(task[v], n8n, stored, skipped, usage)
      BY DEF IInv, Handing, FitNow
    <3>2. task[v].pc = "count" => usage'[task[v].at] = usage[task[v].at]
      BY <2>2 DEF Moves
    <3>3. Fit(task[v], n8n', stored', skipped', usage')
      BY <3>1, <3>2, FitStays DEF Moves, Grows
    <3> QED BY <3>3, <2>2, <1>2
  <2> QED BY <2>1, <2>2
<1>4. (\A v \in Tasks : FitNow(v))'
  BY <1>3 DEF FitNow
<1>5. (\A u, v \in Tasks : u # v => Apart(task[u], task[v]))'
  <2> SUFFICES ASSUME NEW u \in Tasks, NEW v \in Tasks, u # v
               PROVE  Apart(task'[u], task'[v])
    BY DEF Apart
  <2>1. CASE u = w
    BY <2>1, <1>2 DEF Moves
  <2>2. CASE v = w
    BY <2>2, <1>2 DEF Moves
  <2>3. CASE u # w /\ v # w
    BY <2>3, <1>2 DEF IInv, Handing
  <2> QED BY <2>1, <2>2, <2>3
<1>6. HandedToOne'
  <2> SUFFICES ASSUME NEW u \in Workers, NEW v \in Workers, u # v
               PROVE  task'[u].todo \cap task'[v].todo = {}
    BY DEF HandedToOne
  <2>0. u \in Tasks /\ v \in Tasks
    BY DEF Tasks
  <2>1. CASE u = w
    BY <2>1, <2>0, <1>2 DEF Moves
  <2>2. CASE v = w
    BY <2>2, <2>0, <1>2 DEF Moves
  <2>3. CASE u # w /\ v # w
    BY <2>3, <2>0, <1>2 DEF IInv, Handing, HandedToOne
  <2> QED BY <2>1, <2>2, <2>3
<1>7. task' \in [Tasks -> TaskRecords]
  <2>1. t \in TaskRecords
    BY DEF Moves, Fit
  <2> QED BY <2>1, <1>1 DEF Moves
<1> QED BY <1>4, <1>5, <1>6, <1>7 DEF Handing

(* A step that moves a task and writes none of the tables but skipped. *)
LEMMA StepReads ==
  ASSUME IInv, NEW w, NEW t, Moves(w, t), UNCHANGED <<n8n, cursor, stored, usage, scanned>>, skipped' \subseteq Execs
  PROVE  IInv'
<1>1. Handing' /\ task' \in [Tasks -> TaskRecords]
  BY HandingMoves
<1>2. Tables'
  BY FitsOfTypes DEF IInv, Tables
<1>3. TypeOK'
  BY <1>1, <1>2, TypesOfFits DEF Tables, TypeOK, TaskRecords
<1>4. InOrder' /\ CountedOnce'
  BY DEF IInv, InOrder, CountedOnce
<1>5. CursorCovers'
  BY DEF IInv, CursorCovers, Moves, Grows
<1> QED BY <1>1, <1>3, <1>4, <1>5 DEF IInv

LEMMA FitsNow ==
  ASSUME IInv, NEW w \in Tasks
  PROVE  Fit(task[w], n8n, stored, skipped, usage) /\ task[w] \in TaskRecords
BY DEF IInv, Handing, FitNow, Fit

LEMMA IdleFits ==
  ASSUME IInv, NEW n, NEW s, NEW k, NEW u
  PROVE  Fit(Idle, n, s, k, u)
BY BoundsAssumption DEF Fit, Idle, Cycle, Task, TaskRecords, Execs

-----------------------------------------------------------------------------
(* The steps that write no table. *)

LEMMA StepEnds ==
  ASSUME IInv, NEW w \in Tasks, Ends(w), UNCHANGED <<n8n, cursor, stored, usage, scanned, skipped>>
  PROVE  IInv'
<1>1. Moves(w, Idle)
  <2>1. Fit(Idle, n8n', stored', skipped', usage')
    BY IdleFits
  <2>2. \A v \in Tasks \ {w} : Apart(Idle, task[v]) /\ Apart(task[v], Idle)
    BY DEF Apart, Idle, Cycle, Task
  <2>3. \A v \in Workers \ {w} : Idle.todo \cap task[v].todo = {}
    BY DEF Idle, Cycle, Task
  <2> QED BY <2>1, <2>2, <2>3 DEF Moves, Ends, Grows
<1>2. skipped' \subseteq Execs
  BY DEF IInv, TypeOK
<1> QED BY <1>1, <1>2, StepReads

LEMMA StepStart ==
  ASSUME IInv, NEW w \in Workers, Start(w)
  PROVE  IInv'
<1> DEFINE t == Cycle("list", cursor, {}, {})
<1>0. cursor \in 0 .. MaxId
  BY DEF IInv, TypeOK
<1>1. t = [pc |-> "list", seen |-> cursor, listed |-> {}, rows |-> {}, todo |-> {}, at |-> 0, gone |-> 0]
  BY DEF Cycle, Task
<1> HIDE DEF t
<1>2. t \in TaskRecords
  BY <1>0, <1>1, BoundsAssumption DEF TaskRecords
<1>3. Fit(t, n8n, stored, skipped, usage)
  BY <1>0, <1>1, <1>2 DEF Fit, IInv, CursorCovers
<1>4. Moves(w, t)
  <2>1. \A v \in Tasks \ {w} : Apart(t, task[v]) /\ Apart(task[v], t)
    BY <1>1 DEF Apart
  <2>2. task' = [task EXCEPT ![w] = t] /\ UNCHANGED <<n8n, cursor, stored, usage, scanned, skipped>>
    BY DEF Start, t
  <2> QED BY <1>1, <1>3, <2>1, <2>2 DEF Moves, Grows, Tasks
<1> QED BY <1>4, StepReads DEF Start, IInv, TypeOK

LEMMA StepList ==
  ASSUME IInv, NEW w \in Workers, ListExecutions(w)
  PROVE  IInv'
<1> DEFINE r == task[w]
           page == NewSummaries(r.seen)
           past == IF r.seen = 0 THEN Existing \ page ELSE {}
<1>0. w \in Tasks /\ r \in TaskRecords /\ Fit(r, n8n, stored, skipped, usage)
  BY FitsNow DEF Tasks
<1>1. PICK readable \in SUBSET page :
        /\ task' = [task EXCEPT ![w] = Cycle("fetch", r.seen, readable, {})]
        /\ skipped' = skipped \cup (page \ readable) \cup past
  BY DEF ListExecutions
<1> DEFINE t == Cycle("fetch", r.seen, readable, {})
<1>2. r.pc = "list" /\ r.listed = {} /\ r.rows = {} /\ r.seen \in 0 .. MaxId /\ r.todo \subseteq stored
  BY <1>0 DEF ListExecutions, Fit, TaskRecords
<1>3. page \subseteq Existing /\ Existing \subseteq Execs
  BY DEF NewSummaries, NewestPage, Existing
<1>4. t = [pc |-> "fetch", seen |-> r.seen, listed |-> readable, rows |-> {}, todo |-> {}, at |-> 0, gone |-> 0]
  BY DEF Cycle, Task
<1>5. t \in TaskRecords
  <2>1. readable \subseteq Execs
    BY <1>3
  <2> HIDE DEF t, r, page
  <2> QED BY <1>2, <1>4, <2>1, BoundsAssumption DEF TaskRecords
<1>6. \A e \in Existing : e \in stored \cup skipped' \cup readable
  <2> TAKE e \in Existing
  <2>1. CASE r.seen = 0
    BY <2>1, <1>1
  <2>2. CASE r.seen # 0 /\ e > r.seen
    <3>1. e \in page
      BY <2>2, <1>3 DEF NewSummaries
    <3> QED BY <3>1, <1>1
  <2>3. CASE r.seen # 0 /\ ~(e > r.seen)
    <3>1. e \in Execs /\ e <= r.seen
      BY <2>3, <1>2, <1>3, BoundsAssumption DEF Execs
    <3>2. e \in stored \cup skipped
      BY <3>1, <1>0, <1>2 DEF Fit
    <3> QED BY <3>2, <1>1
  <2> QED BY <2>1, <2>2, <2>3
<1>7. \A e \in Execs : \A f \in readable \cup {r.seen} : e <= f => e \in stored \cup skipped' \cup readable
  <2> SUFFICES ASSUME NEW e \in Execs, NEW f \in readable \cup {r.seen}, e <= f
               PROVE  e \in stored \cup skipped' \cup readable
    OBVIOUS
  <2>1. CASE f = r.seen
    <3>1. e \in stored \cup skipped
      BY <2>1, <1>0, <1>2 DEF Fit
    <3> QED BY <3>1, <1>1
  <2>2. CASE f \in readable
    <3>1. f \in Existing
      BY <2>2, <1>3
    <3>2. e \in Existing
      BY <3>1, BoundsAssumption DEF IInv, InOrder, Existing, Execs
    <3> QED BY <3>2, <1>6
  <2> QED BY <2>1, <2>2
<1>8. UNCHANGED <<n8n, cursor, stored, usage, scanned>>
  BY DEF ListExecutions
<1>9. Fit(t, n8n', stored', skipped', usage')
  <2>1. \A e \in readable : n8n'[e] # "none"
    BY <1>3, <1>8 DEF Existing
  <2>2. stored' = stored /\ usage' = usage
    BY <1>8
  <2> HIDE DEF t, r, page
  <2> QED BY <1>2, <1>4, <1>5, <1>7, <2>1, <2>2 DEF Fit
<1>10. Moves(w, t)
  <2>1. \A v \in Tasks \ {w} : Apart(t, task[v]) /\ Apart(task[v], t)
    BY <1>4 DEF Apart
  <2>2. \A v \in Workers \ {w} : t.todo \cap task[v].todo = {}
    BY <1>4
  <2>3. task' = [task EXCEPT ![w] = t] /\ skipped \subseteq skipped'
    BY <1>1
  <2> HIDE DEF t
  <2> QED BY <1>0, <1>8, <1>9, <2>1, <2>2, <2>3 DEF Moves, Grows
<1>11. skipped' \subseteq Execs
  BY <1>1, <1>3 DEF IInv, TypeOK
<1> QED BY <1>8, <1>10, <1>11, StepReads

LEMMA StepFetch ==
  ASSUME IInv, NEW w \in Workers, FetchRows(w)
  PROVE  IInv'
<1> DEFINE r == task[w]
<1>0. w \in Tasks /\ r \in TaskRecords /\ Fit(r, n8n, stored, skipped, usage)
  BY FitsNow DEF Tasks
<1>1. PICK rows \in SUBSET Storable(r.listed), top \in 0 .. MaxId :
        /\ IsHighest(top, r.listed \cup {r.seen})
        /\ task' = [task EXCEPT ![w] = Cycle("insert", top, {}, rows)]
        /\ skipped' = skipped \cup (r.listed \ rows)
  BY DEF FetchRows
<1> DEFINE t == Cycle("insert", top, {}, rows)
<1>2. r.pc = "fetch" /\ r.rows = {} /\ r.listed \subseteq Execs
  BY <1>0 DEF FetchRows, Fit, TaskRecords
<1>3. t = [pc |-> "insert", seen |-> top, listed |-> {}, rows |-> rows, todo |-> {}, at |-> 0, gone |-> 0]
  BY DEF Cycle, Task
<1>4. rows \subseteq r.listed /\ \A e \in rows : n8n[e] = "started"
  BY DEF Storable
<1>5. t \in TaskRecords
  BY <1>2, <1>3, <1>4, BoundsAssumption DEF TaskRecords
<1>6. UNCHANGED <<n8n, cursor, stored, usage, scanned>>
  BY DEF FetchRows
<1>7. \A e \in Execs : e <= top => e \in stored \cup skipped' \cup rows
  <2> SUFFICES ASSUME NEW e \in Execs, e <= top PROVE e \in stored \cup skipped' \cup rows
    OBVIOUS
  <2>1. top \in r.listed \cup {r.seen}
    BY <1>1 DEF IsHighest
  <2>2. e \in stored \cup skipped \cup r.listed
    BY <1>0, <1>2, <2>1 DEF Fit
  <2> QED BY <2>2, <1>1
<1>8. Fit(t, n8n', stored', skipped', usage')
  <2> HIDE DEF t, r
  <2> QED BY <1>3, <1>4, <1>5, <1>6, <1>7 DEF Fit
<1>9. Moves(w, t)
  <2>1. \A v \in Tasks \ {w} : Apart(t, task[v]) /\ Apart(task[v], t)
    BY <1>3 DEF Apart
  <2>2. \A v \in Workers \ {w} : t.todo \cap task[v].todo = {}
    BY <1>3
  <2>3. task' = [task EXCEPT ![w] = t] /\ skipped \subseteq skipped'
    BY <1>1
  <2> HIDE DEF t
  <2> QED BY <1>0, <1>6, <1>8, <2>1, <2>2, <2>3 DEF Moves, Grows
<1>10. skipped' \subseteq Execs
  BY <1>1, <1>2 DEF IInv, TypeOK
<1> QED BY <1>6, <1>9, <1>10, StepReads

-----------------------------------------------------------------------------
(* The steps that write a table. *)

LEMMA StepUpsert ==
  ASSUME IInv, NEW w \in Workers, UpsertMany(w)
  PROVE  IInv'
<1> DEFINE r == task[w]
           t == Task("record", r.seen, {}, {}, Inserted(r.rows), 0, 0)
<1>0. w \in Tasks /\ r \in TaskRecords /\ Fit(r, n8n, stored, skipped, usage)
  BY FitsNow DEF Tasks
<1>1. t = [pc |-> "record", seen |-> r.seen, listed |-> {}, rows |-> {}, todo |-> r.rows \ stored, at |-> 0, gone |-> 0]
  BY DEF Task, Inserted
<1>2. /\ r.pc = "insert" /\ r.listed = {} /\ r.rows \subseteq Execs /\ r.seen \in 0 .. MaxId
      /\ \A e \in r.rows : n8n[e] = "started"
  BY <1>0 DEF UpsertMany, Fit, TaskRecords
<1>3. /\ stored' = stored \cup r.rows /\ task' = [task EXCEPT ![w] = t]
      /\ UNCHANGED <<n8n, cursor, usage, scanned, skipped>>
  BY DEF UpsertMany
<1>4. t \in TaskRecords
  <2> HIDE DEF t, r
  <2> QED BY <1>1, <1>2, BoundsAssumption DEF TaskRecords
<1>5. Fit(t, n8n', stored', skipped', usage')
  <2>1. \A e \in Execs : e <= r.seen => e \in stored' \cup skipped'
    BY <1>0, <1>2, <1>3 DEF Fit
  <2> HIDE DEF t, r
  <2> QED BY <1>1, <1>3, <1>4, <2>1 DEF Fit
<1>6. Moves(w, t)
  <2>1. \A v \in Tasks \ {w} : Apart(t, task[v]) /\ Apart(task[v], t)
    BY <1>1 DEF Apart
  <2>2. \A v \in Workers \ {w} : t.todo \cap task[v].todo = {}
    <3> SUFFICES ASSUME NEW v \in Workers \ {w} PROVE t.todo \cap task[v].todo = {}
      OBVIOUS
    <3>1. task[v].todo \subseteq stored
      BY FitsNow DEF Fit, Tasks
    <3> QED BY <1>1, <3>1
  <2> HIDE DEF t
  <2> QED BY <1>0, <1>3, <1>5, <2>1, <2>2 DEF Moves, Grows
<1>7. Handing' /\ task' \in [Tasks -> TaskRecords]
  BY <1>6, HandingMoves
<1>8. Tables'
  <2>1. Tables
    BY FitsOfTypes DEF IInv
  <2> HIDE DEF r
  <2> QED BY <1>2, <1>3, <2>1 DEF Tables
<1>9. InOrder' /\ CountedOnce' /\ CursorCovers'
  BY <1>3 DEF IInv, InOrder, CountedOnce, CursorCovers
<1>10. TypeOK'
  BY <1>7, <1>8 DEF Tables, TypeOK, TaskRecords
<1> QED BY <1>7, <1>9, <1>10 DEF IInv

LEMMA StepRecord ==
  ASSUME IInv, NEW w \in Workers, RecordSuccessfulPoll(w)
  PROVE  IInv'
<1> DEFINE r == task[w]
           t == Deriving(r.todo)
<1>0. w \in Tasks /\ r \in TaskRecords /\ Fit(r, n8n, stored, skipped, usage)
  BY FitsNow DEF Tasks
<1>1. t = [pc |-> "derive", seen |-> 0, listed |-> {}, rows |-> {}, todo |-> r.todo, at |-> 0, gone |-> 0]
  BY DEF Deriving, Task
<1>2. r.pc = "record" /\ r.listed = {} /\ r.rows = {} /\ r.seen \in 0 .. MaxId /\ r.todo \subseteq stored
  BY <1>0 DEF RecordSuccessfulPoll, Fit, TaskRecords
<1>3. cursor' = r.seen /\ task' = [task EXCEPT ![w] = t] /\ UNCHANGED <<n8n, stored, usage, scanned, skipped>>
  BY DEF RecordSuccessfulPoll
<1>4. t \in TaskRecords /\ \A e \in Execs : ~(e <= 0)
  <2>1. r.todo \subseteq Execs
    BY <1>0 DEF TaskRecords
  <2> HIDE DEF t, r
  <2> QED BY <1>1, <2>1, BoundsAssumption DEF TaskRecords, Execs
<1>5. Fit(t, n8n', stored', skipped', usage')
  <2> HIDE DEF t, r
  <2> QED BY <1>1, <1>2, <1>3, <1>4 DEF Fit
<1>6. Moves(w, t)
  <2>1. \A v \in Tasks \ {w} : Apart(t, task[v]) /\ Apart(task[v], t)
    BY <1>1 DEF Apart
  <2>2. \A v \in Workers \ {w} : t.todo \cap task[v].todo = {}
    BY <1>1 DEF IInv, Handing, HandedToOne
  <2> HIDE DEF t
  <2> QED BY <1>0, <1>3, <1>5, <2>1, <2>2 DEF Moves, Grows
<1>7. Handing' /\ task' \in [Tasks -> TaskRecords]
  BY <1>6, HandingMoves
<1>8. CursorCovers'
  BY <1>0, <1>2, <1>3 DEF Fit, CursorCovers
<1>9. InOrder' /\ CountedOnce'
  BY <1>3 DEF IInv, InOrder, CountedOnce
<1>10. TypeOK'
  BY <1>2, <1>3, <1>7 DEF IInv, TypeOK, TaskRecords
<1> QED BY <1>7, <1>8, <1>9, <1>10 DEF IInv

LEMMA StepReplace ==
  ASSUME IInv, NEW w \in Tasks, ReplaceUsage(w)
  PROVE  IInv'
<1> DEFINE r == task[w]
<1>0. r \in TaskRecords /\ Fit(r, n8n, stored, skipped, usage)
  BY FitsNow
<1>1. PICK e \in r.todo : ScanFree(e) /\ task' = [task EXCEPT ![w] = Task("count", 0, {}, {}, r.todo, e, usage[e])]
  BY DEF ReplaceUsage
<1> DEFINE t == Task("count", 0, {}, {}, r.todo, e, usage[e])
<1>2. t = [pc |-> "count", seen |-> 0, listed |-> {}, rows |-> {}, todo |-> r.todo, at |-> e, gone |-> usage[e]]
  BY DEF Task
<1>3. UNCHANGED <<n8n, cursor, stored, usage, scanned, skipped>>
  BY DEF ReplaceUsage
<1>4. e \in Execs /\ usage[e] \in Nat /\ r.todo \subseteq Execs /\ r.todo \subseteq stored
  BY <1>0 DEF IInv, TypeOK, Fit, TaskRecords
<1>5. t \in TaskRecords /\ \A f \in Execs : ~(f <= 0)
  <2> HIDE DEF t, r
  <2> QED BY <1>2, <1>4, BoundsAssumption DEF TaskRecords, Execs
<1>6. Fit(t, n8n', stored', skipped', usage')
  <2>1. e \in r.todo
    OBVIOUS
  <2> HIDE DEF t, r
  <2> QED BY <1>2, <1>3, <1>4, <1>5, <2>1 DEF Fit
<1>7. Moves(w, t)
  <2>1. \A v \in Tasks \ {w} : Apart(t, task[v]) /\ Apart(task[v], t)
    BY <1>1, <1>2 DEF Apart, ScanFree, Scanning
  <2>2. \A v \in Workers \ {w} : w \in Workers => t.todo \cap task[v].todo = {}
    BY <1>2 DEF IInv, Handing, HandedToOne
  <2>3. task' = [task EXCEPT ![w] = t]
    BY <1>1
  <2> HIDE DEF t
  <2> QED BY <1>3, <1>6, <2>1, <2>2, <2>3 DEF Moves, Grows
<1>8. skipped' \subseteq Execs
  BY <1>3 DEF IInv, TypeOK
<1> QED BY <1>3, <1>7, <1>8, StepReads

(* The task goes on with the rest of what it was handed. *)
Rest(w) == Deriving(task[w].todo \ {task[w].at})

LEMMA RestFits ==
  ASSUME IInv, NEW w \in Tasks, NEW n, NEW k, NEW u
  PROVE  Fit(Rest(w), n, stored, k, u)
<1> DEFINE r == task[w]
<1>1. r \in TaskRecords /\ r.todo \subseteq stored
  BY FitsNow DEF Fit
<1>2. Rest(w) = [pc |-> "derive", seen |-> 0, listed |-> {}, rows |-> {}, todo |-> r.todo \ {r.at}, at |-> 0, gone |-> 0]
  BY DEF Rest, Deriving, Task
<1>3. r.todo \subseteq Execs /\ \A f \in Execs : ~(f <= 0)
  BY <1>1, BoundsAssumption DEF TaskRecords, Execs
<1> HIDE DEF r
<1> QED BY <1>1, <1>2, <1>3, BoundsAssumption DEF Fit, TaskRecords

LEMMA GoesOnMoves ==
  ASSUME IInv, NEW w \in Tasks, NextOf(w), UNCHANGED <<n8n, stored, skipped>>,
         \A v \in Tasks \ {w} : task[v].pc = "count" => usage'[task[v].at] = usage[task[v].at]
  PROVE  \E t : Moves(w, t)
<1>1. CASE task[w].todo \subseteq {task[w].at}
  <2>1. task' = [task EXCEPT ![w] = Idle]
    BY <1>1 DEF NextOf, Ends
  <2>2. Fit(Idle, n8n', stored', skipped', usage')
    BY IdleFits
  <2>3. \A v \in Tasks \ {w} : Apart(Idle, task[v]) /\ Apart(task[v], Idle)
    BY DEF Apart, Idle, Cycle, Task
  <2>4. \A v \in Workers \ {w} : Idle.todo \cap task[v].todo = {}
    BY DEF Idle, Cycle, Task
  <2>5. Moves(w, Idle)
    BY <2>1, <2>2, <2>3, <2>4 DEF Moves, Grows
  <2> QED BY <2>5
<1>2. CASE ~(task[w].todo \subseteq {task[w].at})
  <2>1. task' = [task EXCEPT ![w] = Rest(w)]
    BY <1>2 DEF NextOf, Rest
  <2>2. Fit(Rest(w), n8n', stored', skipped', usage')
    BY RestFits
  <2>3. \A v \in Tasks \ {w} : Apart(Rest(w), task[v]) /\ Apart(task[v], Rest(w))
    BY DEF Apart, Rest, Deriving, Task
  <2>4. \A v \in Workers \ {w} : w \in Workers => Rest(w).todo \cap task[v].todo = {}
    <3>1. Rest(w).todo \subseteq task[w].todo
      BY DEF Rest, Deriving, Task
    <3> QED BY <3>1 DEF IInv, Handing, HandedToOne
  <2>5. Moves(w, Rest(w))
    BY <2>1, <2>2, <2>3, <2>4 DEF Moves, Grows
  <2> QED BY <2>5
<1> QED BY <1>1, <1>2

LEMMA StepInsert ==
  ASSUME IInv, NEW w \in Tasks, InsertUsage(w)
  PROVE  IInv'
<1> DEFINE r == task[w]
           e == r.at
<1>0. r \in TaskRecords /\ Fit(r, n8n, stored, skipped, usage)
  BY FitsNow
<1>1. r.pc = "count" /\ e \in stored /\ r.gone = usage[e] /\ e \in Execs
  BY <1>0 DEF InsertUsage, Fit, TaskRecords
<1>2. /\ usage' = [usage EXCEPT ![e] = (usage[e] - r.gone) + 1] /\ scanned' = scanned \cup {e}
      /\ NextOf(w) /\ UNCHANGED <<n8n, cursor, stored, skipped>>
  <2>1. usage \in [Execs -> Nat]
    BY DEF IInv, TypeOK
  <2> QED BY <1>1, <2>1 DEF InsertUsage
<1>3. usage' = [usage EXCEPT ![e] = 1]
  <2>1. usage[e] \in Nat
    BY <1>1 DEF IInv, TypeOK
  <2>2. (usage[e] - r.gone) + 1 = 1
    BY <1>1, <2>1
  <2> QED BY <1>2, <2>2
<1> HIDE DEF r, e
<1>4. \A v \in Tasks \ {w} : task[v].pc = "count" => usage'[task[v].at] = usage[task[v].at]
  <2> SUFFICES ASSUME NEW v \in Tasks \ {w}, task[v].pc = "count"
               PROVE  usage'[task[v].at] = usage[task[v].at]
    OBVIOUS
  <2>1. task[v].at # e
    BY <1>1 DEF IInv, Handing, Apart, r, e
  <2>2. task[v].at \in Execs
    BY FitsNow DEF Fit, TaskRecords
  <2> QED BY <1>3, <2>1, <2>2 DEF IInv, TypeOK
<1>5. PICK t : Moves(w, t)
  BY <1>2, <1>4, GoesOnMoves
<1>6. Handing' /\ task' \in [Tasks -> TaskRecords]
  BY <1>5, HandingMoves
<1>7. CountedOnce'
  BY <1>1, <1>2, <1>3 DEF IInv, TypeOK, CountedOnce
<1>8. InOrder' /\ CursorCovers'
  BY <1>2 DEF IInv, InOrder, CursorCovers
<1>9. TypeOK'
  <2>1. usage' \in [Execs -> Nat] /\ scanned' \subseteq stored
    BY <1>1, <1>2, <1>3 DEF IInv, TypeOK
  <2> QED BY <1>2, <1>6, <2>1 DEF IInv, TypeOK, TaskRecords
<1> QED BY <1>6, <1>7, <1>8, <1>9 DEF IInv

LEMMA StepDeriveFails ==
  ASSUME IInv, NEW w \in Tasks, DeriveFails(w)
  PROVE  IInv'
<1>1. UNCHANGED <<n8n, cursor, stored, usage, scanned, skipped>> /\ NextOf(w)
  BY DEF DeriveFails
<1>2. PICK t : Moves(w, t)
  BY <1>1, GoesOnMoves
<1>3. skipped' \subseteq Execs
  BY <1>1 DEF IInv, TypeOK
<1> QED BY <1>1, <1>2, <1>3, StepReads

LEMMA StepBackfill ==
  ASSUME IInv, NEW e \in Execs, BackfillOne(e)
  PROVE  IInv'
<1> DEFINE t == Deriving({e})
<1>1. t = [pc |-> "derive", seen |-> 0, listed |-> {}, rows |-> {}, todo |-> {e}, at |-> 0, gone |-> 0]
  BY DEF Deriving, Task
<1>2. /\ e \in stored /\ task' = [task EXCEPT ![Backfill] = t]
      /\ UNCHANGED <<n8n, cursor, stored, usage, scanned, skipped>>
  BY DEF BackfillOne
<1>3. \A f \in Execs : ~(f <= 0)
  BY BoundsAssumption DEF Execs
<1> HIDE DEF t
<1>4. t \in TaskRecords
  BY <1>1, BoundsAssumption DEF TaskRecords
<1>5. Fit(t, n8n', stored', skipped', usage')
  BY <1>1, <1>2, <1>3, <1>4 DEF Fit
<1>6. Moves(Backfill, t)
  <2>1. \A v \in Tasks \ {Backfill} : Apart(t, task[v]) /\ Apart(task[v], t)
    BY <1>1 DEF Apart
  <2> QED BY <1>2, <1>5, <2>1, TasksAssumption DEF Moves, Grows, Tasks
<1>7. skipped' \subseteq Execs
  BY <1>2 DEF IInv, TypeOK
<1> QED BY <1>2, <1>6, <1>7, StepReads

(* n8n creates and starts executions; no task moves. *)
LEMMA StepN8n ==
  ASSUME IInv, NEW e \in Execs, Create(e) \/ Begins(e)
  PROVE  IInv'
<1>1. PICK s \in {"waiting", "started"} :
        /\ n8n' = [n8n EXCEPT ![e] = s]
        /\ n8n[e] = "started" => s = "started"
        /\ n8n[e] = "none" => \A f \in Execs : f < e => n8n[f] # "none"
        /\ UNCHANGED <<cursor, stored, usage, scanned, task, skipped>>
  <2>1. CASE Create(e)
    BY <2>1 DEF Create
  <2>2. CASE Begins(e)
    BY <2>2 DEF Begins
  <2> QED BY <2>1, <2>2
<1>2. n8n \in [Execs -> {"none", "waiting", "started"}]
  BY DEF IInv, TypeOK
<1>3. /\ n8n' \in [Execs -> {"none", "waiting", "started"}]
      /\ \A f \in Execs : n8n[f] # "none" => n8n'[f] # "none"
      /\ \A f \in Execs : n8n[f] = "started" => n8n'[f] = "started"
  BY <1>1, <1>2
<1>4. TypeOK'
  BY <1>1, <1>3 DEF IInv, TypeOK
<1>5. InOrder'
  <2> SUFFICES ASSUME NEW f \in Execs, NEW g \in Execs, g < f, n8n'[f] # "none"
               PROVE  n8n'[g] # "none"
    BY DEF InOrder
  <2>1. CASE n8n[f] # "none"
    BY <2>1, <1>3 DEF IInv, InOrder
  <2>2. CASE n8n[f] = "none"
    <3>1. f = e
      BY <2>2, <1>1, <1>2
    <3> QED BY <2>2, <3>1, <1>1, <1>3
  <2> QED BY <2>1, <2>2
<1>6. Handing'
  <2>1. \A w \in Tasks : Fit(task[w], n8n', stored, skipped, usage)
    BY <1>3, FitsNow, FitStays
  <2>2. (\A w \in Tasks : FitNow(w))'
    BY <2>1, <1>1 DEF FitNow
  <2>3. (\A v, w \in Tasks : v # w => Apart(task[v], task[w]))' /\ HandedToOne'
    BY <1>1 DEF IInv, Handing, Apart, HandedToOne
  <2> QED BY <2>2, <2>3 DEF Handing
<1>7. CursorCovers' /\ CountedOnce'
  BY <1>1 DEF IInv, CursorCovers, CountedOnce
<1> QED BY <1>4, <1>5, <1>6, <1>7 DEF IInv

-----------------------------------------------------------------------------
(* The theorems. *)

LEMMA InitHolds == Init => IInv
<1> SUFFICES ASSUME Init PROVE IInv
  OBVIOUS
<1>1. Idle = [pc |-> "idle", seen |-> 0, listed |-> {}, rows |-> {}, todo |-> {}, at |-> 0, gone |-> 0]
  BY DEF Idle, Cycle, Task
<1>2. Idle \in TaskRecords /\ \A f \in Execs : ~(f <= 0)
  BY <1>1, BoundsAssumption DEF TaskRecords, Execs
<1>3. \A w \in Tasks : task[w] = Idle
  BY DEF Init
<1>4. Handing
  <2>1. \A w \in Tasks : FitNow(w)
    BY <1>1, <1>2, <1>3 DEF FitNow, Fit
  <2>2. \A v, w \in Tasks : v # w => Apart(task[v], task[w])
    BY <1>1, <1>3 DEF Apart
  <2>3. HandedToOne
    BY <1>1, <1>3 DEF HandedToOne, Tasks
  <2> QED BY <2>1, <2>2, <2>3 DEF Handing
<1>5. Tables /\ task \in [Tasks -> TaskRecords]
  BY <1>2, BoundsAssumption DEF Init, Tables
<1>6. InOrder /\ CursorCovers /\ CountedOnce
  BY <1>2 DEF Init, InOrder, CursorCovers, CountedOnce
<1> QED BY <1>4, <1>5, <1>6, TypesOfFits DEF IInv

LEMMA NextKeeps == IInv /\ [Next]_vars => IInv'
<1> SUFFICES ASSUME IInv, [Next]_vars PROVE IInv'
  OBVIOUS
<1>1. CASE UNCHANGED vars
  BY <1>1 DEF vars, IInv, TypeOK, Handing, FitNow, Fit, Apart, HandedToOne, InOrder, CursorCovers, CountedOnce
<1>2. ASSUME NEW e \in Execs, Create(e) \/ Begins(e) \/ BackfillOne(e) PROVE IInv'
  BY <1>2, StepN8n, StepBackfill
<1>3. ASSUME NEW w \in Workers,
             Start(w) \/ ListExecutions(w) \/ ListFails(w) \/ FetchRows(w) \/ Persist(w) \/ RecordSuccessfulPoll(w)
      PROVE  IInv'
  <2>1. CASE ListFails(w) \/ UpsertThrows(w)
    BY <2>1, StepEnds DEF ListFails, UpsertThrows, Tasks
  <2> QED BY <1>3, <2>1, StepStart, StepList, StepFetch, StepUpsert, StepRecord DEF Persist
<1>4. ASSUME NEW w \in Tasks, Derive(w) \/ DeriveFails(w) \/ Dies(w) PROVE IInv'
  <2>1. CASE NothingNew(w) \/ Dies(w)
    BY <2>1, StepEnds DEF NothingNew, Dies
  <2> QED BY <1>4, <2>1, StepReplace, StepInsert, StepDeriveFails DEF Derive
<1> QED BY <1>1, <1>2, <1>3, <1>4 DEF Next

THEOREM Invariance == Spec => []IInv
BY InitHolds, NextKeeps, PTL DEF Spec

(* The types of the tables and of the tasks. *)
THEOREM TypesHold == Spec => []TypeOK
BY Invariance, PTL DEF IInv

(* No cursor of a connection runs over an execution that a cycle could have stored, *)
(* however many processes poll it, and in whatever order they write the cursor.      *)
THEOREM CursorNeverRunsOver == Spec => []CursorCovers
BY Invariance, PTL DEF IInv

(* Of the cycles that list an execution one alone derives from it. *)
THEOREM RowsAreHandedToOne == Spec => []HandedToOne
BY Invariance, PTL DEF IInv, Handing

(* The tokens of an execution are counted once, whoever derives them and how often. *)
THEOREM TokensAreCountedOnce == Spec => []CountedOnce
BY Invariance, PTL DEF IInv

-----------------------------------------------------------------------------
(* Liveness. ENABLED is beyond the provers: StepsAreEnabled stays a            *)
(* hypothesis, which TLC checks. The scan of an execution is free again and    *)
(* again, so the process that stays derives what it was handed and comes to    *)
(* its next cycle; once no execution is created any more, what that one reads  *)
(* is a backlog that fits, and nothing in it is left behind.                   *)

FairTo(w) == WF_vars(InsertUsage(w) \/ DeriveFails(w))
FairToAll == \A w \in Tasks : FairTo(w)
IdleOk == \A w \in Tasks : task[w].pc = "idle" => task[w] = Idle
Running == /\ [][Next]_vars /\ []IInv /\ []IdleOk /\ []StepsAreEnabled
           /\ WF_vars(Start(Survivor)) /\ SF_vars(ListExecutions(Survivor)) /\ SF_vars(Continue(Survivor))
           /\ FairToAll

LEMMA RunningStays == Running => []Running
<1>1. ASSUME NEW w \in Tasks PROVE FairTo(w) => []FairTo(w)
  BY PTL DEF FairTo
<1>2. FairToAll => \A w \in Tasks : []FairTo(w)
  BY <1>1 DEF FairToAll
<1>3. (\A w \in Tasks : []FairTo(w)) => [](\A w \in Tasks : FairTo(w))
  OBVIOUS
<1>4. FairToAll => []FairToAll
  BY <1>2, <1>3 DEF FairToAll
<1> QED BY <1>4, PTL DEF Running

LEMMA FairToEach == ASSUME NEW w \in Tasks PROVE Running => FairTo(w)
<1>1. FairToAll => FairTo(w)
  BY DEF FairToAll
<1> QED BY <1>1, PTL DEF Running

-----------------------------------------------------------------------------
(* Where a task goes. *)

LEMMA Steps ==
  ASSUME IInv, [Next]_vars, NEW w \in Tasks
  PROVE  \/ task'[w] = task[w]
         \/ w \in Workers /\ (Start(w) \/ ListExecutions(w) \/ FetchRows(w) \/ UpsertMany(w) \/ RecordSuccessfulPoll(w))
         \/ Ends(w) /\ ((Dies(w) /\ w # Survivor) \/ ListFails(w) \/ UpsertThrows(w) \/ NothingNew(w))
         \/ ReplaceUsage(w) \/ InsertUsage(w) \/ DeriveFails(w)
         \/ w = Backfill /\ \E e \in Execs : BackfillOne(e)
<1>1. task \in [Tasks -> TaskRecords]
  BY FitsOfTypes DEF IInv
<1>2. (\E e \in Execs : Create(e) \/ Begins(e)) \/ UNCHANGED vars => UNCHANGED task
  BY DEF Create, Begins, vars
<1>3. ASSUME NEW v \in Tasks, v # w,
             \/ Start(v) \/ ListExecutions(v) \/ ListFails(v) \/ FetchRows(v) \/ Persist(v) \/ RecordSuccessfulPoll(v)
             \/ Derive(v) \/ DeriveFails(v) \/ Dies(v)
      PROVE  task'[w] = task[w]
  <2>1. (\E t : task' = [task EXCEPT ![v] = t]) => task'[w] = task[w]
    BY <1>1, <1>3
  <2>2. CASE Start(v) \/ ListExecutions(v) \/ ListFails(v) \/ FetchRows(v)
    BY <2>1, <2>2 DEF Start, ListExecutions, ListFails, FetchRows, Ends
  <2>3. CASE Persist(v) \/ RecordSuccessfulPoll(v)
    BY <2>1, <2>3 DEF Persist, UpsertMany, UpsertThrows, RecordSuccessfulPoll, Ends
  <2>4. CASE Derive(v) \/ DeriveFails(v) \/ Dies(v)
    BY <2>1, <2>4 DEF Derive, NothingNew, ReplaceUsage, InsertUsage, DeriveFails, Dies, NextOf, Ends
  <2> QED BY <1>3, <2>2, <2>3, <2>4
<1>4. ASSUME NEW e \in Execs, BackfillOne(e) PROVE w = Backfill \/ task'[w] = task[w]
  BY <1>1, <1>4 DEF BackfillOne
<1>5. (Dies(w) => w # Survivor /\ Ends(w)) /\ (ListFails(w) \/ UpsertThrows(w) \/ NothingNew(w) => Ends(w))
  BY DEF Dies, ListFails, UpsertThrows, NothingNew
<1>6. CASE \E e \in Execs : Create(e) \/ Begins(e) \/ BackfillOne(e)
  BY <1>2, <1>4, <1>6
<1>7. CASE \E v \in Workers : Start(v) \/ ListExecutions(v) \/ ListFails(v) \/ FetchRows(v)
                               \/ Persist(v) \/ RecordSuccessfulPoll(v)
  BY <1>3, <1>5, <1>7 DEF Persist, Tasks
<1>8. CASE \E v \in Tasks : Derive(v) \/ DeriveFails(v) \/ Dies(v)
  BY <1>3, <1>5, <1>8 DEF Derive
<1> QED BY <1>2, <1>6, <1>7, <1>8 DEF Next

LEMMA IdleIsIdle == Spec => []IdleOk
<1>1. Init => IdleOk
  BY DEF Init, IdleOk
<1>2. IInv /\ IdleOk /\ [Next]_vars => IdleOk'
  <2> SUFFICES ASSUME IInv, IdleOk, [Next]_vars, NEW w \in Tasks PROVE (task[w].pc = "idle" => task[w] = Idle)'
    BY DEF IdleOk
  <2>1. task \in [Tasks -> TaskRecords]
    BY FitsOfTypes DEF IInv
  <2>2. CASE task'[w] = task[w]
    BY <2>2 DEF IdleOk
  <2>3. CASE Ends(w)
    BY <2>1, <2>3 DEF Ends
  <2>4. CASE task'[w].pc # "idle"
    BY <2>4
  <2>5. CASE w \in Workers /\ (Start(w) \/ ListExecutions(w) \/ FetchRows(w) \/ UpsertMany(w) \/ RecordSuccessfulPoll(w))
    BY <2>1, <2>4, <2>5 DEF Start, ListExecutions, FetchRows, UpsertMany, RecordSuccessfulPoll, Cycle, Deriving, Task
  <2>6. CASE ReplaceUsage(w) \/ InsertUsage(w) \/ DeriveFails(w) \/ (\E e \in Execs : w = Backfill /\ BackfillOne(e))
    BY <2>1, <2>3, <2>4, <2>6 DEF ReplaceUsage, InsertUsage, DeriveFails, BackfillOne, NextOf, Deriving, Task
  <2> QED BY <2>2, <2>3, <2>5, <2>6, Steps
<1> QED BY <1>1, <1>2, Invariance, PTL DEF Spec

LEMMA Runs == FairSpec /\ []StepsAreEnabled => Running
<1>1. Fairness => WF_vars(Start(Survivor)) /\ SF_vars(ListExecutions(Survivor)) /\ SF_vars(Continue(Survivor)) /\ FairToAll
  BY PTL DEF Fairness, FairToAll, FairTo
<1> QED BY <1>1, Invariance, IdleIsIdle, PTL DEF FairSpec, Spec, Running

-----------------------------------------------------------------------------
(* The scan of an execution is free again and again. *)

LEMMA Goes ==
  ASSUME IInv, NEW w \in Tasks, NextOf(w)
  PROVE  task'[w].pc \in {"idle", "derive"}
BY FitsOfTypes DEF IInv, NextOf, Ends, Idle, Cycle, Deriving, Task

LEMMA ScanSteps ==
  ASSUME IInv, [Next]_vars, NEW e \in Execs, NEW w \in Tasks, Scanning(w, e)
  PROVE  /\ Scanning(w, e)' \/ ScanFree(e)'
         /\ InsertUsage(w) \/ DeriveFails(w) => ScanFree(e)'
<1>1. task \in [Tasks -> TaskRecords]
  BY FitsOfTypes DEF IInv
<1>2. ASSUME NEW v \in Tasks, Scanning(v, e)' PROVE v = w
  <2>1. Scanning(v, e) => v = w
    BY DEF Scanning, IInv, Handing, Apart
  <2>2. task'[v].pc = "count" /\ task'[v].at = e
    BY <1>2 DEF Scanning
  <2>3. CASE task'[v] = task[v]
    BY <2>1, <2>2, <2>3 DEF Scanning
  <2>4. CASE Ends(v)
    BY <1>1, <2>2, <2>4 DEF Ends, Idle, Cycle, Task
  <2>5. CASE v \in Workers /\ (Start(v) \/ ListExecutions(v) \/ FetchRows(v) \/ UpsertMany(v) \/ RecordSuccessfulPoll(v))
    BY <1>1, <2>2, <2>5 DEF Start, ListExecutions, FetchRows, UpsertMany, RecordSuccessfulPoll, Cycle, Deriving, Task
  <2>6. CASE ReplaceUsage(v)
    <3>1. PICK f : ScanFree(f) /\ task' = [task EXCEPT ![v] = Task("count", 0, {}, {}, task[v].todo, f, usage[f])]
      BY <2>6 DEF ReplaceUsage
    <3>2. f = e
      BY <1>1, <2>2, <3>1 DEF Task
    <3> QED BY <3>1, <3>2 DEF ScanFree
  <2>7. CASE InsertUsage(v) \/ DeriveFails(v)
    BY <2>2, <2>7, Goes DEF InsertUsage, DeriveFails
  <2>8. CASE \E f \in Execs : v = Backfill /\ BackfillOne(f)
    BY <1>1, <2>2, <2>8 DEF BackfillOne, Deriving, Task
  <2> QED BY <2>3, <2>4, <2>5, <2>6, <2>7, <2>8, Steps
<1>3. ~Scanning(w, e)' => ScanFree(e)'
  BY <1>2 DEF ScanFree
<1>4. InsertUsage(w) \/ DeriveFails(w) => task'[w].pc # "count"
  BY Goes DEF InsertUsage, DeriveFails
<1> QED BY <1>3, <1>4 DEF Scanning

LEMMA ScansEnd ==
  ASSUME NEW e \in Execs
  PROVE  Running => <>ScanFree(e)
<1>1. ASSUME NEW w \in Tasks PROVE Running /\ []~ScanFree(e) => ~Scanning(w, e)
  <2>1. IInv /\ [Next]_vars /\ Scanning(w, e) /\ ~ScanFree(e)'
          => Scanning(w, e)' /\ ~<<InsertUsage(w) \/ DeriveFails(w)>>_vars
    BY ScanSteps
  <2>2. StepsAreEnabled /\ Scanning(w, e) => ENABLED <<InsertUsage(w) \/ DeriveFails(w)>>_vars
    BY DEF StepsAreEnabled, Scanning
  <2> QED BY <2>1, <2>2, FairToEach, PTL DEF Running, FairTo
<1> DEFINE Held == Running /\ []~ScanFree(e)
<1>2. Held => \A w \in Tasks : ~Scanning(w, e)
  <2> HIDE DEF Held
  <2>1. ASSUME NEW w \in Tasks PROVE Held => ~Scanning(w, e)
    BY <1>1 DEF Held
  <2> QED BY <2>1
<1>3. (\A w \in Tasks : ~Scanning(w, e)) => ScanFree(e)
  BY DEF ScanFree
<1>4. Held => ScanFree(e)
  <2> HIDE DEF Held
  <2> QED BY <1>2, <1>3
<1> QED BY <1>4, PTL

-----------------------------------------------------------------------------
(* The process that stays comes to the end of its cycle. *)

At(pc) == task[Survivor].pc = pc
Todo == task[Survivor].todo

LEMMA Stays == Survivor \in Workers /\ Survivor \in Tasks /\ Survivor # Backfill
BY TasksAssumption DEF Tasks

LEMMA SurvivorSteps ==
  ASSUME IInv, [Next]_vars
  PROVE  /\ At("idle") => task'[Survivor] = task[Survivor] \/ Start(Survivor)
         /\ At("list") => task'[Survivor] = task[Survivor] \/ ListExecutions(Survivor) \/ At("idle")'
         /\ At("fetch") => task'[Survivor] = task[Survivor] \/ FetchRows(Survivor)
         /\ At("insert") => \/ task'[Survivor] = task[Survivor] \/ UpsertMany(Survivor)
                            \/ UpsertThrows(Survivor) /\ At("idle")'
         /\ At("record") => task'[Survivor] = task[Survivor] \/ RecordSuccessfulPoll(Survivor)
         /\ At("derive") => task'[Survivor] = task[Survivor] \/ At("idle")' \/ ReplaceUsage(Survivor)
         /\ At("count") => task'[Survivor] = task[Survivor] \/ InsertUsage(Survivor) \/ DeriveFails(Survivor)
<1>1. task \in [Tasks -> TaskRecords]
  BY FitsOfTypes DEF IInv
<1>2. Ends(Survivor) => At("idle")'
  BY <1>1, Stays DEF Ends, At, Idle, Cycle, Task
<1>3. \/ task'[Survivor] = task[Survivor]
      \/ Start(Survivor) \/ ListExecutions(Survivor) \/ FetchRows(Survivor) \/ UpsertMany(Survivor)
      \/ RecordSuccessfulPoll(Survivor)
      \/ At("idle")' /\ (ListFails(Survivor) \/ UpsertThrows(Survivor) \/ NothingNew(Survivor))
      \/ ReplaceUsage(Survivor) \/ InsertUsage(Survivor) \/ DeriveFails(Survivor)
  BY <1>2, Steps, Stays
<1>4. /\ Start(Survivor) => At("idle")
      /\ ListExecutions(Survivor) \/ ListFails(Survivor) => At("list")
      /\ FetchRows(Survivor) => At("fetch")
      /\ UpsertMany(Survivor) \/ UpsertThrows(Survivor) => At("insert")
      /\ RecordSuccessfulPoll(Survivor) => At("record")
      /\ ReplaceUsage(Survivor) \/ NothingNew(Survivor) => At("derive")
      /\ InsertUsage(Survivor) \/ DeriveFails(Survivor) => At("count")
  <2>1. Start(Survivor) => At("idle")
    BY DEF Start, At, Idle, Cycle, Task
  <2>2. ListExecutions(Survivor) \/ ListFails(Survivor) => At("list")
    BY DEF ListExecutions, ListFails, At
  <2>3. FetchRows(Survivor) => At("fetch")
    BY DEF FetchRows, At
  <2> QED BY <2>1, <2>2, <2>3 DEF UpsertMany, UpsertThrows, RecordSuccessfulPoll, ReplaceUsage, NothingNew,
                                  InsertUsage, DeriveFails, At
<1>5. \A p, q : At(p) /\ At(q) => p = q
  BY DEF At
<1> HIDE DEF At
<1>6. \A p \in {"idle", "list", "fetch", "insert", "record", "derive", "count"} :
        \A q \in {"idle", "list", "fetch", "insert", "record", "derive", "count"} : p # q => ~(At(p) /\ At(q))
  BY <1>5
<1> QED BY <1>3, <1>4, <1>6

LEMMA SurvivorGoes ==
  ASSUME IInv
  PROVE  /\ Start(Survivor) => At("list")' /\ task'[Survivor].seen = cursor
         /\ ListExecutions(Survivor) => At("fetch")'
         /\ FetchRows(Survivor) => At("insert")'
         /\ UpsertMany(Survivor) => At("record")'
         /\ RecordSuccessfulPoll(Survivor) => At("derive")'
         /\ ReplaceUsage(Survivor) => At("count")' /\ Todo' = Todo
         /\ InsertUsage(Survivor) \/ DeriveFails(Survivor)
              => At("idle")' \/ (At("derive")' /\ Todo' \subseteq Todo /\ Todo' # Todo)
<1>1. task \in [Tasks -> TaskRecords]
  BY FitsOfTypes DEF IInv
<1>2. Start(Survivor) => At("list")' /\ task'[Survivor].seen = cursor
  BY <1>1, Stays DEF Start, At, Cycle, Task
<1>3. ListExecutions(Survivor) => At("fetch")'
  BY <1>1, Stays DEF ListExecutions, At, Cycle, Task
<1>4. FetchRows(Survivor) => At("insert")'
  BY <1>1, Stays DEF FetchRows, At, Cycle, Task
<1>5. UpsertMany(Survivor) => At("record")'
  BY <1>1, Stays DEF UpsertMany, At, Task
<1>6. RecordSuccessfulPoll(Survivor) => At("derive")'
  BY <1>1, Stays DEF RecordSuccessfulPoll, At, Deriving, Task
<1>7. ReplaceUsage(Survivor) => At("count")' /\ Todo' = Todo
  BY <1>1, Stays DEF ReplaceUsage, At, Todo, Task
<1>8. ASSUME InsertUsage(Survivor) \/ DeriveFails(Survivor)
      PROVE  At("idle")' \/ (At("derive")' /\ Todo' \subseteq Todo /\ Todo' # Todo)
  <2>1. At("count") /\ NextOf(Survivor)
    BY <1>8 DEF InsertUsage, DeriveFails, At
  <2>2. task[Survivor].at \in Todo
    BY <2>1, FitsNow, Stays DEF Fit, At, Todo
  <2>3. CASE Ends(Survivor)
    BY <1>1, <2>3, Stays DEF Ends, At, Idle, Cycle, Task
  <2>4. CASE task' = [task EXCEPT ![Survivor] = Deriving(Todo \ {task[Survivor].at})]
    <3>1. task'[Survivor].pc = "derive" /\ task'[Survivor].todo = Todo \ {task[Survivor].at}
      BY <1>1, <2>4, Stays DEF Deriving, Task
    <3> QED BY <3>1, <2>2 DEF At, Todo
  <2> QED BY <2>1, <2>3, <2>4 DEF NextOf, Todo
<1> QED BY <1>2, <1>3, <1>4, <1>5, <1>6, <1>7, <1>8

InDerivation == At("derive") \/ At("count")

LEMMA DerivingSteps ==
  ASSUME IInv, [Next]_vars, InDerivation, InDerivation'
  PROVE  /\ Todo' \subseteq Todo
         /\ At("count") => (At("count")' /\ ~Continue(Survivor)) \/ Todo' # Todo
         /\ At("derive") => (At("derive")' /\ (Continue(Survivor) => Todo' # Todo)) \/ At("count")'
<1>1. ~At("idle")'
  BY DEF InDerivation, At
<1>2. task'[Survivor] = task[Survivor] => Todo' = Todo /\ (\A pc : At(pc) => At(pc)')
  BY DEF Todo, At
<1>3. CASE At("count")
  <2>1. InsertUsage(Survivor) \/ DeriveFails(Survivor) => Todo' \subseteq Todo /\ Todo' # Todo
    BY <1>1, SurvivorGoes
  <2>2. ~At("derive")
    BY <1>3 DEF At
  <2>3. Continue(Survivor) => InsertUsage(Survivor)
    BY <1>3 DEF Continue, FetchRows, Persist, UpsertMany, UpsertThrows, RecordSuccessfulPoll, Derive, NothingNew,
                ReplaceUsage, At
  <2> QED BY <1>2, <1>3, <2>1, <2>2, <2>3, SurvivorSteps
<1>4. CASE At("derive")
  <2>1. ~At("count")
    BY <1>4 DEF At
  <2>2. ReplaceUsage(Survivor) => At("count")' /\ Todo' = Todo
    BY SurvivorGoes
  <2>3. Continue(Survivor) => ReplaceUsage(Survivor) \/ NothingNew(Survivor)
    BY <1>4 DEF Continue, FetchRows, Persist, UpsertMany, UpsertThrows, RecordSuccessfulPoll, Derive, InsertUsage, At
  <2>4. NothingNew(Survivor) => At("idle")'
    BY FitsOfTypes, Stays DEF IInv, NothingNew, Ends, At, Idle, Cycle, Task
  <2> QED BY <1>1, <1>2, <1>4, <2>1, <2>2, <2>3, <2>4, SurvivorSteps
<1> QED BY <1>3, <1>4 DEF InDerivation

LEMMA FiniteInduction ==
  ASSUME NEW S, IsFiniteSet(S), NEW g,
         \A U \in SUBSET S : (\A x \in U : g[U \ {x}]) => g[U]
  PROVE  \A U \in SUBSET S : g[U]
<1> SUFFICES ASSUME NEW V \in SUBSET S, ~g[V] PROVE FALSE
  OBVIOUS
<1>1. PICK T : T = {U \in SUBSET S : ~g[U]}
  OBVIOUS
<1>2. IsWellFoundedOn(StrictSubsetOrdering(S), SUBSET S)
  BY FS_StrictSubsetOrderingWellFounded, FS_FiniteSubsetsOfFinite
<1>3. PICK U \in T : \A W \in T : ~(<<W, U>> \in StrictSubsetOrdering(S))
  <2>1. V \in T /\ T \subseteq SUBSET S /\ T # {}
    BY <1>1
  <2> QED BY <1>2, <2>1, WFMin
<1>4. PICK x \in U : ~g[U \ {x}]
  BY <1>1, <1>3
<1>5. U \ {x} \in T /\ U \in SUBSET S
  BY <1>1, <1>3, <1>4
<1>6. <<U \ {x}, U>> \in StrictSubsetOrdering(S)
  BY <1>5, <1>4 DEF StrictSubsetOrdering
<1> QED BY <1>3, <1>5, <1>6

Given(t) == t \/ TRUE

StuckDeriving(U) == Running /\ []InDerivation /\ [](Todo = U)

LEMMA NeverStuckDeriving == ASSUME NEW U \in SUBSET Execs PROVE ~StuckDeriving(U)
<1>1. IInv /\ [Next]_vars /\ InDerivation /\ InDerivation' /\ Todo = U /\ (Todo = U)'
        => /\ At("count") => At("count")' /\ ~<<Continue(Survivor)>>_vars
           /\ At("derive") => (At("derive")' /\ ~<<Continue(Survivor)>>_vars) \/ At("count")'
  BY DerivingSteps
<1>2. StepsAreEnabled /\ At("count") => ENABLED <<Continue(Survivor)>>_vars
  BY DEF StepsAreEnabled, At
<1>4. InDerivation => At("derive") \/ At("count")
  BY DEF InDerivation
<1>5. CASE U = {}
  <2>1. StepsAreEnabled /\ At("derive") /\ Todo = U => ENABLED <<Continue(Survivor)>>_vars
    BY <1>5 DEF StepsAreEnabled, At, Todo
  <2> QED BY <1>1, <1>2, <1>4, <2>1, PTL DEF StuckDeriving, Running
<1>6. CASE U # {}
  <2>1. PICK e : e \in U
    BY <1>6
  <2>2. StepsAreEnabled /\ At("derive") /\ Todo = U /\ ScanFree(e) => ENABLED <<Continue(Survivor)>>_vars
    BY <2>1 DEF StepsAreEnabled, At, Todo
  <2>3. Running => <>ScanFree(e)
    BY <2>1, ScansEnd
  <2> QED BY <1>1, <1>2, <1>4, <2>2, <2>3, RunningStays, PTL DEF StuckDeriving, Running
<1> QED BY <1>5, <1>6

DerivesOf(U) == Running /\ []InDerivation /\ [](Todo \subseteq U)
NeverDerives(U) == []~DerivesOf(U)
Derivations == [U \in SUBSET Execs |-> NeverDerives(U)]

LEMMA OneIsDerived ==
  ASSUME NEW U \in SUBSET Execs
  PROVE  (\A x \in U : NeverDerives(U \ {x})) => NeverDerives(U)
<1> DEFINE Keeps == Running /\ []InDerivation
<1>1. (\A x \in U : NeverDerives(U \ {x})) => [](\A x \in U : ~DerivesOf(U \ {x}))
  BY DEF NeverDerives
<1>2. IInv /\ [Next]_vars /\ InDerivation /\ InDerivation' => Todo' \subseteq Todo
  BY DerivingSteps
<1>3. ASSUME NEW x \in U PROVE ~DerivesOf(U \ {x}) => (Keeps => ~(Todo \subseteq U \ {x}))
  <2>1. Todo' \subseteq Todo /\ Todo \subseteq U \ {x} => (Todo \subseteq U \ {x})'
    OBVIOUS
  <2> QED BY <1>2, <2>1, PTL DEF DerivesOf, Running
<1>4. (\A x \in U : ~DerivesOf(U \ {x})) => (Keeps => \A x \in U : ~(Todo \subseteq U \ {x}))
  <2> HIDE DEF Keeps
  <2> QED BY <1>3
<1>5. Todo \subseteq U /\ (\A x \in U : ~(Todo \subseteq U \ {x})) => Todo = U
  OBVIOUS
<1>6. ~StuckDeriving(U)
  BY NeverStuckDeriving
<1> QED BY <1>1, <1>4, <1>5, <1>6, RunningStays, PTL DEF NeverDerives, DerivesOf, StuckDeriving

LEMMA DerivationEnds == Running => <>~InDerivation
<1>1. PICK g : \A U \in SUBSET Execs : g[U] <=> NeverDerives(U)
  <2>1. Given(Derivations)
    BY DEF Given
  <2> QED BY <2>1, SMTT(20) DEF Derivations
<1>2. \A U \in SUBSET Execs : (\A x \in U : g[U \ {x}]) => g[U]
  <2>1. ASSUME NEW U \in SUBSET Execs PROVE (\A x \in U : NeverDerives(U \ {x})) => NeverDerives(U)
    BY OneIsDerived
  <2> QED BY <1>1, <2>1
<1>3. IsFiniteSet(Execs)
  BY FS_Interval, BoundsAssumption DEF Execs
<1>4. g[Execs]
  BY <1>2, <1>3, FiniteInduction
<1>5. NeverDerives(Execs)
  BY <1>1, <1>4
<1>6. IInv => Todo \subseteq Execs
  BY FitsOfTypes, Stays DEF IInv, Todo, TaskRecords
<1> QED BY <1>5, <1>6, PTL DEF NeverDerives, DerivesOf, Running

\* A continuation is the step its place in the cycle says.
LEMMA Continues ==
  ASSUME Continue(Survivor)
  PROVE  /\ At("fetch") => FetchRows(Survivor)
         /\ At("insert") => UpsertMany(Survivor) \/ UpsertThrows(Survivor)
         /\ At("record") => RecordSuccessfulPoll(Survivor)
BY DEF Continue, FetchRows, Persist, UpsertMany, UpsertThrows, RecordSuccessfulPoll, Derive, NothingNew,
       ReplaceUsage, InsertUsage, At

LEMMA CycleSteps ==
  ASSUME IInv, [Next]_vars
  PROVE  /\ At("list") => (At("list")' /\ ~ListExecutions(Survivor)) \/ At("fetch")' \/ At("idle")'
         /\ At("fetch") => (At("fetch")' /\ ~Continue(Survivor)) \/ At("insert")'
         /\ At("insert") => (At("insert")' /\ ~Continue(Survivor)) \/ At("record")' \/ At("idle")'
         /\ At("record") => (At("record")' /\ ~Continue(Survivor)) \/ At("derive")'
<1>1. task'[Survivor] = task[Survivor] => \A pc : At(pc) <=> At(pc)'
  BY DEF At
<1>2. \A p \in {"fetch", "insert", "record", "derive"} : At(p)' => ~At("list")'
  BY DEF At
<1>3. \A p \in {"insert", "record", "derive", "idle"} : At(p)' => ~At("fetch")'
  BY DEF At
<1>4. \A p \in {"record", "derive", "idle"} : At(p)' => ~At("insert")'
  BY DEF At
<1>5. UpsertThrows(Survivor) => At("idle")'
  BY FitsOfTypes, Stays DEF IInv, UpsertThrows, Ends, At, Idle, Cycle, Task
<1>6. At("list") => (At("list")' /\ ~ListExecutions(Survivor)) \/ At("fetch")' \/ At("idle")'
  BY <1>1, SurvivorSteps, SurvivorGoes
<1>7. At("fetch") => (At("fetch")' /\ ~Continue(Survivor)) \/ At("insert")'
  BY <1>1, SurvivorSteps, SurvivorGoes, Continues
<1>8. At("insert") => (At("insert")' /\ ~Continue(Survivor)) \/ At("record")' \/ At("idle")'
  BY <1>1, <1>5, SurvivorSteps, SurvivorGoes, Continues
<1>9. At("record") => (At("record")' /\ ~Continue(Survivor)) \/ At("derive")'
  BY <1>1, SurvivorSteps, SurvivorGoes, Continues
<1> QED BY <1>6, <1>7, <1>8, <1>9

LEMMA Places ==
  /\ IInv => At("idle") \/ At("list") \/ At("fetch") \/ At("insert") \/ At("record") \/ InDerivation
  /\ StepsAreEnabled /\ (At("fetch") \/ At("insert") \/ At("record")) => ENABLED <<Continue(Survivor)>>_vars
  /\ StepsAreEnabled /\ At("list") => ENABLED <<ListExecutions(Survivor)>>_vars
  /\ StepsAreEnabled /\ IdleOk /\ At("idle") => ENABLED <<Start(Survivor)>>_vars
<1>1. IInv => At("idle") \/ At("list") \/ At("fetch") \/ At("insert") \/ At("record") \/ InDerivation
  BY FitsOfTypes, Stays DEF IInv, At, InDerivation, TaskRecords
<1>2. StepsAreEnabled /\ (At("fetch") \/ At("insert") \/ At("record")) => ENABLED <<Continue(Survivor)>>_vars
  BY DEF StepsAreEnabled, At
<1>3. StepsAreEnabled /\ At("list") => ENABLED <<ListExecutions(Survivor)>>_vars
  BY DEF StepsAreEnabled, At
<1>4. StepsAreEnabled /\ IdleOk /\ At("idle") => ENABLED <<Start(Survivor)>>_vars
  BY Stays DEF StepsAreEnabled, At, IdleOk
<1> QED BY <1>1, <1>2, <1>3, <1>4

LEMMA CycleEnds == Running => <>At("idle")
<1>1. IInv /\ [Next]_vars
        => /\ At("list") => (At("list")' /\ ~<<ListExecutions(Survivor)>>_vars) \/ At("fetch")' \/ At("idle")'
           /\ At("fetch") => (At("fetch")' /\ ~<<Continue(Survivor)>>_vars) \/ At("insert")'
           /\ At("insert") => (At("insert")' /\ ~<<Continue(Survivor)>>_vars) \/ At("record")' \/ At("idle")'
           /\ At("record") => (At("record")' /\ ~<<Continue(Survivor)>>_vars) \/ At("derive")'
  BY CycleSteps
<1>2. IInv /\ [Next]_vars /\ InDerivation => InDerivation' \/ At("idle")'
  <2> SUFFICES ASSUME IInv, [Next]_vars, InDerivation PROVE InDerivation' \/ At("idle")'
    OBVIOUS
  <2>1. task'[Survivor] = task[Survivor] => InDerivation'
    BY DEF InDerivation, At
  <2> QED BY <2>1, SurvivorSteps, SurvivorGoes DEF InDerivation
<1>3. At("derive") => InDerivation
  BY DEF InDerivation
<1> QED BY <1>1, <1>2, <1>3, Places, DerivationEnds, RunningStays, PTL DEF Running

-----------------------------------------------------------------------------
(* An execution that exists, and is neither stored nor skipped, while no more are created. *)

Wanting(e) == n8n[e] # "none" /\ e \notin stored \cup skipped
Missing == Execs \ Existing
Fits == Cardinality(Backlog) <= InsertLimit
After(seen) == {f \in Existing : f > seen}

Reads(e) == At("list") /\ e > task[Survivor].seen /\ Cardinality(After(task[Survivor].seen)) <= InsertLimit
Fetches(e) == At("fetch") /\ e \in task[Survivor].listed /\ Cardinality(task[Survivor].listed) <= InsertLimit
Inserts(e) == At("insert") /\ e \in task[Survivor].rows /\ Cardinality(task[Survivor].rows) <= InsertLimit

LEMMA SmallerFits ==
  ASSUME NEW S \in SUBSET Execs, NEW T \in SUBSET S, Cardinality(S) <= InsertLimit
  PROVE  Cardinality(T) <= InsertLimit
<1>1. IsFiniteSet(S)
  <2>1. IsFiniteSet(Execs)
    BY FS_Interval, BoundsAssumption DEF Execs
  <2> QED BY <2>1, FS_Subset
<1>2. IsFiniteSet(T) /\ Cardinality(T) <= Cardinality(S)
  BY <1>1, FS_Subset
<1>3. Cardinality(T) \in Nat /\ Cardinality(S) \in Nat
  BY <1>1, <1>2, FS_CardinalityType
<1> QED BY <1>2, <1>3, BoundsAssumption

LEMMA WantingSteps ==
  ASSUME IInv, [Next]_vars, NEW e \in Execs, Wanting(e), Wanting(e)', Fits, Missing' = Missing
  PROVE  /\ At("idle") => (At("idle")' /\ ~Start(Survivor)) \/ Reads(e)'
         /\ Reads(e) => \/ Reads(e)' /\ ~ListExecutions(Survivor)
                        \/ Fetches(e)'
                        \/ At("idle")' /\ ~ListExecutions(Survivor)
         /\ Fetches(e) => (Fetches(e)' /\ ~Continue(Survivor)) \/ Inserts(e)'
         /\ Inserts(e) => Inserts(e)' /\ ~Continue(Survivor)
<1> DEFINE r == task[Survivor]
<1>1. /\ task \in [Tasks -> TaskRecords] /\ r \in TaskRecords /\ cursor \in 0 .. MaxId
      /\ Existing' = Existing /\ Existing \subseteq Execs /\ e \in Existing /\ skipped \subseteq Execs
  BY FitsOfTypes, Stays DEF IInv, Tables, Missing, Existing, Wanting
<1>2. e > cursor
  BY <1>1, BoundsAssumption DEF IInv, CursorCovers, Wanting, Execs
<1>3. CASE task'[Survivor] = r
  <2>1. \A pc : At(pc) => At(pc)'
    BY <1>3 DEF At
  <2>2. (Reads(e) => Reads(e)') /\ (Fetches(e) => Fetches(e)') /\ (Inserts(e) => Inserts(e)')
    BY <1>1, <1>3, <2>1 DEF Reads, Fetches, Inserts, After
  <2>3. (At("list") => ~ListExecutions(Survivor)) /\ (At("idle") => ~Start(Survivor))
        /\ (At("fetch") \/ At("insert") => ~Continue(Survivor))
    <3>1. (At("list") => ~ListExecutions(Survivor)) /\ (At("idle") => ~Start(Survivor))
      BY <1>3, SurvivorGoes DEF At
    <3>2. UpsertThrows(Survivor) => At("idle")'
      BY FitsOfTypes, Stays DEF IInv, UpsertThrows, Ends, At, Idle, Cycle, Task
    <3>3. At("fetch") \/ At("insert") => ~Continue(Survivor)
      BY <1>3, <3>2, Continues, SurvivorGoes DEF At
    <3> QED BY <3>1, <3>3
  <2> QED BY <2>1, <2>2, <2>3 DEF Reads, Fetches, Inserts
<1>4. CASE Start(Survivor)
  <2>1. Reads(e)'
    BY <1>1, <1>2, <1>4, SurvivorGoes DEF Reads, After, Fits, Backlog
  <2> QED BY <1>4, <2>1 DEF Start, Reads, Fetches, Inserts, At, Idle, Cycle, Task
<1>5. CASE ListExecutions(Survivor)
  <2>1. ASSUME Reads(e) PROVE Fetches(e)'
    <3> DEFINE page == NewSummaries(r.seen)
    <3>1. PICK readable \in SUBSET page :
                 /\ task' = [task EXCEPT ![Survivor] = Cycle("fetch", r.seen, readable, {})]
                 /\ skipped' = skipped \cup (page \ readable) \cup (IF r.seen = 0 THEN Existing \ page ELSE {})
      BY <1>5 DEF ListExecutions
    <3>2. task'[Survivor].pc = "fetch" /\ task'[Survivor].listed = readable
      BY <1>1, <3>1, Stays DEF Cycle, Task
    <3>3. e \in readable
      <4>1. r.seen # 0 => e \in page
        BY <1>1, <2>1 DEF Reads, NewSummaries
      <4>2. e \notin skipped'
        BY DEF Wanting
      <4> QED BY <1>1, <3>1, <4>1, <4>2
    <3>4. readable \subseteq After(r.seen)
      <4>1. r.seen = 0 => \A f \in Existing : f > r.seen
        BY <1>1, BoundsAssumption DEF Execs
      <4> QED BY <1>1, <4>1 DEF NewSummaries, NewestPage, After
    <3>5. Cardinality(readable) <= InsertLimit
      BY <1>1, <2>1, <3>4, SmallerFits DEF Reads, After
    <3> QED BY <3>2, <3>3, <3>5 DEF Fetches, At
  <2>2. ~At("idle") /\ ~Fetches(e) /\ ~Inserts(e)
    BY <1>5 DEF ListExecutions, Fetches, Inserts, At
  <2> QED BY <2>1, <2>2
<1>6. CASE FetchRows(Survivor)
  <2>1. ASSUME Fetches(e) PROVE Inserts(e)'
    <3>1. PICK rows \in SUBSET Storable(r.listed), top \in 0 .. MaxId :
                 /\ task' = [task EXCEPT ![Survivor] = Cycle("insert", top, {}, rows)]
                 /\ skipped' = skipped \cup (r.listed \ rows)
      BY <1>6 DEF FetchRows
    <3>2. task'[Survivor].pc = "insert" /\ task'[Survivor].rows = rows
      BY <1>1, <3>1, Stays DEF Cycle, Task
    <3>3. e \in rows
      BY <2>1, <3>1 DEF Fetches, Wanting
    <3>4. rows \subseteq r.listed /\ r.listed \subseteq Execs
      BY <1>1 DEF Storable, TaskRecords
    <3>5. Cardinality(rows) <= InsertLimit
      BY <2>1, <3>4, SmallerFits DEF Fetches
    <3> QED BY <3>2, <3>3, <3>5 DEF Inserts, At
  <2> QED BY <1>6, <2>1 DEF FetchRows, Reads, Fetches, Inserts, At
<1>7. CASE At("insert")
  <2>1. Inserts(e) => ~UpsertMany(Survivor) /\ ~UpsertThrows(Survivor)
    BY DEF Inserts, UpsertMany, UpsertThrows, FitsOneInsert, Wanting
  <2>2. Inserts(e) => task'[Survivor] = r
    BY <1>7, <2>1, SurvivorSteps
  <2> QED BY <1>3, <1>7, <2>2 DEF At, Reads, Fetches, Inserts
<1>8. ASSUME At("list"), At("idle")' PROVE ~ListExecutions(Survivor)
  BY <1>8, SurvivorGoes DEF At
<1>9. (Reads(e) => At("list")) /\ (Fetches(e) => At("fetch"))
  BY DEF Reads, Fetches
<1>10. At("list") \/ At("idle") \/ At("fetch") => ~Inserts(e)
  BY DEF At, Inserts
<1>11. (At("idle") => ~At("list") /\ ~At("fetch")) /\ (At("list") => ~At("fetch"))
  BY DEF At
<1>12. CASE At("list") /\ At("idle")'
  BY <1>8, <1>10, <1>11, <1>9, <1>12
<1>13. CASE ~At("idle") /\ ~At("list") /\ ~At("fetch") /\ ~At("insert")
  BY <1>9, <1>13 DEF Inserts
<1>14. At("idle") \/ At("list") \/ At("fetch") =>
         task'[Survivor] = r \/ Start(Survivor) \/ ListExecutions(Survivor) \/ FetchRows(Survivor) \/ (At("list") /\ At("idle")')
  BY SurvivorSteps
<1> QED BY <1>3, <1>4, <1>5, <1>6, <1>7, <1>12, <1>13, <1>14

Stuck(e, U) == Running /\ []Fits /\ []Wanting(e) /\ [](Missing = U)

LEMMA NeverStuck == ASSUME NEW e \in Execs, NEW U PROVE ~Stuck(e, U)
<1>1. IInv /\ [Next]_vars /\ Wanting(e) /\ Wanting(e)' /\ Fits /\ Missing = U /\ (Missing = U)'
        => /\ At("idle") => (At("idle")' /\ ~<<Start(Survivor)>>_vars) \/ Reads(e)'
           /\ Reads(e) => \/ Reads(e)' /\ ~<<ListExecutions(Survivor)>>_vars
                          \/ Fetches(e)'
                          \/ At("idle")' /\ ~<<ListExecutions(Survivor)>>_vars
           /\ Fetches(e) => (Fetches(e)' /\ ~<<Continue(Survivor)>>_vars) \/ Inserts(e)'
           /\ Inserts(e) => Inserts(e)' /\ ~<<Continue(Survivor)>>_vars
  BY WantingSteps
<1>2. (Reads(e) => At("list")) /\ (Fetches(e) => At("fetch")) /\ (Inserts(e) => At("insert"))
  BY DEF Reads, Fetches, Inserts
<1>3. At("idle") => ~<<ListExecutions(Survivor)>>_vars
  BY DEF At, ListExecutions
<1> QED BY <1>1, <1>2, <1>3, Places, CycleEnds, RunningStays, PTL DEF Stuck, Running

Waiting(e, U) == Running /\ []Fits /\ []Wanting(e) /\ [](Missing \subseteq U)
NeverWaits(e, U) == []~Waiting(e, U)
Waits(e) == [U \in SUBSET Execs |-> NeverWaits(e, U)]

LEMMA Grown ==
  ASSUME IInv, [Next]_vars
  PROVE  \A f \in Execs : n8n[f] # "none" => n8n'[f] # "none"
<1>1. n8n \in [Execs -> {"none", "waiting", "started"}]
  BY FitsOfTypes DEF IInv, Tables
<1>2. ASSUME NEW f \in Execs, Create(f) \/ Begins(f) PROVE \A x \in Execs : n8n[x] # "none" => n8n'[x] # "none"
  BY <1>1, <1>2 DEF Create, Begins
<1>3. CASE UNCHANGED n8n
  BY <1>3
<1>4. (\E f \in Execs : BackfillOne(f)) \/ UNCHANGED vars => UNCHANGED n8n
  BY DEF BackfillOne, vars
<1>5. ASSUME NEW w \in Tasks,
             \/ Start(w) \/ ListExecutions(w) \/ ListFails(w) \/ FetchRows(w) \/ Persist(w) \/ RecordSuccessfulPoll(w)
             \/ Derive(w) \/ DeriveFails(w) \/ Dies(w)
      PROVE  UNCHANGED n8n
  BY <1>5 DEF Start, ListExecutions, ListFails, FetchRows, Persist, UpsertMany, UpsertThrows,
              RecordSuccessfulPoll, Derive, NothingNew, ReplaceUsage, InsertUsage, DeriveFails, Dies
<1> QED BY <1>2, <1>3, <1>4, <1>5 DEF Next, Tasks

LEMMA OneIsCreated ==
  ASSUME NEW e \in Execs, NEW U \in SUBSET Execs
  PROVE  (\A x \in U : NeverWaits(e, U \ {x})) => NeverWaits(e, U)
<1> DEFINE Keeps == Running /\ []Fits /\ []Wanting(e)
<1>1. (\A x \in U : NeverWaits(e, U \ {x})) => [](\A x \in U : ~Waiting(e, U \ {x}))
  BY DEF NeverWaits
<1>2. IInv /\ [Next]_vars => Missing' \subseteq Missing
  BY Grown DEF Missing, Existing
<1>3. ASSUME NEW x \in U PROVE ~Waiting(e, U \ {x}) => (Keeps => ~(Missing \subseteq U \ {x}))
  <2>1. Missing' \subseteq Missing /\ Missing \subseteq U \ {x} => (Missing \subseteq U \ {x})'
    OBVIOUS
  <2> QED BY <1>2, <2>1, PTL DEF Waiting, Running
<1>4. (\A x \in U : ~Waiting(e, U \ {x})) => (Keeps => \A x \in U : ~(Missing \subseteq U \ {x}))
  <2> HIDE DEF Keeps
  <2> QED BY <1>3
<1>5. Missing \subseteq U /\ (\A x \in U : ~(Missing \subseteq U \ {x})) => Missing = U
  OBVIOUS
<1>6. ~Stuck(e, U)
  BY NeverStuck
<1> QED BY <1>1, <1>4, <1>5, <1>6, RunningStays, PTL DEF NeverWaits, Waiting, Stuck

LEMMA NeverWanting == ASSUME NEW e \in Execs PROVE ~(Running /\ []Fits /\ []Wanting(e))
<1>1. PICK g : \A U \in SUBSET Execs : g[U] <=> NeverWaits(e, U)
  <2>1. Given(Waits(e))
    BY DEF Given
  <2> QED BY <2>1, SMTT(20) DEF Waits
<1>2. \A U \in SUBSET Execs : (\A x \in U : g[U \ {x}]) => g[U]
  <2>1. ASSUME NEW U \in SUBSET Execs PROVE (\A x \in U : NeverWaits(e, U \ {x})) => NeverWaits(e, U)
    BY OneIsCreated
  <2> QED BY <1>1, <2>1
<1>3. IsFiniteSet(Execs)
  BY FS_Interval, BoundsAssumption DEF Execs
<1>4. g[Execs]
  BY <1>2, <1>3, FiniteInduction
<1>5. NeverWaits(e, Execs)
  BY <1>1, <1>4
<1>6. Missing \subseteq Execs
  BY DEF Missing
<1> QED BY <1>5, <1>6, PTL DEF NeverWaits, Waiting

(* While the backlog is one that an INSERT can hold, every execution of the connection is     *)
(* stored or was skipped, however many processes poll it besides the one that stays and       *)
(* whoever moves the cursor (ingestExecutions, upsertMany).                                    *)
THEOREM EveryOneArrivesInTheEnd == FairSpec /\ []StepsAreEnabled => EveryOneArrives
<1>1. ASSUME NEW e \in Execs PROVE FairSpec /\ []StepsAreEnabled => (BacklogFits => Arrives(e))
  <2>1. ~(Running /\ []Fits /\ []Wanting(e))
    BY <1>1, NeverWanting
  <2>2. IInv /\ [Next]_vars /\ n8n[e] # "none" => (n8n[e] # "none")'
    BY <1>1, Grown
  <2>3. n8n[e] # "none" /\ ~(e \in stored \cup skipped) => Wanting(e)
    BY DEF Wanting
  <2> QED BY <2>1, <2>2, <2>3, Runs, RunningStays, PTL DEF BacklogFits, Arrives, Running, Fits
<1> DEFINE Enabled == FairSpec /\ []StepsAreEnabled /\ BacklogFits
<1>2. ASSUME NEW e \in Execs PROVE Enabled => Arrives(e)
  BY <1>1
<1>3. Enabled => \A e \in Execs : Arrives(e)
  <2> HIDE DEF Enabled
  <2> QED BY <1>2
<1> QED BY <1>3 DEF EveryOneArrives
=============================================================================
