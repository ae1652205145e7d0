------------------------------ MODULE Pipeline ------------------------------
(***************************************************************************)
(* One scan: orchestrator/pipeline.py (seed_pipeline, handle_task,         *)
(* advance_after, _enqueue_detectors, run_task_safely) under the threads   *)
(* of orchestrator/workers.py (run_worker_pool and its families of         *)
(* workers) and the end of scan.run_scan, over the task queue TaskStore.   *)
(*                                                                         *)
(* Every transaction of the store is a step of its own, so the enqueue     *)
(* loops and the look-up and insertion of the detector barrier interleave  *)
(* with every other worker.  A worker's test of the stop flag and of       *)
(* cancel_check is one step with the claim that follows it, unless a flag  *)
(* is set between the two: LateClaim.  The same holds of                   *)
(* run_worker_pool's poll: a read that finds no terminal state changes     *)
(* nothing, and the last cancel_check may be any time before the read that *)
(* does.  After the store is closed every operation of it raises and so    *)
(* does the release that follows: the thread goes without changing         *)
(* anything, which here is no step at all.                                 *)
(*                                                                         *)
(* What a detector finds is reduced to one state per job, the pair of role *)
(* and goal: nothing, a candidate finding, or only triaged findings.       *)
(***************************************************************************)
EXTENDS TaskStore

CONSTANTS
  DetectorWorker,       \* the detector threads: MAX_WORKERS["detector"]
  NoGoal,               \* the payload of every role but detector.antares
  Goals,                \* the target's goals, in order
  ScaGoals,             \* the goals synthesized from the SCA findings
  EnableAntares,
  EnableLlmCodeguard,
  MayCancel,            \* whether an operator may stop the scan
  MaxFaults,            \* bound: exceptions, of handlers and of store calls
  MaxDeaths,            \* bound: those among them that claim_task raises
  MaxLapses             \* bound: heartbeats that fail to come for 90 s

Detectors == {"detector.secrets", "detector.sca", "detector.codeguard",
              "detector.antares", "detector.codeguard_llm"}

Singletons == {"indexer", "cartographer", "triager", "reporter"}

PipelineRoles == Singletons \cup Detectors

RolePriority ==
  [r \in PipelineRoles |->
     CASE r = "indexer" -> 10
       [] r = "cartographer" -> 20
       [] r = "detector.codeguard_llm" -> 35
       [] r \in Detectors \ {"detector.codeguard_llm"} -> 30
       [] r = "triager" -> 40
       [] r = "reporter" -> 50]

ItemsOf(seq) == {seq[i] : i \in DOMAIN seq}

ASSUME PipelineAssumption ==
  /\ Role = PipelineRoles
  /\ Priority = RolePriority
  /\ Agent = Singletons \cup DetectorWorker
  /\ DetectorWorker \cap Singletons = {}
  /\ DetectorWorker # {} /\ IsFiniteSet(DetectorWorker)
  /\ Goals \in Seq(Payload) /\ ScaGoals \in Seq(Payload)
  /\ Payload = ItemsOf(Goals) \cup ItemsOf(ScaGoals) \cup {NoGoal}
  /\ {EnableAntares, EnableLlmCodeguard, MayCancel} \subseteq BOOLEAN
  /\ {MaxFaults, MaxDeaths, MaxLapses} \subseteq Nat

VARIABLES
  pc,         \* per worker: where in _worker_loop and run_task_safely it is
  cur,        \* per worker: its task and attempt
  todo,       \* per worker: the rows its enqueue loop has yet to insert
  finding,    \* per job: what list_findings has of it
  snapshot,   \* jobs with candidates when triage_run listed the findings
  reported,   \* jobs in the last report written
  cancelled,  \* the job's cancel_event
  main,       \* run_worker_pool and run_scan
  outcome,    \* how the wait for a terminal state ended
  runState,   \* runs.state
  faults, deaths, lapses,  \* history: what MaxFaults... bound
  early,      \* history: a detector passed the barrier before the last row
              \* of _enqueue_detectors was inserted
  lost        \* history: advance_after raised for a task that is closed, and
              \* so did the release_task that would have opened it again

local == <<pc, cur, todo>>
results == <<finding, snapshot, reported>>
control == <<main, outcome, runState>>
budget == <<faults, deaths, lapses>>
history == <<early, lost>>
vars == <<store, local, results, cancelled, control, budget, history>>

----------------------------------------------------------------------------
(* Jobs and rows. *)

Row(role, goal) == [role |-> role, payload |-> goal]

GoalRows(goals) == [i \in DOMAIN goals |-> Row("detector.antares", goals[i])]

\* The rows of _enqueue_detectors, in its order.
SeedRows ==
  << Row("detector.secrets", NoGoal), Row("detector.sca", NoGoal),
     Row("detector.codeguard", NoGoal) >>
  \o (IF EnableAntares THEN GoalRows(Goals) ELSE << >>)
  \o (IF EnableLlmCodeguard THEN << Row("detector.codeguard_llm", NoGoal) >>
      ELSE << >>)

\* The goals the SCA handler enqueues.
ScaRows == IF EnableAntares THEN GoalRows(ScaGoals) ELSE << >>

Jobs == ItemsOf(SeedRows) \cup ItemsOf(ScaRows)

JobOf(t) == Row(tasks[t].role, tasks[t].payload)

Enqueued(rows) == \A i \in DOMAIN rows : \E t \in Task : JobOf(t) = rows[i]

\* Findings of a language model differ from one run of the job to the next.
ModelBased == {"detector.antares", "detector.codeguard_llm"}

JobsIn(state) == {j \in Jobs : finding[j] = state}

\* Mutant of RolesOf: DETECTOR_ROLES without one of the detectors.
RolesWithoutSca(w) ==
  IF w \in DetectorWorker THEN Detectors \ {"detector.sca"} ELSE {w}

RolesOf(w) == IF w \in DetectorWorker THEN Detectors ELSE {w}

RoleOf(w) == tasks[cur[w].task].role

NoTask == [task |-> 0, attempt |-> 0]

StoreOpen == main # "closed"

\* What ends a worker's loop: stop, or the job's cancel_event.
FlagSet == cancelled \/ main \in {"stopping", "closed"}

Goto(w, label) == pc' = [pc EXCEPT ![w] = label]

Init ==
  /\ StoreInit
  /\ pc = [w \in Agent |-> "idle"]
  /\ cur = [w \in Agent |-> NoTask]
  /\ todo = [w \in Agent |-> << >>]
  /\ finding = [j \in Jobs |-> "none"]
  /\ snapshot = {}
  /\ reported = {}
  /\ cancelled = FALSE
  /\ main = "seed" /\ outcome = "none" /\ runState = "open"
  /\ faults = 0 /\ deaths = 0 /\ lapses = 0
  /\ early = FALSE /\ lost = FALSE

----------------------------------------------------------------------------
(* A worker's loop. *)

TakeTask(w) ==
  /\ pc[w] = "idle"
  /\ \E t \in Task :
       /\ ClaimTask(w, RolesOf(w), t)
       /\ cur' = [cur EXCEPT ![w] = [task |-> t, attempt |-> tasks[t].attempts + 1]]
  /\ Goto(w, "start")
  /\ UNCHANGED <<todo, results, cancelled, control, budget, history>>

\* One turn of the loop that finds a task.
Claim(w) == main = "poll" /\ ~cancelled /\ TakeTask(w)

\* The same with a flag set after the worker's test of it.
LateClaim(w) ==
  /\ main \in {"poll", "stopping"} /\ FlagSet
  /\ TakeTask(w)

\* claim_task raises, outside of the loop's try: the thread dies.
Die(w) ==
  /\ pc[w] = "idle"
  /\ main = "poll" /\ deaths < MaxDeaths /\ faults + deaths < MaxFaults
  /\ deaths' = deaths + 1
  /\ Goto(w, "dead")
  /\ UNCHANGED <<store, cur, todo, results, cancelled, control, faults, lapses, history>>

\* The worker's task is over: it returns to its loop or, with a flag set, ends.
Rest(w) ==
  /\ cur' = [cur EXCEPT ![w] = NoTask]
  /\ Goto(w, IF FlagSet THEN "exit" ELSE "idle")

\* ScanCancelled out of handle_task's first line or of the Antares loop.
Cancelled(w) ==
  /\ \/ pc[w] = "start"
     \/ pc[w] = "run" /\ RoleOf(w) = "detector.antares"
  /\ cancelled /\ StoreOpen
  /\ ReleaseTask(cur[w].task)
  /\ Rest(w)
  /\ UNCHANGED <<todo, results, cancelled, control, budget, history>>

\* Any other exception out of handle_task, complete_task, advance_after or,
\* with the claim left behind, of run_task_safely's own release_task.
Fail(w) ==
  /\ pc[w] \notin {"idle", "exit", "dead"} /\ StoreOpen
  /\ faults + deaths < MaxFaults
  /\ faults' = faults + 1
  /\ \/ ReleaseTask(cur[w].task) /\ UNCHANGED lost
     \/ /\ UNCHANGED store
        /\ lost' = (lost \/ pc[w] \in {"advance", "enqueue", "barrier"})
  /\ todo' = [todo EXCEPT ![w] = << >>]
  /\ Rest(w)
  /\ UNCHANGED <<results, cancelled, control, deaths, lapses, early>>

----------------------------------------------------------------------------
(* handle_task. *)

\* The cancel check is passed.  A triager lists the findings it will judge.
Start(w) ==
  /\ pc[w] = "start" /\ ~cancelled /\ StoreOpen
  /\ Goto(w, "run")
  /\ snapshot' = IF RoleOf(w) = "triager" THEN JobsIn("candidate") ELSE snapshot
  /\ UNCHANGED <<store, cur, todo, finding, reported, cancelled, control, budget,
                 history>>

\* The index, and the security map made from it.
Index(w) ==
  /\ pc[w] = "run" /\ RoleOf(w) \in {"indexer", "cartographer"}
  /\ Goto(w, "complete")
  /\ UNCHANGED <<store, cur, todo, results, cancelled, control, budget, history>>

\* Mutant of Detect: detectors store their findings with a verdict.
DetectConfirmed(w) ==
  /\ pc[w] = "run" /\ RoleOf(w) \in Detectors /\ StoreOpen
  /\ finding' = [finding EXCEPT ![JobOf(cur[w].task)] = "confirmed"]
  /\ Goto(w, "complete")
  /\ UNCHANGED <<store, cur, todo, snapshot, reported, cancelled, control, budget,
                 history>>

\* Mutant of Detect: the SCA job is completed before its goals are enqueued.
DetectCompleting(w) ==
  /\ pc[w] = "run" /\ RoleOf(w) \in Detectors /\ StoreOpen
  /\ LET job == JobOf(cur[w].task)
         rows == IF job.role = "detector.sca" THEN ScaRows ELSE << >>
     IN /\ finding' = [finding EXCEPT ![job] = "candidate"]
        /\ todo' = [todo EXCEPT ![w] = rows]
        /\ IF rows = << >> THEN UNCHANGED store ELSE CompleteTask(cur[w].task)
        /\ Goto(w, IF rows = << >> THEN "complete" ELSE "goals")
  /\ UNCHANGED <<cur, snapshot, reported, cancelled, control, budget, history>>

\* upsert_finding: a known fingerprint keeps its state and verdict.  The SCA
\* job goes on to enqueue its goals.
Detect(w) ==
  /\ pc[w] = "run" /\ RoleOf(w) \in Detectors /\ StoreOpen
  /\ LET job == JobOf(cur[w].task)
         rows == IF job.role = "detector.sca" THEN ScaRows ELSE << >>
     IN /\ \E f \in {"candidate", "judged"} :
             /\ f = "judged" => finding[job] = "judged"
             /\ finding[job] = "judged" /\ f = "candidate" => job.role \in ModelBased
             /\ finding' = [finding EXCEPT ![job] = f]
        /\ todo' = [todo EXCEPT ![w] = rows]
        /\ Goto(w, IF rows = << >> THEN "complete" ELSE "goals")
  /\ UNCHANGED <<store, cur, snapshot, reported, cancelled, control, budget, history>>

\* triage_run gives every finding it listed a verdict.
Triage(w) ==
  /\ pc[w] = "run" /\ RoleOf(w) = "triager" /\ StoreOpen
  /\ finding' = [j \in Jobs |-> IF j \in snapshot THEN "judged" ELSE finding[j]]
  /\ Goto(w, "complete")
  /\ UNCHANGED <<store, cur, todo, snapshot, reported, cancelled, control, budget,
                 history>>

\* write_reports and the manifest.
Report(w) ==
  /\ pc[w] = "run" /\ RoleOf(w) = "reporter" /\ StoreOpen
  /\ reported' = JobsIn("judged")
  /\ Goto(w, "complete")
  /\ UNCHANGED <<store, cur, todo, finding, snapshot, cancelled, control, budget,
                 history>>

----------------------------------------------------------------------------
(* complete_task and advance_after. *)

Complete(w) ==
  /\ pc[w] = "complete" /\ StoreOpen
  /\ CompleteTask(cur[w].task)
  /\ Goto(w, "advance")
  /\ UNCHANGED <<cur, todo, results, cancelled, control, budget, history>>

\* One add_task of an enqueue loop: of _enqueue_detectors (enqueue) or of the
\* SCA handler (goals).
AddNext(w) ==
  /\ pc[w] \in {"enqueue", "goals"} /\ StoreOpen
  /\ AddTask(Head(todo[w]).role, Head(todo[w]).payload)
  /\ todo' = [todo EXCEPT ![w] = Tail(@)]
  /\ IF Len(todo[w]) > 1 THEN UNCHANGED <<pc, cur>>
     ELSE IF pc[w] = "goals" THEN Goto(w, "complete") /\ UNCHANGED cur
     ELSE Rest(w)
  /\ UNCHANGED <<results, cancelled, control, budget, history>>

\* Mutant of NextStage: advance_after is called before complete_task.
NextStageTooSoon(w) ==
  /\ pc[w] \in {"complete", "advance"} /\ RoleOf(w) \in {"indexer", "triager"}
  /\ StoreOpen
  /\ AddTaskIfAbsent(IF RoleOf(w) = "indexer" THEN "cartographer" ELSE "reporter",
                     NoGoal)
  /\ IF pc[w] = "advance" THEN Rest(w) ELSE UNCHANGED <<pc, cur>>
  /\ UNCHANGED <<todo, results, cancelled, control, budget, history>>

\* After the indexer and the triager: add_task_if_absent of the next stage.
NextStage(w) ==
  /\ pc[w] = "advance" /\ RoleOf(w) \in {"indexer", "triager"} /\ StoreOpen
  /\ AddTaskIfAbsent(IF RoleOf(w) = "indexer" THEN "cartographer" ELSE "reporter",
                     NoGoal)
  /\ Rest(w)
  /\ UNCHANGED <<todo, results, cancelled, control, budget, history>>

\* Mutant of EnqueueDetectors: no sentinel.
EnqueueDetectorsAgain(w) ==
  /\ pc[w] = "advance" /\ RoleOf(w) = "cartographer" /\ StoreOpen
  /\ Goto(w, "enqueue")
  /\ todo' = [todo EXCEPT ![w] = SeedRows]
  /\ UNCHANGED <<store, cur, results, cancelled, control, budget, history>>

\* After the cartographer: _role_enqueued, with the secrets row as sentinel.
EnqueueDetectors(w) ==
  /\ pc[w] = "advance" /\ RoleOf(w) = "cartographer" /\ StoreOpen
  /\ IF RoleEnqueued("detector.secrets")
     THEN Rest(w) /\ UNCHANGED todo
     ELSE /\ Goto(w, "enqueue")
          /\ todo' = [todo EXCEPT ![w] = SeedRows]
          /\ UNCHANGED cur
  /\ UNCHANGED <<store, results, cancelled, control, budget, history>>

\* After a detector: has_incomplete_tasks, a transaction of its own.
CheckBarrier(w) ==
  /\ pc[w] = "advance" /\ RoleOf(w) \in Detectors /\ StoreOpen
  /\ IF HasIncompleteTasks(Detectors)
     THEN Rest(w) /\ UNCHANGED history
     ELSE /\ Goto(w, "barrier")
          /\ early' = (early \/ pc["cartographer"] = "enqueue" \/ ~Enqueued(SeedRows))
          /\ UNCHANGED <<cur, lost>>
  /\ UNCHANGED <<store, todo, results, cancelled, control, budget>>

\* The barrier is clear: add_task_if_absent of the triager.
PassBarrier(w) ==
  /\ pc[w] = "barrier" /\ StoreOpen
  /\ AddTaskIfAbsent("triager", NoGoal)
  /\ Rest(w)
  /\ UNCHANGED <<todo, results, cancelled, control, budget, history>>

\* advance_after has nothing to do for the reporter.
Close(w) ==
  /\ pc[w] = "advance" /\ RoleOf(w) = "reporter"
  /\ Rest(w)
  /\ UNCHANGED <<store, todo, results, cancelled, control, budget, history>>

----------------------------------------------------------------------------
(* Heartbeats and the reaper. *)

Beat(w) ==
  /\ pc[w] \notin {"idle", "exit", "dead"} /\ StoreOpen
  /\ Heartbeat(cur[w].task, cur[w].attempt)
  /\ UNCHANGED <<local, results, cancelled, control, budget, history>>

Held(c) ==
  /\ pc[c.agent] \in {"start", "run", "goals", "complete"}
  /\ cur[c.agent] = [task |-> c.task, attempt |-> c.attempt]

\* 90 s without a heartbeat: see WorkerLease.
Lapse(c) ==
  /\ c.fresh /\ StoreOpen
  /\ claims' = (claims \ {c}) \cup {[c EXCEPT !.fresh = FALSE]}
  /\ IF Held(c) THEN lapses < MaxLapses /\ lapses' = lapses + 1
     ELSE UNCHANGED lapses
  /\ UNCHANGED <<tasks, local, results, cancelled, control, faults, deaths, history>>

\* Mutant of Reap: the tasks are reopened and their claims stay.
ReapKeepingClaims ==
  /\ main \in {"poll", "stopping"} /\ StaleClaims # {}
  /\ tasks' = [t \in Task |-> IF \E c \in StaleClaims : c.task = t
                              THEN Released(tasks[t]) ELSE tasks[t]]
  /\ UNCHANGED <<claims, local, results, cancelled, control, budget, history>>

Reap ==
  /\ main \in {"poll", "stopping"} /\ StaleClaims # {}
  /\ ReclaimStaleClaims
  /\ UNCHANGED <<local, results, cancelled, control, budget, history>>

----------------------------------------------------------------------------
(* run_scan and run_worker_pool. *)

\* The operator: the job's cancel_event is set.
Stop ==
  /\ MayCancel /\ ~cancelled /\ StoreOpen
  /\ cancelled' = TRUE
  /\ UNCHANGED <<store, local, results, control, budget, history>>

\* check() and seed_pipeline, before the workers start.
Seed ==
  /\ main = "seed" /\ ~cancelled
  /\ AddTask("indexer", NoGoal)
  /\ main' = "poll"
  /\ UNCHANGED <<local, results, cancelled, outcome, runState, budget, history>>

\* Mutant of MainCancelled: the poll loop does not call cancel_check.
MainCancelledOnlyAtFirst ==
  /\ main = "seed" /\ cancelled
  /\ main' = "stopping" /\ outcome' = "cancelled"
  /\ UNCHANGED <<store, local, results, cancelled, runState, budget, history>>

\* ctx.cancel_check() in the main thread raises.
MainCancelled ==
  /\ main \in {"seed", "poll"} /\ cancelled
  /\ main' = "stopping" /\ outcome' = "cancelled"
  /\ UNCHANGED <<store, local, results, cancelled, runState, budget, history>>

\* run_terminal_task_state: done, or blocked (RuntimeError).
MainRead ==
  /\ main = "poll" /\ RunTerminalTaskState # "none"
  /\ main' = "stopping" /\ outcome' = RunTerminalTaskState
  /\ UNCHANGED <<store, local, results, cancelled, runState, budget, history>>

\* An exception out of seed_pipeline or of the poll's reads.
MainFail ==
  /\ main \in {"seed", "poll"} /\ faults + deaths < MaxFaults
  /\ main' = "stopping" /\ outcome' = "error" /\ faults' = faults + 1
  /\ UNCHANGED <<store, local, results, cancelled, runState, deaths, lapses, history>>

\* Mutant of MainClose: the run row is not touched.
MainCloseUnrecorded ==
  /\ main = "stopping"
  /\ main' = "closed"
  /\ UNCHANGED <<store, local, results, cancelled, outcome, runState, budget, history>>

\* stop.set() and the joins, each of which gives up after two seconds; then
\* run_scan records a cancellation and closes the store.
MainClose ==
  /\ main = "stopping"
  /\ main' = "closed"
  /\ runState' = IF outcome = "cancelled" THEN "cancelled" ELSE runState
  /\ UNCHANGED <<store, local, results, cancelled, outcome, budget, history>>

----------------------------------------------------------------------------

WorkerStep(w) ==
  \/ Claim(w) \/ Cancelled(w)
  \/ Start(w) \/ Index(w) \/ Detect(w) \/ Triage(w) \/ Report(w)
  \/ Complete(w) \/ AddNext(w) \/ NextStage(w) \/ EnqueueDetectors(w)
  \/ CheckBarrier(w) \/ PassBarrier(w) \/ Close(w)

MainStep == Seed \/ MainCancelled \/ MainRead \/ MainClose

Next ==
  \/ \E w \in Agent : WorkerStep(w) \/ LateClaim(w) \/ Die(w) \/ Fail(w) \/ Beat(w)
  \/ \E c \in claims : Lapse(c)
  \/ Reap
  \/ Stop
  \/ MainStep \/ MainFail

Spec == Init /\ [][Next]_vars

\* Every thread that can go on does: handlers end, the polls repeat and the
\* reaper runs every 10 s.  Handlers end because model calls (120 s), the
\* commands in the sandbox (30 s) and the turns are limited, and because
\* gitleaks, osv-scanner, git and the start of a container, which have no
\* timeout, are assumed to end.  Nothing makes an operator stop a scan, an
\* exception occur or a heartbeat lapse, and no heartbeat is needed for a scan
\* to end.
FairSpec ==
  /\ Spec
  /\ \A w \in Agent : WF_vars(WorkerStep(w))
  /\ WF_vars(Reap) /\ WF_vars(\E c \in claims : ~Held(c) /\ Lapse(c))
  /\ WF_vars(MainStep)

----------------------------------------------------------------------------
(* The board of the dashboard: agents.build_agent_status. *)

RolesIn(family) == IF family = "detector" THEN Detectors ELSE {family}

FamilyStates(family) ==
  {tasks[t].state : t \in {u \in Task : tasks[u].role \in RolesIn(family)}}

\* _rollup_state.
Rollup(states) ==
  CASE states = {} -> "pending"
    [] "blocked" \in states -> "blocked"
    [] "blocked" \notin states /\ ("claimed" \in states \/ states = {"open", "closed"})
         -> "running"
    [] states = {"open"} -> "queued"
    [] states = {"closed"} -> "done"

Board(family) == Rollup(FamilyStates(family))

----------------------------------------------------------------------------
(* Properties. *)

TypeOK ==
  /\ StoreTypeOK
  /\ pc \in [Agent -> {"idle", "start", "run", "goals", "complete", "advance",
                       "enqueue", "barrier", "exit", "dead"}]
  /\ cur \in [Agent -> [task : Nat, attempt : Nat]]
  /\ todo \in [Agent -> Seq(Jobs)]
  /\ finding \in [Jobs -> {"none", "candidate", "judged"}]
  /\ snapshot \subseteq Jobs /\ reported \subseteq Jobs
  /\ {cancelled, early, lost} \subseteq BOOLEAN
  /\ main \in {"seed", "poll", "stopping", "closed"}
  /\ outcome \in {"none", "done", "blocked", "cancelled", "error"}
  /\ runState \in {"open", "cancelled"}
  /\ faults \in 0..MaxFaults /\ deaths \in 0..MaxDeaths
  /\ lapses \in 0..MaxLapses

RowsOf(role) == {t \in Task : tasks[t].role = role}

\* No stage but Antares is ever enqueued twice, whatever fails, lapses or is
\* retried: add_task_if_absent for the singleton stages, the sentinel of
\* _enqueue_detectors for the detectors.  Two triagers or reporters would
\* judge and report the run twice.
OneRowPerStage ==
  \A role \in Role \ {"detector.antares"} : Cardinality(RowsOf(role)) <= 1

\* The detector barrier: once the triager is enqueued, every row of
\* _enqueue_detectors and every SCA goal has been enqueued, whatever fails,
\* lapses or is stopped; and all of them are closed, unless a follow-up failed
\* and its task was opened again, or a thread lost its claim.  It holds but for
\* runs in which a detector is through before _enqueue_detectors is (see
\* TriageAfterDetectors).
BarrierHolds ==
  RoleEnqueued("triager") /\ ~early =>
    /\ Enqueued(SeedRows) /\ Enqueued(ScaRows)
    /\ (faults = 0 /\ lapses = 0) => ~HasIncompleteTasks(Detectors)

\* The same without the exception: the docstring of advance_after says that
\* dependent stages are enqueued "when barriers clear".
TriageAfterDetectors ==
  RoleEnqueued("triager") =>
    Enqueued(SeedRows) /\ ~HasIncompleteTasks(Detectors)

\* The reporter is enqueued only when the triager is done for good: nothing
\* that is reported can be judged again.
ReportAfterTriage ==
  RoleEnqueued("reporter") =>
    RowsOf("triager") # {} /\ \A t \in RowsOf("triager") : tasks[t].state = "closed"

\* A scan that ends as done has judged and reported what every detector found,
\* with the exception of BarrierHolds.  Only findings of a language model may
\* still wait for triage, of a task that ran again after an exception or beside
\* a thread that had lost its claim.
DoneMeansReported ==
  outcome = "done" /\ ~early =>
    \A job \in Jobs :
      (job.role \notin ModelBased \/ (faults = 0 /\ lapses = 0))
        => finding[job] = "judged" /\ job \in reported

\* When the board shows the detectors as done they stay done, unless a handler
\* fails or a thread loses its claim: the SCA handler enqueues its goals before
\* it completes.  While _enqueue_detectors inserts its rows, those that are
\* there may be done early.
DetectorsStayDone ==
  [][Board("detector") = "done" /\ Board("detector")' # "done"
       => pc["cartographer"] = "enqueue" \/ faults' > 0 \/ lapses > 0]_tasks

\* A task is blocked, and the scan given up with it, only after three
\* releases that something went wrong for.  A stop counts once for each of the
\* detector threads: one of them releases the task, the other has passed its
\* test of cancel_check, takes the task and releases it again.
BlockedAfterThree ==
  (\E t \in Task : tasks[t].state = "blocked") =>
    faults + lapses + (IF cancelled THEN Cardinality(DetectorWorker) ELSE 0)
      >= ReleaseLimit

\* A scan that is done or gives up was not stopped without a trace: when the
\* stop came first, every stage has already run or some task had failed.
StopIsRecorded ==
  main = "closed" /\ cancelled /\ runState # "cancelled" =>
    \/ outcome = "done" /\ reported # {}
    \/ outcome \in {"blocked", "error"} /\ faults + lapses > 0

\* All threads of one family of workers have died.
FamilyDied ==
  \E w \in Agent : \A v \in Agent : RolesOf(v) = RolesOf(w) => pc[v] = "dead"

\* Every scan ends: done, blocked or cancelled.  Handlers that raise, stale
\* claims, claims left behind and the death of one of several detector threads
\* do not keep it from ending.  It waits for ever when all threads of a family
\* died, and when a closed task could neither be followed up nor reopened.
ScanEnds == <>(main = "closed" \/ FamilyDied \/ lost)

\* Even such a scan is ended by a stop.
StopEnds == cancelled ~> main = "closed"

----------------------------------------------------------------------------
(* Pipeline implements WorkerLease. *)

Phase(w) ==
  CASE pc[w] \in {"idle", "exit", "dead"} -> "idle"
    [] pc[w] \in {"start", "run", "goals", "complete"} -> "run"
    [] pc[w] \in {"advance", "enqueue", "barrier"} -> "closed"

Lease == INSTANCE WorkerLease WITH
  Serves <- [w \in Agent |-> RolesOf(w)],
  Room <- Nat,
  holding <- cur,
  phase <- [w \in Agent |-> Phase(w)]

ImplementsWorkerLease == Lease!Spec
=============================================================================
