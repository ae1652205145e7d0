---------------------------- MODULE BarrierProofs ----------------------------
(***************************************************************************)
(* The triager of a scan waits for all detectors, what a scan that is done *)
(* has reported, and why a scan is given up: for any number of threads,    *)
(* goals, exceptions, lapsed heartbeats and a stop at any moment.          *)
(***************************************************************************)
EXTENDS PipelineLeaseProofs

AtWork(w) == pc[w] \in {"start", "run", "goals", "complete"}

\* While no thread has lost its claim, a task in work is claimed.
WorkIsClaimed ==
  lapses = 0 => \A w \in Agent : AtWork(w) => tasks[cur[w].task].state = "claimed"

LEMMA ScanWorkIsClaimed == Spec => []WorkIsClaimed
  <1>1. PipeInv /\ Proved!ExclusiveInv => WorkIsClaimed
    <2> SUFFICES ASSUME PipeInv, Proved!ExclusiveInv, lapses = 0,
                        NEW w \in Agent, AtWork(w)
                 PROVE  tasks[cur[w].task].state = "claimed"
      BY DEF WorkIsClaimed
    <2>1. Phases[w] = "run"
      BY PhaseOf DEF PipeInv, AtWork
    <2>2. PICK c \in claims : Proved!IdOf(c) = cur[w]
      BY <2>1 DEF Proved!ExclusiveInv, Proved!KeepsClaim
    <2>3. c.task = cur[w].task
      BY <2>2 DEF Proved!IdOf, PipeInv, TypeOK
    <2>4. QED
      BY <2>3 DEF PipeInv, StoreInv, ClaimedIffClaimRow
  <1>2. Proved!Spec => []Proved!ExclusiveInv
    BY Proved!WorkIsExclusive, Assumptions DEF Proved!StoreAssumption, Proved!LeaseAssumption
  <1>3. QED
    BY <1>1, <1>2, ScanFollowsProtocol, PipelineInvariant, PTL

----------------------------------------------------------------------------
(* What a step does to the rows. *)

\* What can happen to a row that is there.
Moved(t) ==
  \/ tasks'[t] = tasks[t]
  \/ \E w \in Agent : TakeTask(w) /\ tasks[t].state = "open" /\ tasks'[t] = Claimed(tasks[t])
  \/ \E w \in Agent : Complete(w) /\ cur[w].task = t /\ tasks'[t] = Closed(tasks[t])
  \/ \E w \in Agent : /\ Cancelled(w) \/ Fail(w)
                      /\ cur[w].task = t /\ tasks'[t] = Released(tasks[t])
  \/ Reap /\ (\E c \in StaleClaims : c.task = t) /\ tasks'[t] = Released(tasks[t])

\* Who inserts a row.
Inserted(n) ==
  \/ \E w \in Agent : AddNext(w) /\ tasks'[n] = NewRow(Head(todo[w]).role, Head(todo[w]).payload)
  \/ \E role \in Singletons :
       /\ tasks'[n] = NewRow(role, NoGoal)
       /\ role = "triager" => \E w \in Agent : pc[w] = "barrier"

LEMMA RowInserted ==
  ASSUME StoreTypeOK, NEW role, NEW payload, AddTask(role, payload)
  PROVE  /\ Task' = Task \cup {Len(tasks) + 1} /\ Len(tasks) + 1 \notin Task
         /\ \A t \in Task : tasks'[t] = tasks[t]
         /\ tasks'[Len(tasks) + 1] = NewRow(role, payload)
  <1>1. /\ Task = 1..Len(tasks) /\ Len(tasks) \in Nat
        /\ tasks \in Seq(TaskRow)
    BY TaskFacts DEF StoreTypeOK
  <1>2. /\ Len(tasks') = Len(tasks) + 1 /\ tasks'[Len(tasks) + 1] = NewRow(role, payload)
        /\ \A t \in 1..Len(tasks) : tasks'[t] = tasks[t]
    BY <1>1 DEF AddTask
  <1>3. Task' = 1..(Len(tasks) + 1)
    BY <1>1, <1>2 DEF Task, AddTask
  <1>4. QED
    BY <1>1, <1>2, <1>3

\* The steps that change `tasks`.
LEMMA RowSteps ==
  ASSUME [Next]_vars
  PROVE  \/ tasks' = tasks
         \/ \E w \in Agent :
              \/ TakeTask(w) \/ Complete(w) \/ AddNext(w) \/ NextStage(w)
              \/ PassBarrier(w) \/ Cancelled(w) \/ Fail(w)
         \/ Seed \/ Reap
  <1>1. ASSUME NEW w \in Agent,
               \/ Start(w) \/ Index(w) \/ Detect(w) \/ Triage(w) \/ Report(w)
               \/ EnqueueDetectors(w) \/ CheckBarrier(w) \/ Close(w) \/ Die(w) \/ Beat(w)
        PROVE  tasks' = tasks
    BY <1>1 DEF Start, Index, Detect, Triage, Report, EnqueueDetectors, CheckBarrier, Close,
                Die, Beat, Heartbeat, store
  <1>2. ASSUME \/ \E c \in claims : Lapse(c)
               \/ Stop \/ MainCancelled \/ MainRead \/ MainClose \/ MainFail
        PROVE  tasks' = tasks
    BY <1>2 DEF Lapse, Stop, MainCancelled, MainRead, MainClose, MainFail, store
  <1>3. ASSUME UNCHANGED vars PROVE tasks' = tasks
    BY <1>3 DEF vars, store
  <1>4. QED
    BY <1>1, <1>2, <1>3 DEF Next, WorkerStep, Claim, LateClaim, MainStep

\* Every row stays, with its job; new rows are at the end.
LEMMA RowsMove ==
  ASSUME PipeInv, [Next]_vars
  PROVE  /\ Task \subseteq Task'
         /\ \A t \in Task : Moved(t)
         /\ \A n \in Task' \ Task : Inserted(n)
         /\ \A w \in Agent : AddNext(w) => \E n \in Task' \ Task :
              tasks'[n] = NewRow(Head(todo[w]).role, Head(todo[w]).payload)
  <1> DEFINE Goal == /\ Task \subseteq Task'
                     /\ \A t \in Task : Moved(t)
                     /\ \A n \in Task' \ Task : Inserted(n)
  <1>1. StoreInv /\ StoreTypeOK /\ HoldsOwn
    BY DEF PipeInv, StoreInv, StageInv
  <1>2. ASSUME tasks' = tasks PROVE Goal
    <2>1. Task' = Task
      BY <1>2 DEF Task
    <2>2. \A t \in Task : Moved(t)
      BY <1>2 DEF Moved
    <2>3. QED
      BY <2>1, <2>2
  <1>3. ASSUME NEW w \in Agent, TakeTask(w)
        PROVE  Goal
    <2>1. PICK t \in Task : ClaimTask(w, RolesOf(w), t)
      BY <1>3 DEF TakeTask
    <2>2. tasks[t].state = "open" /\ tasks' = [tasks EXCEPT ![t] = Claimed(tasks[t])]
      BY <2>1 DEF ClaimTask, NextOpen, TasksIn
    <2>3. /\ Task' = Task /\ tasks'[t] = Claimed(tasks[t])
          /\ \A u \in Task : u # t => tasks'[u] = tasks[u]
      BY <1>1, <2>2, RowChanges DEF SameRows
    <2>4. QED
      BY <1>3, <2>2, <2>3 DEF Moved
  <1>4. ASSUME NEW w \in Agent, Complete(w)
        PROVE  Goal
    <2> DEFINE t == cur[w].task
    <2>1. t \in Task /\ tasks' = [tasks EXCEPT ![t] = Closed(tasks[t])]
      BY <1>1, <1>4 DEF Complete, CompleteTask, HoldsOwn, Busy
    <2>2. /\ Task' = Task /\ tasks'[t] = Closed(tasks[t])
          /\ \A u \in Task : u # t => tasks'[u] = tasks[u]
      BY <1>1, <2>1, RowChanges DEF SameRows
    <2>3. QED
      BY <1>4, <2>2 DEF Moved
  <1>5. ASSUME NEW w \in Agent, Cancelled(w) \/ Fail(w)
        PROVE  Goal
    <2> DEFINE t == cur[w].task
    <2>1. Busy(w) /\ (ReleaseTask(t) \/ UNCHANGED store)
      BY <1>5 DEF Cancelled, Fail, Busy
    <2>2. CASE UNCHANGED store
      BY <1>2, <2>2 DEF store
    <2>3. CASE ReleaseTask(t)
      <3>1. t \in Task /\ tasks' = [tasks EXCEPT ![t] = Released(tasks[t])]
        BY <1>1, <2>1, <2>3 DEF ReleaseTask, HoldsOwn
      <3>2. /\ Task' = Task /\ tasks'[t] = Released(tasks[t])
            /\ \A u \in Task : u # t => tasks'[u] = tasks[u]
        BY <1>1, <3>1, RowChanges DEF SameRows
      <3>3. QED
        BY <1>5, <3>2 DEF Moved
    <2>4. QED
      BY <2>1, <2>2, <2>3
  <1>6. ASSUME Reap PROVE Goal
    <2>1. tasks' = [t \in Task |-> IF \E c \in StaleClaims : c.task = t
                                   THEN Released(tasks[t]) ELSE tasks[t]]
      BY <1>6 DEF Reap, ReclaimStaleClaims
    <2>2. Task' = Task
      BY <2>1 DEF Task
    <2>3. \A t \in Task : \/ tasks'[t] = tasks[t]
                         \/ /\ tasks'[t] = Released(tasks[t])
                            /\ \E c \in StaleClaims : c.task = t
      BY <2>1
    <2>4. \A t \in Task : Moved(t)
      BY <1>6, <2>3 DEF Moved
    <2>5. QED
      BY <2>2, <2>4
  <1>7. ASSUME NEW role, NEW payload, AddTask(role, payload)
        PROVE  /\ Task \subseteq Task' /\ \A t \in Task : Moved(t)
               /\ \A n \in Task' \ Task : tasks'[n] = NewRow(role, payload)
               /\ \E n \in Task' \ Task : tasks'[n] = NewRow(role, payload)
    BY <1>1, <1>7, RowInserted DEF Moved
  <1>8. ASSUME NEW w \in Agent, AddNext(w)
        PROVE  Goal
    <2>1. AddTask(Head(todo[w]).role, Head(todo[w]).payload)
      BY <1>8 DEF AddNext
    <2>2. QED
      BY <1>7, <1>8, <2>1 DEF Inserted
  <1>9. ASSUME Seed \/ \E w \in Agent : NextStage(w) \/ PassBarrier(w)
        PROVE  Goal
    <2>1. \E role \in Singletons :
            /\ AddTaskIfAbsent(role, NoGoal) \/ AddTask(role, NoGoal)
            /\ role = "triager" => \E w \in Agent : pc[w] = "barrier"
      BY <1>9 DEF Seed, NextStage, PassBarrier, Singletons
    <2>2. PICK role \in Singletons :
            /\ AddTaskIfAbsent(role, NoGoal) \/ AddTask(role, NoGoal)
            /\ role = "triager" => \E w \in Agent : pc[w] = "barrier"
      BY <2>1
    <2>3. tasks' = tasks \/ AddTask(role, NoGoal)
      BY <2>2 DEF AddTaskIfAbsent, store
    <2>4. CASE AddTask(role, NoGoal)
      <3>1. \A n \in Task' \ Task : Inserted(n)
        BY <1>7, <2>2, <2>4 DEF Inserted
      <3>2. QED
        BY <1>7, <2>4, <3>1
    <2>5. QED
      BY <1>2, <2>3, <2>4
  <1>10. \A w \in Agent : AddNext(w) => \E n \in Task' \ Task :
           tasks'[n] = NewRow(Head(todo[w]).role, Head(todo[w]).payload)
    BY <1>7 DEF AddNext
  <1>11. Goal
    BY RowSteps, <1>2, <1>3, <1>4, <1>5, <1>6, <1>8, <1>9
  <1>12. QED
    BY <1>10, <1>11

\* What that means for the state of a row.
LEMMA RowStates ==
  ASSUME PipeInv, [Next]_vars, NEW t \in Task
  PROVE  /\ t \in Task' /\ tasks'[t].role = tasks[t].role
         /\ tasks'[t].payload = tasks[t].payload /\ JobOf(t)' = JobOf(t)
         /\ tasks'[t].state = "closed" /\ tasks[t].state # "closed"
              => \E w \in Agent : Complete(w) /\ cur[w].task = t
         /\ tasks'[t].state # "closed" /\ tasks[t].state = "closed"
              => \E w \in Agent : (Cancelled(w) \/ Fail(w)) /\ cur[w].task = t
  <1>1. StoreInv /\ StoreTypeOK /\ tasks[t] \in TaskRow
    BY TaskFacts DEF PipeInv, StoreInv
  <1>2. t \in Task' /\ Moved(t)
    BY RowsMove
  <1>3. \A row \in {Claimed(tasks[t]), Closed(tasks[t]), Released(tasks[t])} :
          row.role = tasks[t].role /\ row.payload = tasks[t].payload
    BY <1>1 DEF TaskRow, Claimed, Closed, Released
  <1>4. /\ Claimed(tasks[t]).state = "claimed"
        /\ Released(tasks[t]).state \in {"open", "blocked"}
    BY <1>1, RowUpdates
  <1>5. \A c \in StaleClaims : c.task = t => tasks[t].state = "claimed"
    BY DEF StaleClaims
  <1>6. tasks'[t].role = tasks[t].role /\ tasks'[t].payload = tasks[t].payload
    BY <1>2, <1>3 DEF Moved
  <1>7. JobOf(t)' = JobOf(t)
    BY <1>6 DEF JobOf
  <1>8. tasks'[t].state = "closed" /\ tasks[t].state # "closed"
          => \E w \in Agent : Complete(w) /\ cur[w].task = t
    BY <1>2, <1>4 DEF Moved
  <1>9. tasks'[t].state # "closed" /\ tasks[t].state = "closed"
          => \E w \in Agent : (Cancelled(w) \/ Fail(w)) /\ cur[w].task = t
    <2>1. Closed(tasks[t]).state = "closed"
      BY <1>1, RowUpdates
    <2>2. QED
      BY <1>2, <1>5, <2>1 DEF Moved
  <1>10. QED
    BY <1>2, <1>6, <1>7, <1>8, <1>9

----------------------------------------------------------------------------
(* What a step does to a thread. *)

Same(w) == pc'[w] = pc[w] /\ cur'[w] = cur[w] /\ todo'[w] = todo[w]

\* A thread goes on with its task.
GoesOn(w) ==
  \/ Start(w) /\ pc'[w] = "run"
  \/ (Index(w) \/ Triage(w) \/ Report(w)) /\ pc'[w] = "complete"
  \/ Detect(w) /\ pc'[w] \in {"complete", "goals"}
  \/ Complete(w) /\ pc'[w] = "advance"
  \/ AddNext(w) /\ (pc'[w] = pc[w] \/ (pc[w] = "goals" /\ pc'[w] = "complete"))
  \/ EnqueueDetectors(w) /\ pc'[w] = "enqueue"
  \/ CheckBarrier(w) /\ pc'[w] = "barrier"

\* Every step is a step of one thread or of none.
ThreadStep(w) ==
  \/ TakeTask(w) \/ Die(w) \/ Fail(w) \/ Cancelled(w)
  \/ Start(w) \/ Index(w) \/ Detect(w) \/ Triage(w) \/ Report(w)
  \/ Complete(w) \/ AddNext(w) \/ NextStage(w) \/ EnqueueDetectors(w)
  \/ CheckBarrier(w) \/ PassBarrier(w) \/ Close(w)

LEMMA StepIsOfThread ==
  ASSUME [Next]_vars
  PROVE  (\E w \in Agent : ThreadStep(w)) \/ UNCHANGED local
  <1>1. ASSUME \/ \E w \in Agent : Beat(w)
               \/ \E c \in claims : Lapse(c)
               \/ Reap \/ Stop \/ MainStep \/ MainFail
               \/ UNCHANGED vars
        PROVE  UNCHANGED local
    BY <1>1 DEF Beat, Lapse, Reap, Stop, MainStep, Seed, MainCancelled, MainRead, MainClose,
                MainFail, vars, local
  <1>2. QED
    BY <1>1 DEF Next, WorkerStep, Claim, LateClaim, ThreadStep

LEMMA OthersStand ==
  ASSUME TypeOK, NEW v \in Agent, ThreadStep(v), NEW w \in Agent, w # v
  PROVE  Same(w)
  <1>1. /\ pc \in [Agent -> {"idle", "start", "run", "goals", "complete", "advance",
                             "enqueue", "barrier", "exit", "dead"}]
        /\ cur \in [Agent -> [task : Nat, attempt : Nat]]
        /\ todo \in [Agent -> Seq(Jobs)]
    BY DEF TypeOK
  <1>2. \/ UNCHANGED pc
        \/ \E label : Goto(v, label)
    BY DEF ThreadStep, TakeTask, Die, Fail, Cancelled, Start, Index, Detect, Triage, Report,
           Complete, AddNext, NextStage, EnqueueDetectors, CheckBarrier, PassBarrier, Close,
           Rest
  <1>3. \/ UNCHANGED cur
        \/ \E task : cur' = [cur EXCEPT ![v] = task]
    BY DEF ThreadStep, TakeTask, Die, Fail, Cancelled, Start, Index, Detect, Triage, Report,
           Complete, AddNext, NextStage, EnqueueDetectors, CheckBarrier, PassBarrier, Close,
           Rest
  <1>4. \/ UNCHANGED todo
        \/ \E rows : todo' = [todo EXCEPT ![v] = rows]
    BY DEF ThreadStep, TakeTask, Die, Fail, Cancelled, Start, Index, Detect, Triage, Report,
           Complete, AddNext, NextStage, EnqueueDetectors, CheckBarrier, PassBarrier, Close,
           Rest
  <1>5. pc'[w] = pc[w]
    BY <1>1, <1>2 DEF Goto
  <1>6. cur'[w] = cur[w]
    BY <1>1, <1>3
  <1>7. todo'[w] = todo[w]
    BY <1>1, <1>4
  <1>8. QED
    BY <1>5, <1>6, <1>7 DEF Same

LEMMA ThreadMoves ==
  ASSUME PipeInv, [Next]_vars, NEW w \in Agent
  PROVE  \/ Same(w)
         \/ TakeTask(w) /\ pc'[w] = "start"
         \/ ~Busy(w)'
         \/ GoesOn(w) /\ cur'[w] = cur[w]
  <1>1. TypeOK
    BY DEF PipeInv
  <1>2. CASE UNCHANGED local
    BY <1>2 DEF local, Same
  <1>3. CASE \E v \in Agent : v # w /\ ThreadStep(v)
    BY <1>1, <1>3, OthersStand
  <1>4. CASE ThreadStep(w)
    <2>1. \A label : Goto(w, label) => pc'[w] = label
      BY <1>1 DEF TypeOK, Goto
    <2>2. Rest(w) => ~Busy(w)'
      BY <1>1, RestFacts
    <2>3. CASE TakeTask(w)
      BY <2>1, <2>3 DEF TakeTask
    <2>4. CASE Die(w)
      BY <2>1, <2>4 DEF Die, Busy
    <2>5. CASE Fail(w) \/ Cancelled(w) \/ NextStage(w) \/ PassBarrier(w) \/ Close(w)
      BY <2>2, <2>5 DEF Fail, Cancelled, NextStage, PassBarrier, Close
    <2>6. CASE Start(w)
      BY <2>1, <2>6 DEF Start, GoesOn
    <2>7. CASE Index(w) \/ Triage(w) \/ Report(w)
      BY <2>1, <2>7 DEF Index, Triage, Report, GoesOn
    <2>8. CASE Detect(w)
      <3>1. pc'[w] \in {"complete", "goals"} /\ cur'[w] = cur[w]
        BY <2>1, <2>8 DEF Detect
      <3>2. QED
        BY <2>8, <3>1 DEF GoesOn
    <2>9. CASE Complete(w)
      BY <2>1, <2>9 DEF Complete, GoesOn
    <2>10. CASE AddNext(w)
      <3>1. \/ UNCHANGED <<pc, cur>>
            \/ pc[w] = "goals" /\ Goto(w, "complete") /\ UNCHANGED cur
            \/ Rest(w)
        BY <2>10 DEF AddNext
      <3>2. QED
        BY <2>1, <2>2, <2>10, <3>1 DEF GoesOn
    <2>11. CASE EnqueueDetectors(w)
      <3>1. Rest(w) \/ (Goto(w, "enqueue") /\ UNCHANGED cur)
        BY <2>11 DEF EnqueueDetectors
      <3>2. QED
        BY <2>1, <2>2, <2>11, <3>1 DEF GoesOn
    <2>12. CASE CheckBarrier(w)
      <3>1. Rest(w) \/ (Goto(w, "barrier") /\ UNCHANGED cur)
        BY <2>12 DEF CheckBarrier
      <3>2. QED
        BY <2>1, <2>2, <2>12, <3>1 DEF GoesOn
    <2>13. QED
      BY <1>4, <2>3, <2>4, <2>5, <2>6, <2>7, <2>8, <2>9, <2>10, <2>11, <2>12 DEF ThreadStep
  <1>5. QED
    BY <1>2, <1>3, <1>4, StepIsOfThread

----------------------------------------------------------------------------
(* What a step does to the findings, the reports and the history. *)

LEMMA ResultSteps ==
  ASSUME [Next]_vars
  PROVE  /\ UNCHANGED finding \/ \E w \in Agent : Detect(w) \/ Triage(w)
         /\ UNCHANGED snapshot \/ \E w \in Agent : Start(w)
         /\ UNCHANGED reported \/ \E w \in Agent : Report(w)
         /\ UNCHANGED history \/ \E w \in Agent : Fail(w) \/ CheckBarrier(w)
  <1>1. ASSUME NEW w \in Agent,
               \/ TakeTask(w) \/ Die(w) \/ Cancelled(w) \/ Index(w)
               \/ Complete(w) \/ AddNext(w) \/ NextStage(w) \/ EnqueueDetectors(w)
               \/ PassBarrier(w) \/ Close(w) \/ Beat(w)
        PROVE  UNCHANGED <<finding, snapshot, reported, history>>
    BY <1>1 DEF TakeTask, Die, Cancelled, Index, Complete, AddNext, NextStage,
                EnqueueDetectors, PassBarrier, Close, Beat, results
  <1>2. ASSUME \/ \E c \in claims : Lapse(c)
               \/ Reap \/ Stop \/ MainStep \/ MainFail \/ UNCHANGED vars
        PROVE  UNCHANGED <<finding, snapshot, reported, history>>
    BY <1>2 DEF Lapse, Reap, Stop, MainStep, Seed, MainCancelled, MainRead, MainClose,
                MainFail, results, vars
  <1>3. ASSUME NEW w \in Agent, Detect(w)
        PROVE  UNCHANGED <<snapshot, reported, history>>
    BY <1>3 DEF Detect
  <1>4. ASSUME NEW w \in Agent, Triage(w)
        PROVE  UNCHANGED <<snapshot, reported, history>>
    BY <1>4 DEF Triage
  <1>5. ASSUME NEW w \in Agent, Start(w)
        PROVE  UNCHANGED <<finding, reported, history>>
    BY <1>5 DEF Start
  <1>6. ASSUME NEW w \in Agent, Report(w)
        PROVE  UNCHANGED <<finding, snapshot, history>>
    BY <1>6 DEF Report
  <1>7. ASSUME NEW w \in Agent, Fail(w) \/ CheckBarrier(w)
        PROVE  UNCHANGED <<finding, snapshot, reported>>
    BY <1>7 DEF Fail, CheckBarrier, results
  <1>8. QED
    BY <1>1, <1>2, <1>3, <1>4, <1>5, <1>6, <1>7
    DEF Next, WorkerStep, Claim, LateClaim

\* The job a thread is on.
Job(w) == JobOf(cur[w].task)

\* A finding changes when its job runs, or gets a verdict.
LEMMA FindingMoves ==
  ASSUME PipeInv, [Next]_vars, NEW j \in Jobs
  PROVE  /\ finding[j] # "none" => finding'[j] # "none"
         /\ \/ finding'[j] = finding[j]
            \/ finding'[j] = "judged"
            \/ \E w \in Agent : /\ Detect(w) /\ Job(w) = j
                                /\ finding[j] = "judged" => j.role \in ModelBased
  <1>1. finding \in [Jobs -> {"none", "candidate", "judged"}]
    BY DEF PipeInv, TypeOK
  <1>2. CASE UNCHANGED finding
    BY <1>2
  <1>3. ASSUME NEW w \in Agent, Detect(w)
        PROVE  /\ finding[j] # "none" => finding'[j] # "none"
               /\ \/ finding'[j] = finding[j]
                  \/ finding'[j] = "judged"
                  \/ Job(w) = j /\ (finding[j] = "judged" => j.role \in ModelBased)
    <2>1. PICK f \in {"candidate", "judged"} :
            /\ f = "judged" => finding[Job(w)] = "judged"
            /\ finding[Job(w)] = "judged" /\ f = "candidate" => Job(w).role \in ModelBased
            /\ finding' = [finding EXCEPT ![Job(w)] = f]
      BY <1>3 DEF Detect, Job
    <2>2. finding'[j] = IF j = Job(w) THEN f ELSE finding[j]
      BY <1>1, <2>1
    <2>3. QED
      BY <2>1, <2>2
  <1>4. ASSUME NEW w \in Agent, Triage(w)
        PROVE  finding'[j] = finding[j] \/ finding'[j] = "judged"
    BY <1>4 DEF Triage
  <1>5. QED
    BY <1>2, <1>3, <1>4, ResultSteps

\* What has run has a finding, and nobody reports or lists but the stages' threads.
LEMMA ResultMoves ==
  ASSUME PipeInv, [Next]_vars
  PROVE  /\ \A w \in Agent : Detect(w) /\ Job(w) \in Jobs => finding'[Job(w)] # "none"
         /\ \A w \in Agent : Triage(w) =>
              /\ w = "triager"
              /\ \A j \in Jobs : finding'[j] = IF j \in snapshot THEN "judged" ELSE finding[j]
         /\ \/ snapshot' = snapshot
            \/ Start("triager") /\ snapshot' = JobsIn("candidate")
         /\ \/ reported' = reported
            \/ Report("reporter") /\ reported' = JobsIn("judged")
         /\ \A w \in Agent : Report(w) => w = "reporter" /\ reported' = JobsIn("judged")
         /\ \A w \in Agent : Start(w) /\ RoleOf(w) = "triager" => snapshot' = JobsIn("candidate")
  <1>1. /\ finding \in [Jobs -> {"none", "candidate", "judged"}]
        /\ HoldsOwn
    BY DEF PipeInv, TypeOK, StageInv
  <1>2. ASSUME NEW w \in Agent, Busy(w), RoleOf(w) \in {"triager", "reporter"}
        PROVE  w = RoleOf(w)
    BY <1>1, <1>2, Threads DEF HoldsOwn, Detectors, Singletons
  <1>3. ASSUME NEW w \in Agent, Detect(w), Job(w) \in Jobs
        PROVE  finding'[Job(w)] # "none"
    <2>1. PICK f \in {"candidate", "judged"} : finding' = [finding EXCEPT ![Job(w)] = f]
      BY <1>3 DEF Detect, Job
    <2>2. QED
      BY <1>1, <1>3, <2>1
  <1>4. ASSUME NEW w \in Agent, Triage(w)
        PROVE  /\ w = "triager"
               /\ \A j \in Jobs : finding'[j] = IF j \in snapshot THEN "judged" ELSE finding[j]
    BY <1>2, <1>4 DEF Triage, Busy
  <1>5. ASSUME NEW w \in Agent, Start(w)
        PROVE  /\ snapshot' = snapshot \/ (w = "triager" /\ snapshot' = JobsIn("candidate"))
               /\ RoleOf(w) = "triager" => snapshot' = JobsIn("candidate")
    BY <1>2, <1>5 DEF Start, Busy
  <1>6. ASSUME NEW w \in Agent, Report(w)
        PROVE  w = "reporter" /\ reported' = JobsIn("judged")
    BY <1>2, <1>6 DEF Report, Busy
  <1>7. QED
    BY <1>3, <1>4, <1>5, <1>6, ResultSteps

Calm == faults = 0 /\ lapses = 0

\* Neither exceptions nor lapses nor an early barrier are forgotten.
LEMMA HistoryMoves ==
  ASSUME PipeInv, [Next]_vars
  PROVE  /\ faults' >= faults /\ lapses' >= lapses
         /\ Calm' => Calm
         /\ early => early'
         /\ \A w \in Agent : Fail(w) => faults' > 0
  <1>1. faults \in Nat /\ lapses \in Nat
    BY PipelineAssumption DEF PipeInv, TypeOK, PipelineAssumption
  <1>2. ASSUME NEW w \in Agent, Fail(w) PROVE faults' = faults + 1 /\ lapses' = lapses
    BY <1>2 DEF Fail
  <1>3. ASSUME NEW w \in Agent, ThreadStep(w), ~Fail(w)
        PROVE  faults' = faults /\ lapses' = lapses
    BY <1>3 DEF ThreadStep, TakeTask, Die, Cancelled, Start, Index, Detect, Triage, Report,
                Complete, AddNext, NextStage, EnqueueDetectors, CheckBarrier, PassBarrier,
                Close, budget
  <1>4. \/ faults' = faults /\ lapses' = lapses
        \/ faults' = faults + 1 /\ lapses' = lapses
        \/ faults' = faults /\ lapses' = lapses + 1
    <2>1. ASSUME \/ \E w \in Agent : Beat(w)
                 \/ Reap \/ Stop \/ MainStep \/ UNCHANGED vars
          PROVE  faults' = faults /\ lapses' = lapses
      BY <2>1 DEF Beat, Reap, Stop, MainStep, Seed, MainCancelled, MainRead, MainClose,
                  vars, budget
    <2>2. ASSUME (\E c \in claims : Lapse(c)) \/ MainFail
          PROVE  \/ faults' = faults /\ lapses' = lapses
                 \/ faults' = faults + 1 /\ lapses' = lapses
                 \/ faults' = faults /\ lapses' = lapses + 1
      BY <2>2 DEF Lapse, MainFail
    <2>3. QED
      BY <1>2, <1>3, <2>1, <2>2 DEF Next, WorkerStep, Claim, LateClaim, ThreadStep
  <1>5. early => early'
    <2>1. ASSUME NEW w \in Agent, Fail(w) \/ CheckBarrier(w)
          PROVE  early => early'
      BY <2>1 DEF Fail, CheckBarrier, history
    <2>2. UNCHANGED history => (early => early')
      BY DEF history
    <2>3. QED
      BY <2>1, <2>2, ResultSteps
  <1>6. faults' >= faults /\ lapses' >= lapses
    BY <1>1, <1>4
  <1>7. Calm' => Calm
    BY <1>1, <1>4 DEF Calm
  <1>8. QED
    BY <1>1, <1>2, <1>5, <1>6, <1>7

----------------------------------------------------------------------------
(* What is closed has run. *)

HasRow(job) == \E t \in Task : JobOf(t) = job

RowsAreJobs == \A t \in Task : tasks[t].role \in Detectors => JobOf(t) \in Jobs

\* A detector's task is closed, or past its handler, only with a finding.
HasRun(w) ==
  pc[w] \in {"goals", "complete", "advance", "barrier"} /\ RoleOf(w) \in Detectors
    => finding[Job(w)] # "none"

ClosedHaveRun ==
  /\ \A t \in Task : tasks[t].role \in Detectors /\ tasks[t].state = "closed"
       => finding[JobOf(t)] # "none"
  /\ \A w \in Agent : HasRun(w)

\* The goals of the SCA job are enqueued before it is completed.
GoalsOf(w) ==
  /\ pc[w] = "goals" =>
       /\ RoleOf(w) = "detector.sca"
       /\ \A job \in ItemsOf(ScaRows) : HasRow(job) \/ job \in ItemsOf(todo[w])
  /\ pc[w] \in {"complete", "advance", "barrier"} /\ RoleOf(w) = "detector.sca"
       => Enqueued(ScaRows)

GoalsFirst ==
  /\ \A t \in Task : tasks[t].role = "detector.sca" /\ tasks[t].state = "closed"
       => Enqueued(ScaRows)
  /\ \A w \in Agent : GoalsOf(w)

\* Every row of a detector is there after the secrets row.
SecretsFirst == (\E t \in Task : tasks[t].role \in Detectors) => RoleEnqueued(Secrets)

JobInv == RowsAreJobs /\ ClosedHaveRun /\ GoalsFirst /\ SecretsFirst

LEMMA JobsAreRows == \A job \in Jobs : job = Row(job.role, job.payload)
  <1> DEFINE R == [role : Detectors, payload : Payload]
  <1>1. SeedRows \in Seq(R) /\ ScaRows \in Seq(R)
    BY SeedRowsFacts, ScaRowsFacts
  <1>2. \A S : \A seq \in Seq(S) : \A i \in DOMAIN seq : seq[i] \in S
    BY LenProperties, ElementOfSeq
  <1> HIDE DEF R
  <1>3. Jobs \subseteq R
    BY <1>1, <1>2 DEF Jobs, ItemsOf
  <1>4. QED
    BY <1>3 DEF R, Row

LEMMA HeadOrTail ==
  ASSUME NEW S, NEW seq \in Seq(S), seq # << >>
  PROVE  /\ Head(seq) \in S
         /\ Head(seq) = seq[1] /\ 1 \in DOMAIN seq
         /\ \A x \in ItemsOf(seq) : x = Head(seq) \/ x \in ItemsOf(Tail(seq))
         /\ ~(Len(seq) > 1) => \A x \in ItemsOf(seq) : x = Head(seq)
  <1>1. /\ Len(seq) \in Nat /\ 1 <= Len(seq) /\ DOMAIN seq = 1..Len(seq)
        /\ Head(seq) = seq[1] /\ Head(seq) \in S
        /\ DOMAIN Tail(seq) = 1..(Len(seq) - 1)
        /\ \A i \in 1..(Len(seq) - 1) : Tail(seq)[i] = seq[i + 1]
    <2>1. /\ Tail(seq) \in Seq(S) /\ Len(Tail(seq)) = Len(seq) - 1
          /\ \A i \in 1..Len(Tail(seq)) : Tail(seq)[i] = seq[i + 1]
          /\ Head(seq) \in S
      BY HeadTailProperties
    <2>2. Len(seq) \in Nat \ {0} /\ DOMAIN seq = 1..Len(seq)
      BY EmptySeq, LenProperties
    <2>3. DOMAIN Tail(seq) = 1..Len(Tail(seq))
      BY <2>1, LenProperties
    <2>4. Head(seq) = seq[1]
      OBVIOUS
    <2>5. QED
      BY <2>1, <2>2, <2>3, <2>4
  <1>2. ASSUME NEW i \in DOMAIN seq, i # 1
        PROVE  seq[i] \in ItemsOf(Tail(seq))
    <2>1. i - 1 \in DOMAIN Tail(seq) /\ Tail(seq)[i - 1] = seq[i]
      BY <1>1, <1>2
    <2>2. QED
      BY <2>1 DEF ItemsOf
  <1>3. ~(Len(seq) > 1) => \A i \in DOMAIN seq : i = 1
    BY <1>1
  <1>4. QED
    BY <1>1, <1>2, <1>3 DEF ItemsOf

\* What is enqueued stays.
LEMMA RowsStay ==
  ASSUME PipeInv, [Next]_vars
  PROVE  /\ \A job : HasRow(job) => HasRow(job)'
         /\ \A role : RoleEnqueued(role) => RoleEnqueued(role)'
         /\ \A w \in Agent : AddNext(w) =>
              \E job \in Jobs : job = Head(todo[w]) /\ HasRow(job)'
  <1>1. \A job : HasRow(job) => HasRow(job)'
    <2> SUFFICES ASSUME NEW job, NEW t \in Task, JobOf(t) = job
                 PROVE  HasRow(job)'
      BY DEF HasRow
    <2>1. t \in Task' /\ JobOf(t)' = job
      BY RowStates
    <2>2. QED
      BY <2>1 DEF HasRow
  <1>2. \A role : RoleEnqueued(role) => RoleEnqueued(role)'
    BY RowStates DEF RoleEnqueued
  <1>3. ASSUME NEW w \in Agent, AddNext(w)
        PROVE  \E job \in Jobs : job = Head(todo[w]) /\ HasRow(job)'
    <2>1. todo[w] \in Seq(Jobs) /\ todo[w] # << >>
      BY <1>3 DEF PipeInv, StageInv, TypeOK, LoopOf, ToCome, AddNext
    <2>2. PICK job \in Jobs : job = Head(todo[w])
      BY <2>1, HeadOrTail
    <2>3. PICK n \in Task' \ Task : tasks'[n] = NewRow(job.role, job.payload)
      BY <1>3, <2>2, RowsMove
    <2>4. JobOf(n)' = job
      BY <2>3, JobsAreRows DEF JobOf, NewRow, Row
    <2>5. HasRow(job)'
      BY <2>3, <2>4 DEF HasRow
    <2>6. QED
      BY <2>2, <2>5
  <1>4. QED
    BY <1>1, <1>2, <1>3

LEMMA EnqueuedStays ==
  ASSUME PipeInv, [Next]_vars, NEW rows, Enqueued(rows)
  PROVE  \A i \in DOMAIN rows : HasRow(rows[i])'
  BY RowsStay DEF Enqueued, HasRow

\* A new row is open and, if it is a detector's, from an enqueue loop.
LEMMA NewRows ==
  ASSUME PipeInv, [Next]_vars, NEW n \in Task' \ Task
  PROVE  /\ tasks'[n].state = "open" /\ tasks'[n].releases = 0
         /\ tasks'[n].role = "triager" => \E w \in Agent : pc[w] = "barrier"
         /\ tasks'[n].role \in Detectors =>
              \E w \in Agent : AddNext(w) /\ JobOf(n)' = Head(todo[w])
  <1>1. Inserted(n)
    BY RowsMove
  <1>2. CASE \E w \in Agent :
               AddNext(w) /\ tasks'[n] = NewRow(Head(todo[w]).role, Head(todo[w]).payload)
    <2>1. PICK w \in Agent :
            AddNext(w) /\ tasks'[n] = NewRow(Head(todo[w]).role, Head(todo[w]).payload)
      BY <1>2
    <2>2. PICK job \in Jobs : job = Head(todo[w])
      BY <2>1, RowsStay
    <2>3. job.role \in Detectors /\ job = Row(job.role, job.payload)
      BY JobFacts, JobsAreRows
    <2>4. JobOf(n)' = job
      BY <2>1, <2>2, <2>3 DEF JobOf, NewRow, Row
    <2>5. QED
      BY <2>1, <2>2, <2>3, <2>4 DEF NewRow, Detectors
  <1>3. CASE \E role \in Singletons :
               /\ tasks'[n] = NewRow(role, NoGoal)
               /\ role = "triager" => \E w \in Agent : pc[w] = "barrier"
    BY <1>3, Threads DEF NewRow
  <1>4. QED
    BY <1>1, <1>2, <1>3 DEF Inserted

\* What a thread that goes on with a detector's task has behind it.
LEMMA DetectorMoves ==
  ASSUME PipeInv, [Next]_vars, NEW w \in Agent, Busy(w)', ~TakeTask(w)
  PROVE  /\ Busy(w) /\ cur'[w] = cur[w] /\ cur[w].task \in Task
         /\ RoleOf(w)' = RoleOf(w) /\ Job(w)' = Job(w)
         /\ Same(w) \/ GoesOn(w)
  <1>1. (Same(w) \/ GoesOn(w)) /\ cur'[w] = cur[w]
    BY ThreadMoves DEF Same
  <1>2. Busy(w)
    BY <1>1 DEF Same, GoesOn, Start, Index, Triage, Report, Detect, Complete, AddNext,
                EnqueueDetectors, CheckBarrier, Busy
  <1>3. cur[w].task \in Task
    BY <1>2 DEF PipeInv, StageInv, HoldsOwn
  <1>4. PICK t \in Task : t = cur[w].task
    BY <1>3
  <1>5. JobOf(t)' = JobOf(t) /\ tasks'[t].role = tasks[t].role
    BY RowStates
  <1>6. RoleOf(w)' = RoleOf(w)
    BY <1>1, <1>4, <1>5 DEF RoleOf
  <1>7. Job(w)' = Job(w)
    BY <1>1, <1>4, <1>5 DEF Job, JobOf
  <1>8. QED
    BY <1>1, <1>2, <1>3, <1>6, <1>7

LEMMA RowsAreJobsStays ==
  ASSUME PipeInv, [Next]_vars, RowsAreJobs
  PROVE  RowsAreJobs'
  <1> SUFFICES ASSUME NEW t \in Task', tasks'[t].role \in Detectors
               PROVE  JobOf(t)' \in Jobs
    BY DEF RowsAreJobs
  <1>1. CASE t \in Task
    BY <1>1, RowStates DEF RowsAreJobs
  <1>2. CASE t \notin Task
    BY <1>2, NewRows, RowsStay
  <1>3. QED
    BY <1>1, <1>2

LEMMA HasRunStays ==
  ASSUME PipeInv, [Next]_vars, RowsAreJobs, NEW w \in Agent, HasRun(w)
  PROVE  HasRun(w)'
  <1> SUFFICES ASSUME pc'[w] \in {"goals", "complete", "advance", "barrier"},
                      RoleOf(w)' \in Detectors
               PROVE  finding'[Job(w)'] # "none"
    BY DEF HasRun
  <1>1. Busy(w)' /\ ~TakeTask(w)
    <2>1. TakeTask(w) => pc'[w] = "start"
      BY DEF TakeTask, Goto, PipeInv, TypeOK
    <2>2. QED
      BY <2>1 DEF Busy
  <1>2. /\ RoleOf(w) \in Detectors /\ Job(w)' = Job(w) /\ cur[w].task \in Task
        /\ Same(w) \/ GoesOn(w)
    BY <1>1, DetectorMoves
  <1>3. PICK job \in Jobs : job = Job(w)
    BY <1>2 DEF RowsAreJobs, RoleOf, Job
  <1>4. CASE Detect(w)
    BY <1>2, <1>3, <1>4, ResultMoves
  <1>5. CASE ~Detect(w)
    <2>1. pc[w] \in {"goals", "complete", "advance", "barrier"}
      BY <1>2, <1>5, Threads
      DEF Same, GoesOn, Index, Triage, Report, Complete, AddNext, EnqueueDetectors,
          CheckBarrier, Singletons
    <2>2. finding[job] # "none"
      BY <1>2, <1>3, <2>1 DEF HasRun
    <2>3. QED
      BY <1>2, <1>3, <2>2, FindingMoves
  <1>6. QED
    BY <1>4, <1>5

LEMMA ClosedHaveRunStays ==
  ASSUME PipeInv, [Next]_vars, RowsAreJobs, ClosedHaveRun
  PROVE  ClosedHaveRun'
  <1>1. \A w \in Agent : HasRun(w)'
    BY HasRunStays DEF ClosedHaveRun
  <1>2. ASSUME NEW t \in Task', tasks'[t].role \in Detectors, tasks'[t].state = "closed"
        PROVE  finding'[JobOf(t)'] # "none"
    <2>1. t \in Task
      BY <1>2, NewRows
    <2>2. tasks[t].role \in Detectors /\ JobOf(t)' = JobOf(t)
      BY <1>2, <2>1, RowStates
    <2>3. PICK job \in Jobs : job = JobOf(t)
      BY <2>1, <2>2 DEF RowsAreJobs
    <2>4. finding[job] # "none"
      <3>1. CASE tasks[t].state = "closed"
        BY <2>1, <2>2, <2>3, <3>1 DEF ClosedHaveRun
      <3>2. CASE tasks[t].state # "closed"
        <4>1. PICK w \in Agent : Complete(w) /\ cur[w].task = t
          BY <1>2, <2>1, <3>2, RowStates
        <4>2. QED
          BY <2>2, <2>3, <4>1 DEF ClosedHaveRun, HasRun, Complete, RoleOf, Job
      <3>3. QED
        BY <3>1, <3>2
    <2>5. QED
      BY <2>2, <2>3, <2>4, FindingMoves
  <1>3. QED
    BY <1>1, <1>2 DEF ClosedHaveRun

LEMMA ScaRowsStay ==
  ASSUME PipeInv, [Next]_vars
  PROVE  /\ Enqueued(ScaRows) => Enqueued(ScaRows)'
         /\ Enqueued(SeedRows) => Enqueued(SeedRows)'
  BY RowsStay DEF Enqueued, HasRow

\* Every goal of the SCA job is there or to come.
LEMMA GoalsOfStays ==
  ASSUME PipeInv, [Next]_vars, NEW w \in Agent, GoalsOf(w)
  PROVE  GoalsOf(w)'
  <1> SUFFICES ASSUME pc'[w] \in {"goals", "complete", "advance", "barrier"}
               PROVE  GoalsOf(w)'
    BY DEF GoalsOf
  <1>1. Busy(w)' /\ ~TakeTask(w)
    <2>1. TakeTask(w) => pc'[w] = "start"
      BY DEF TakeTask, Goto, PipeInv, TypeOK
    <2>2. QED
      BY <2>1 DEF Busy
  <1>2. RoleOf(w)' = RoleOf(w) /\ (Same(w) \/ GoesOn(w))
    BY <1>1, DetectorMoves
  <1>3. \A job : HasRow(job) => HasRow(job)'
    BY RowsStay
  <1>4. CASE Same(w)
    BY <1>2, <1>3, <1>4, ScaRowsStay DEF GoalsOf, Same
  <1>5. CASE Detect(w)
    <2>1. pc'[w] \in {"complete", "goals"}
      BY <1>2, <1>5 DEF Same, GoesOn, Detect, Start, Index, Triage, Report, Complete, AddNext,
                        EnqueueDetectors, CheckBarrier, Detectors
    <2>2. todo'[w] = IF RoleOf(w) = "detector.sca" THEN ScaRows ELSE << >>
      BY <1>5 DEF Detect, PipeInv, TypeOK, RoleOf, JobOf, Row
    <2>3. pc'[w] = IF todo'[w] = << >> THEN "complete" ELSE "goals"
      BY <1>5, <2>2 DEF Detect, Goto, PipeInv, TypeOK, RoleOf, JobOf, Row
    <2>4. ScaRows = << >> => Enqueued(ScaRows)'
      BY EmptySeq DEF Enqueued
    <2>5. QED
      BY <1>2, <2>1, <2>2, <2>3, <2>4 DEF GoalsOf
  <1>6. CASE AddNext(w) /\ pc[w] = "goals"
    <2>1. todo[w] \in Seq(Jobs) /\ todo[w] # << >>
      BY <1>6 DEF PipeInv, StageInv, TypeOK, LoopOf
    <2>2. PICK job \in Jobs : job = Head(todo[w]) /\ HasRow(job)'
      BY <1>6, RowsStay
    <2>3. todo'[w] = Tail(todo[w])
      BY <1>6 DEF AddNext, PipeInv, TypeOK
    <2>4. /\ RoleOf(w) = "detector.sca"
          /\ \A x \in ItemsOf(ScaRows) : HasRow(x) \/ x \in ItemsOf(todo[w])
      BY <1>6 DEF GoalsOf
    <2>5. \A x \in ItemsOf(ScaRows) : HasRow(x)' \/ x \in ItemsOf(Tail(todo[w]))
      BY <1>3, <2>1, <2>2, <2>4, HeadOrTail
    <2>6. CASE Len(todo[w]) > 1
      <3>1. pc'[w] = "goals"
        BY <1>6, <2>6 DEF AddNext
      <3>2. QED
        BY <1>2, <2>3, <2>4, <2>5, <3>1 DEF GoalsOf
    <2>7. CASE ~(Len(todo[w]) > 1)
      <3>1. pc'[w] = "complete"
        BY <1>6, <2>7 DEF AddNext, Goto, PipeInv, TypeOK
      <3>2. \A x \in ItemsOf(ScaRows) : HasRow(x)'
        BY <1>3, <2>1, <2>2, <2>4, <2>7, HeadOrTail
      <3>3. Enqueued(ScaRows)'
        BY <3>2 DEF Enqueued, HasRow, ItemsOf
      <3>4. QED
        BY <3>1, <3>3 DEF GoalsOf
    <2>8. QED
      BY <2>6, <2>7
  <1>7. CASE \/ Complete(w) \/ CheckBarrier(w)
             \/ Index(w) \/ Triage(w) \/ Report(w)
    <2>1. \/ RoleOf(w) # "detector.sca"
          \/ pc[w] \in {"complete", "advance"}
      BY <1>7 DEF Complete, CheckBarrier, Index, Triage, Report
    <2>2. pc'[w] # "goals"
      BY <1>7 DEF Complete, CheckBarrier, Index, Triage, Report, Goto, Rest, PipeInv, TypeOK
    <2>3. QED
      BY <1>2, <2>1, <2>2, ScaRowsStay DEF GoalsOf
  <1>8. QED
    BY <1>2, <1>4, <1>5, <1>6, <1>7 DEF GoesOn, AddNext

LEMMA GoalsFirstStays ==
  ASSUME PipeInv, [Next]_vars, GoalsFirst
  PROVE  GoalsFirst'
  <1>1. \A w \in Agent : GoalsOf(w)'
    BY GoalsOfStays DEF GoalsFirst
  <1>2. ASSUME NEW t \in Task', tasks'[t].role = "detector.sca", tasks'[t].state = "closed"
        PROVE  Enqueued(ScaRows)'
    <2>1. t \in Task
      BY <1>2, NewRows
    <2>2. tasks[t].role = "detector.sca"
      BY <1>2, <2>1, RowStates
    <2>3. CASE tasks[t].state = "closed"
      BY <2>1, <2>2, <2>3, ScaRowsStay DEF GoalsFirst
    <2>4. CASE tasks[t].state # "closed"
      <3>1. PICK w \in Agent : Complete(w) /\ cur[w].task = t
        BY <1>2, <2>1, <2>4, RowStates
      <3>2. QED
        BY <2>2, <3>1, ScaRowsStay DEF GoalsFirst, GoalsOf, Complete, RoleOf
    <2>5. QED
      BY <2>3, <2>4
  <1>3. QED
    BY <1>1, <1>2 DEF GoalsFirst

LEMMA SecretsFirstStays ==
  ASSUME PipeInv, [Next]_vars, SecretsFirst, GoalsFirst
  PROVE  SecretsFirst'
  <1> SUFFICES ASSUME NEW t \in Task', tasks'[t].role \in Detectors
               PROVE  RoleEnqueued(Secrets)'
    BY DEF SecretsFirst
  <1>1. CASE t \in Task
    BY <1>1, RowStates, RowsStay DEF SecretsFirst
  <1>2. CASE t \notin Task
    <2>1. PICK w \in Agent : AddNext(w) /\ JobOf(t)' = Head(todo[w])
      BY <1>2, NewRows
    <2>2. CASE pc[w] = "goals"
      <3>1. cur[w].task \in Task /\ RoleOf(w) = "detector.sca"
        BY <2>2 DEF GoalsFirst, GoalsOf, PipeInv, StageInv, HoldsOwn, Busy
      <3>2. QED
        BY <3>1, RowsStay DEF SecretsFirst, RoleOf, Detectors
    <2>3. CASE pc[w] = "enqueue"
      <3>1. todo[w] \in Seq(Jobs) /\ ToCome(todo[w])
        BY <2>3 DEF PipeInv, StageInv, TypeOK, LoopOf
      <3>2. CASE RoleEnqueued(Secrets)
        BY <3>2, RowsStay
      <3>3. CASE todo[w][1].role = Secrets
        <4>1. PICK job \in Jobs : job = Head(todo[w]) /\ HasRow(job)'
          BY <2>1, RowsStay
        <4>2. job.role = Secrets
          BY <3>1, <3>3, <4>1, HeadOrTail DEF ToCome
        <4>3. QED
          BY <4>1, <4>2 DEF HasRow, JobOf, Row, RoleEnqueued
      <3>4. QED
        BY <3>1, <3>2, <3>3 DEF ToCome
    <2>4. QED
      BY <2>1, <2>2, <2>3 DEF AddNext
  <1>3. QED
    BY <1>1, <1>2

LEMMA JobInvStays == PipeInv /\ JobInv /\ [Next]_vars => JobInv'
  BY RowsAreJobsStays, ClosedHaveRunStays, GoalsFirstStays, SecretsFirstStays DEF JobInv

LEMMA InitJobInv == Init => JobInv
  <1> SUFFICES ASSUME Init PROVE JobInv
    OBVIOUS
  <1>1. Task = {}
    BY DEF Init, StoreInit, Task
  <1>2. \A w \in Agent : pc[w] = "idle"
    BY DEF Init
  <1>3. QED
    BY <1>1, <1>2 DEF JobInv, RowsAreJobs, ClosedHaveRun, HasRun, GoalsFirst, GoalsOf,
                      SecretsFirst

----------------------------------------------------------------------------
(* Behind the barrier. *)

\* The triager is there, or a thread is about to insert it.
Barred == RoleEnqueued("triager") \/ \E w \in Agent : pc[w] = "barrier"

DetectorsClosed == \A t \in Task : tasks[t].role \in Detectors => tasks[t].state = "closed"

\* All rows are in and none is to come.
AllSeeded ==
  Enqueued(SeedRows) /\ Enqueued(ScaRows) /\ pc["cartographer"] # "enqueue"

\* The jobs whose findings wait behind the barrier for good: the secrets job,
\* and without the exceptions of BarrierHolds and DoneMeansReported all others.
Sure == {j \in Jobs : \/ j.role = Secrets
                      \/ ~early /\ (j.role \notin ModelBased \/ Calm)}

BehindBarrier ==
  Barred => /\ \A j \in Sure : finding[j] # "none"
            /\ ~early => AllSeeded /\ (Calm => DetectorsClosed)

LEMMA ClosedMeansComplete ==
  ASSUME StoreTypeOK
  PROVE  DetectorsClosed <=> ~HasIncompleteTasks(Detectors)
  <1>1. \A t \in Task : tasks[t].state \in {"open", "claimed", "closed", "blocked"}
    BY TaskFacts DEF TaskRow
  <1>2. QED
    BY <1>1 DEF DetectorsClosed, HasIncompleteTasks

\* The secrets job is the first of the seeds, and the SCA job is among them.
LEMMA SeedJobs ==
  /\ \E j \in Jobs : j.role = Secrets
  /\ \A j, k \in Jobs : j.role = Secrets /\ k.role = Secrets => j = k
  /\ Enqueued(SeedRows) => RoleEnqueued(Secrets) /\ RoleEnqueued("detector.sca")
  /\ \A j \in Jobs : Enqueued(SeedRows) /\ Enqueued(ScaRows) => HasRow(j)
  <1>1. \A seq \in Seq(Jobs) : seq # << >> => 1 \in DOMAIN seq
    BY HeadOrTail
  <1>2. 1 \in DOMAIN SeedRows /\ SeedRows[1].role = Secrets
    BY <1>1, SeedRowsFacts, JobFacts
  <1>3. SeedRows[1] \in Jobs
    BY <1>2 DEF Jobs, ItemsOf
  <1>4. ASSUME NEW j \in Jobs, j.role = Secrets
        PROVE  j = SeedRows[1]
    <2>1. PICK i \in DOMAIN SeedRows : j = SeedRows[i]
      BY <1>4, ScaRowsFacts, Threads DEF Jobs, ItemsOf
    <2>2. QED
      BY <1>2, <1>4, <2>1, SeedRowsFacts, Threads
  <1>5. \E i \in DOMAIN SeedRows : SeedRows[i].role = "detector.sca"
    BY SeedRowsFacts
  <1>6. Enqueued(SeedRows) => RoleEnqueued(Secrets) /\ RoleEnqueued("detector.sca")
    BY <1>2, <1>5 DEF Enqueued, RoleEnqueued, JobOf, Row
  <1>7. \A j \in Jobs : Enqueued(SeedRows) /\ Enqueued(ScaRows) => HasRow(j)
    BY DEF Enqueued, HasRow, Jobs, ItemsOf
  <1>8. QED
    BY <1>2, <1>3, <1>4, <1>6, <1>7

\* With all detector rows closed, every job that has a row has a finding.
LEMMA ClosedMeansRun ==
  ASSUME JobInv, DetectorsClosed, NEW j \in Jobs, HasRow(j)
  PROVE  finding[j] # "none"
  <1>1. PICK t \in Task : JobOf(t) = j
    BY DEF HasRow
  <1>2. tasks[t].role \in Detectors
    BY <1>1, JobFacts DEF JobOf, Row
  <1>3. QED
    BY <1>1, <1>2 DEF JobInv, ClosedHaveRun, DetectorsClosed

\* While no thread has lost its claim, no task of a detector that is done is
\* opened again, and none is added but by _enqueue_detectors.
LEMMA DetectorsStayClosed ==
  ASSUME PipeInv, JobInv, WorkIsClaimed, [Next]_vars, DetectorsClosed,
         lapses = 0, ~(faults' > 0), pc["cartographer"] # "enqueue"
  PROVE  DetectorsClosed'
  <1>1. \A w \in Agent : AtWork(w) => RoleOf(w) \notin Detectors
    BY DEF WorkIsClaimed, DetectorsClosed, PipeInv, StageInv, HoldsOwn, AtWork, Busy, RoleOf
  <1>2. ASSUME NEW t \in Task, tasks[t].role \in Detectors
        PROVE  tasks'[t].state = "closed"
    <2>1. tasks[t].state = "closed"
      BY <1>2 DEF DetectorsClosed
    <2>2. ASSUME NEW w \in Agent, Fail(w) PROVE FALSE
      BY <2>2, HistoryMoves
    <2>3. ASSUME NEW w \in Agent, Cancelled(w), cur[w].task = t PROVE FALSE
      BY <1>1, <1>2, <2>3 DEF Cancelled, AtWork, RoleOf
    <2>4. QED
      BY <2>1, <2>2, <2>3, RowStates
  <1>3. ASSUME NEW n \in Task' \ Task, tasks'[n].role \in Detectors
        PROVE  FALSE
    <2>1. PICK w \in Agent : AddNext(w)
      BY <1>3, NewRows
    <2>2. pc[w] = "goals" => RoleOf(w) = "detector.sca"
      BY DEF JobInv, GoalsFirst, GoalsOf
    <2>3. pc[w] = "enqueue" => w = "cartographer"
      BY DEF PipeInv, StageInv, LoopOf
    <2>4. QED
      BY <1>1, <2>1, <2>2, <2>3 DEF AddNext, AtWork, Detectors
  <1>4. QED
    BY <1>2, <1>3, RowStates DEF DetectorsClosed

\* The cartographer does not begin again once the secrets row is there.
LEMMA NoSecondEnqueue ==
  ASSUME PipeInv, [Next]_vars, RoleEnqueued(Secrets), pc["cartographer"] # "enqueue"
  PROVE  pc'["cartographer"] # "enqueue"
  <1> DEFINE w == "cartographer"
  <1> SUFFICES ASSUME pc'[w] = "enqueue" PROVE FALSE
    OBVIOUS
  <1>1. w \in Agent
    BY Threads DEF Singletons
  <1>2. ~EnqueueDetectors(w) \/ Rest(w)
    BY DEF EnqueueDetectors, Secrets
  <1>3. ~Rest(w)
    BY <1>1, RestFacts DEF PipeInv, TypeOK, Busy
  <1>4. QED
    BY <1>1, <1>2, <1>3, ThreadMoves DEF Same, GoesOn, Busy

LEMMA SureShrinks ==
  ASSUME PipeInv, [Next]_vars
  PROVE  Sure' \subseteq Sure
  BY HistoryMoves DEF Sure

LEMMA FoundStays ==
  ASSUME PipeInv, [Next]_vars, \A j \in Sure : finding[j] # "none"
  PROVE  \A j \in Sure' : finding'[j] # "none"
  <1> SUFFICES ASSUME NEW j \in Sure' PROVE finding'[j] # "none"
    OBVIOUS
  <1>1. j \in Sure /\ j \in Jobs
    BY SureShrinks DEF Sure
  <1>2. QED
    BY <1>1, FindingMoves

LEMMA AllSeededStays ==
  ASSUME PipeInv, [Next]_vars, AllSeeded
  PROVE  AllSeeded'
  BY ScaRowsStay, NoSecondEnqueue, SeedJobs DEF AllSeeded

\* The detector that finds the barrier clear.
LEMMA BarrierClears ==
  ASSUME PipeInv, JobInv, [Next]_vars, NEW w \in Agent, CheckBarrier(w), pc'[w] = "barrier"
  PROVE  /\ DetectorsClosed /\ DetectorsClosed'
         /\ \A j \in Sure' : finding'[j] # "none"
         /\ ~early' => AllSeeded'
  <1>1. /\ ~HasIncompleteTasks(Detectors)
        /\ early' = (early \/ pc["cartographer"] = "enqueue" \/ ~Enqueued(SeedRows))
        /\ UNCHANGED <<store, results>>
    <2>1. ~Rest(w)
      BY RestFacts DEF PipeInv, TypeOK, Busy
    <2>2. QED
      BY <2>1 DEF CheckBarrier
  <1>2. DetectorsClosed
    BY <1>1, ClosedMeansComplete DEF PipeInv, StoreInv
  <1>3. DetectorsClosed'
    <2>1. tasks' = tasks /\ Task' = Task
      BY <1>1, StoreSame DEF PipeInv
    <2>2. QED
      BY <1>2, <2>1 DEF DetectorsClosed
  <1>4. RoleEnqueued(Secrets)
    <2>1. cur[w].task \in Task /\ RoleOf(w) \in Detectors
      BY DEF CheckBarrier, PipeInv, StageInv, HoldsOwn, Busy
    <2>2. QED
      BY <2>1 DEF RoleOf, JobInv, SecretsFirst
  <1>5. ASSUME NEW j \in Jobs, j.role = Secrets
        PROVE  HasRow(j)
    <2>1. PICK t \in Task : tasks[t].role = Secrets
      BY <1>4 DEF RoleEnqueued
    <2>2. JobOf(t) \in Jobs /\ JobOf(t).role = Secrets
      BY <2>1, Threads DEF JobInv, RowsAreJobs, JobOf, Row
    <2>3. JobOf(t) = j
      BY <1>5, <2>2, SeedJobs
    <2>4. QED
      BY <2>3 DEF HasRow
  <1>6. ~early' => AllSeeded
    <2> SUFFICES ASSUME ~early' PROVE AllSeeded
      OBVIOUS
    <2>1. pc["cartographer"] # "enqueue" /\ Enqueued(SeedRows)
      BY <1>1
    <2>2. PICK t \in Task : tasks[t].role = "detector.sca"
      BY <2>1, SeedJobs DEF RoleEnqueued
    <2>3. Enqueued(ScaRows)
      BY <1>2, <2>2 DEF DetectorsClosed, Detectors, JobInv, GoalsFirst
    <2>4. QED
      BY <2>1, <2>3 DEF AllSeeded
  <1>7. ~early' => AllSeeded'
    BY <1>6, AllSeededStays
  <1>8. ASSUME NEW j \in Sure'
        PROVE  finding'[j] # "none"
    <2>1. j \in Jobs /\ (j.role = Secrets \/ ~early')
      BY <1>8 DEF Sure
    <2>2. HasRow(j)
      BY <1>5, <1>6, <2>1, SeedJobs DEF AllSeeded
    <2>3. finding[j] # "none"
      BY <1>2, <2>1, <2>2, ClosedMeansRun
    <2>4. QED
      BY <2>1, <2>3, FindingMoves
  <1>9. QED
    BY <1>2, <1>3, <1>7, <1>8

LEMMA BehindBarrierStays ==
  ASSUME PipeInv, JobInv, WorkIsClaimed, BehindBarrier, [Next]_vars
  PROVE  BehindBarrier'
  <1> SUFFICES ASSUME Barred'
               PROVE  /\ \A j \in Sure' : finding'[j] # "none"
                      /\ ~early' => AllSeeded' /\ (Calm' => DetectorsClosed')
    BY DEF BehindBarrier
  <1>1. CASE Barred
    <2>1. \A j \in Sure' : finding'[j] # "none"
      BY <1>1, FoundStays DEF BehindBarrier
    <2>2. ASSUME ~early' PROVE AllSeeded' /\ (Calm' => DetectorsClosed')
      <3>1. AllSeeded /\ (Calm => DetectorsClosed)
        BY <1>1, <2>2, HistoryMoves DEF BehindBarrier
      <3>2. ASSUME Calm' PROVE DetectorsClosed'
        <4>1. lapses = 0 /\ ~(faults' > 0) /\ DetectorsClosed
          BY <3>1, <3>2, HistoryMoves DEF Calm
        <4>2. QED
          BY <3>1, <4>1, DetectorsStayClosed DEF AllSeeded
      <3>3. QED
        BY <3>1, <3>2, AllSeededStays
    <2>3. QED
      BY <2>1, <2>2
  <1>2. CASE ~Barred
    <2>1. ~RoleEnqueued("triager")'
      <3> SUFFICES ASSUME NEW t \in Task', tasks'[t].role = "triager" PROVE FALSE
        BY DEF RoleEnqueued
      <3>1. CASE t \in Task
        BY <1>2, <3>1, RowStates DEF Barred, RoleEnqueued
      <3>2. CASE t \notin Task
        BY <1>2, <3>2, NewRows DEF Barred
      <3>3. QED
        BY <3>1, <3>2
    <2>2. PICK w \in Agent : pc'[w] = "barrier"
      BY <2>1 DEF Barred
    <2>3. CheckBarrier(w)
      <3>1. pc[w] # "barrier" /\ Busy(w)'
        BY <1>2, <2>2 DEF Barred, Busy
      <3>2. QED
        BY <2>2, <3>1, ThreadMoves DEF Same, GoesOn, AddNext
    <2>4. QED
      BY <2>2, <2>3, BarrierClears
  <1>3. QED
    BY <1>1, <1>2

----------------------------------------------------------------------------
(* What is found is judged, and what is judged is reported. *)

\* The only thread of a stage is through with the stage's work.
Through(stage) ==
  \/ pc[stage] \in {"complete", "advance"}
  \/ \E t \in Task : tasks[t].role = stage /\ tasks[t].state = "closed"

SureJudged == \A j \in Sure : finding[j] = "judged"

JudgedThenReported ==
  /\ pc["triager"] = "run" => \A j \in Sure : j \in snapshot \/ finding[j] = "judged"
  /\ Through("triager") => SureJudged
  /\ Through("reporter") => Sure \subseteq reported
  /\ outcome = "done" => RoleEnqueued("reporter") /\ Sure \subseteq reported

\* Behind the barrier no verdict is lost that is there for good.
LEMMA JudgedStays ==
  ASSUME PipeInv, WorkIsClaimed, BehindBarrier, [Next]_vars, RoleEnqueued("triager"),
         NEW j \in Sure', finding[j] = "judged"
  PROVE  finding'[j] = "judged"
  <1>1. j \in Sure /\ j \in Jobs
    BY SureShrinks DEF Sure
  <1>2. ASSUME NEW w \in Agent, Detect(w), Job(w) = j, j.role \in ModelBased
        PROVE  FALSE
    <2>1. ~early /\ Calm
      BY <1>1, <1>2 DEF Sure, ModelBased, Secrets
    <2>2. DetectorsClosed /\ lapses = 0
      BY <2>1 DEF BehindBarrier, Barred, Calm
    <2>3. /\ AtWork(w) /\ RoleOf(w) \in Detectors /\ cur[w].task \in Task
      BY <1>2 DEF Detect, AtWork, PipeInv, StageInv, HoldsOwn, Busy
    <2>4. QED
      BY <2>2, <2>3 DEF DetectorsClosed, WorkIsClaimed, RoleOf
  <1>3. QED
    BY <1>1, <1>2, FindingMoves

LEMMA SureJudgedStays ==
  ASSUME PipeInv, WorkIsClaimed, BehindBarrier, [Next]_vars, RoleEnqueued("triager"),
         SureJudged
  PROVE  SureJudged'
  BY SureShrinks, JudgedStays DEF SureJudged

\* The threads of the triager and the reporter, and their steps.
LEMMA StageThreads ==
  /\ "triager" \in Agent /\ "reporter" \in Agent
  /\ \A w \in Agent : \A stage \in {"triager", "reporter"} :
       stage \in RolesOf(w) => w = stage
  /\ \A stage \in {"triager", "reporter"} : RolesOf(stage) = {stage}
  BY Threads DEF Singletons, Detectors

LEMMA StageMoves ==
  ASSUME PipeInv, JobInv, [Next]_vars, NEW stage \in {"triager", "reporter"}
  PROVE  /\ Busy(stage) => RoleOf(stage) = stage /\ RoleEnqueued(stage)
         /\ pc'[stage] = "run" => (pc[stage] = "run" /\ ~Start(stage)) \/ Start(stage)
         /\ Through(stage)' => \/ Through(stage)
                               \/ Triage(stage) \/ Report(stage)
  <1>1. /\ stage \in Agent /\ RolesOf(stage) = {stage}
        /\ \A w \in Agent : stage \in RolesOf(w) => w = stage
    BY StageThreads
  <1>2. Busy(stage) => RoleOf(stage) = stage /\ RoleEnqueued(stage)
    BY <1>1 DEF PipeInv, StageInv, HoldsOwn, RoleOf, RoleEnqueued
  <1>3. stage \notin {"indexer", "cartographer", "detector.sca"} \cup Detectors
    BY DEF Detectors
  <1>4. ASSUME pc'[stage] = "run"
        PROVE  (pc[stage] = "run" /\ ~Start(stage)) \/ Start(stage)
    <2>1. Same(stage) \/ GoesOn(stage)
      BY <1>1, <1>4, ThreadMoves DEF Busy
    <2>2. QED
      BY <1>4, <2>1 DEF Same, GoesOn, AddNext
  <1>5. ASSUME pc'[stage] \in {"complete", "advance"}
        PROVE  Through(stage) \/ Triage(stage) \/ Report(stage)
    <2>1. Same(stage) \/ GoesOn(stage)
      BY <1>1, <1>5, ThreadMoves DEF Busy
    <2>2. CASE Same(stage) \/ Complete(stage)
      BY <1>5, <2>2 DEF Same, Complete, Through
    <2>3. ~Index(stage) /\ ~Detect(stage)
      BY <1>2, <1>3 DEF Index, Detect, Busy
    <2>4. ~AddNext(stage) \/ pc[stage] = "enqueue"
      BY <1>1, <1>2, <1>3 DEF AddNext, JobInv, GoalsFirst, GoalsOf, Busy
    <2>5. QED
      BY <1>5, <2>1, <2>2, <2>3, <2>4 DEF GoesOn
  <1>6. ASSUME NEW t \in Task', tasks'[t].role = stage, tasks'[t].state = "closed"
        PROVE  Through(stage)
    <2>1. t \in Task
      BY <1>6, NewRows
    <2>2. tasks[t].role = stage
      BY <1>6, <2>1, RowStates
    <2>3. CASE tasks[t].state = "closed"
      BY <2>1, <2>2, <2>3 DEF Through
    <2>4. CASE tasks[t].state # "closed"
      <3>1. PICK w \in Agent : Complete(w) /\ cur[w].task = t
        BY <1>6, <2>1, <2>4, RowStates
      <3>2. w = stage
        BY <1>1, <2>2, <3>1 DEF Complete, PipeInv, StageInv, HoldsOwn, Busy, RoleOf
      <3>3. QED
        BY <3>1, <3>2 DEF Complete, Through
    <2>5. QED
      BY <2>3, <2>4
  <1>7. QED
    BY <1>2, <1>4, <1>5, <1>6 DEF Through

\* With the reporter there, the triager is through.
LEMMA ReporterSeesJudged ==
  ASSUME PipeInv, JudgedThenReported, RoleEnqueued("reporter")
  PROVE  SureJudged /\ RoleEnqueued("triager")
  BY DEF PipeInv, StageInv, TriageInv, TriagerDone, JudgedThenReported, Through, RoleEnqueued

LEMMA OutcomeSteps ==
  ASSUME [Next]_vars
  PROVE  \/ UNCHANGED <<main, outcome, runState>>
         \/ Seed \/ MainCancelled \/ MainRead \/ MainFail \/ MainClose
  <1>1. ASSUME NEW w \in Agent, ThreadStep(w) \/ Beat(w)
        PROVE  UNCHANGED <<main, outcome, runState>>
    BY <1>1 DEF ThreadStep, TakeTask, Die, Fail, Cancelled, Start, Index, Detect, Triage,
                Report, Complete, AddNext, NextStage, EnqueueDetectors, CheckBarrier,
                PassBarrier, Close, Beat, control
  <1>2. ASSUME (\E c \in claims : Lapse(c)) \/ Reap \/ Stop \/ UNCHANGED vars
        PROVE  UNCHANGED <<main, outcome, runState>>
    BY <1>2 DEF Lapse, Reap, Stop, vars, control
  <1>3. QED
    BY <1>1, <1>2 DEF Next, WorkerStep, Claim, LateClaim, MainStep, ThreadStep

\* The wait for a terminal state ends as done: the reporter is through.
LEMMA DoneWhenThrough ==
  ASSUME [Next]_vars, outcome' = "done", outcome # "done"
  PROVE  RoleEnqueued("reporter") /\ Through("reporter") /\ UNCHANGED <<store, results>>
  <1>1. MainRead
    BY OutcomeSteps DEF Seed, MainCancelled, MainFail, MainClose
  <1>2. RunTerminalTaskState = "done"
    BY <1>1 DEF MainRead
  <1>3. /\ RoleEnqueued("reporter")
        /\ \A t \in Task : tasks[t].role = "reporter" => tasks[t].state = "closed"
    BY <1>2 DEF RunTerminalTaskState
  <1>4. QED
    BY <1>1, <1>3 DEF MainRead, RoleEnqueued, Through

LEMMA JudgedThenReportedStays ==
  ASSUME PipeInv, JobInv, WorkIsClaimed, BehindBarrier, JudgedThenReported, [Next]_vars
  PROVE  JudgedThenReported'
  <1>1. "triager" \in Agent /\ "reporter" \in Agent
    BY StageThreads
  <1>2. ASSUME pc'["triager"] = "run", NEW j \in Sure'
        PROVE  j \in snapshot' \/ finding'[j] = "judged"
    <2>1. j \in Sure /\ j \in Jobs
      BY SureShrinks DEF Sure
    <2>2. CASE pc["triager"] = "run" /\ ~Start("triager")
      <3>1. RoleEnqueued("triager")
        BY <2>2, StageMoves DEF Busy
      <3>2. snapshot' = snapshot
        BY <2>2, ResultMoves
      <3>3. QED
        BY <2>1, <2>2, <3>1, <3>2, JudgedStays DEF JudgedThenReported
    <2>3. CASE Start("triager")
      <3>1. RoleEnqueued("triager") /\ RoleOf("triager") = "triager"
        BY <2>3, StageMoves DEF Start, Busy
      <3>2. snapshot' = JobsIn("candidate") /\ finding' = finding
        BY <1>1, <2>3, <3>1, ResultMoves DEF Start
      <3>3. finding[j] # "none"
        BY <2>1, <3>1 DEF BehindBarrier, Barred
      <3>4. finding[j] \in {"none", "candidate", "judged"}
        BY <2>1 DEF PipeInv, TypeOK
      <3>5. QED
        BY <2>1, <3>2, <3>3, <3>4 DEF JobsIn
    <2>4. QED
      BY <1>2, <2>2, <2>3, StageMoves
  <1>3. ASSUME Through("triager")'
        PROVE  SureJudged'
    <2>1. CASE Through("triager")
      <3>1. SureJudged
        BY <2>1 DEF JudgedThenReported
      <3>2. RoleEnqueued("triager")
        BY <2>1, StageMoves DEF Through, Busy, RoleEnqueued
      <3>3. QED
        BY <3>1, <3>2, SureJudgedStays
    <2>2. CASE Triage("triager")
      <3>1. \A j \in Jobs : finding'[j] = IF j \in snapshot THEN "judged" ELSE finding[j]
        BY <1>1, <2>2, ResultMoves
      <3>2. \A j \in Sure : j \in snapshot \/ finding[j] = "judged"
        BY <2>2 DEF Triage, JudgedThenReported
      <3>3. Sure' \subseteq Sure /\ Sure \subseteq Jobs
        BY SureShrinks DEF Sure
      <3>4. QED
        BY <3>1, <3>2, <3>3 DEF SureJudged
    <2>3. CASE Report("triager")
      BY <1>1, <2>3, ResultMoves
    <2>4. QED
      BY <1>3, <2>1, <2>2, <2>3, StageMoves
  <1>4. RoleEnqueued("reporter") /\ (Report("reporter") \/ Sure \subseteq reported)
          => Sure' \subseteq reported'
    <2> SUFFICES ASSUME RoleEnqueued("reporter"), Report("reporter") \/ Sure \subseteq reported
                 PROVE  Sure' \subseteq reported'
      OBVIOUS
    <2>1. Sure \subseteq JobsIn("judged")
      BY ReporterSeesJudged DEF SureJudged, JobsIn, Sure
    <2>2. reported' = reported \/ reported' = JobsIn("judged")
      BY ResultMoves
    <2>3. Report("reporter") => reported' = JobsIn("judged")
      BY <1>1, ResultMoves
    <2>4. QED
      BY <2>1, <2>2, <2>3, SureShrinks
  <1>5. ASSUME Through("reporter")'
        PROVE  Sure' \subseteq reported'
    <2>1. CASE Through("reporter")
      <3>1. RoleEnqueued("reporter")
        BY <2>1, StageMoves DEF Through, Busy, RoleEnqueued
      <3>2. QED
        BY <1>4, <2>1, <3>1 DEF JudgedThenReported
    <2>2. CASE Report("reporter")
      <3>1. RoleEnqueued("reporter")
        BY <2>2, StageMoves DEF Report, Busy
      <3>2. QED
        BY <1>4, <2>2, <3>1
    <2>3. CASE Triage("reporter")
      BY <1>1, <2>3, ResultMoves
    <2>4. QED
      BY <1>5, <2>1, <2>2, <2>3, StageMoves
  <1>6. ASSUME outcome' = "done"
        PROVE  RoleEnqueued("reporter")' /\ Sure' \subseteq reported'
    <2>1. CASE outcome = "done"
      BY <1>4, <2>1, RowsStay DEF JudgedThenReported
    <2>2. CASE outcome # "done"
      <3>1. RoleEnqueued("reporter") /\ Through("reporter")
        BY <1>6, <2>2, DoneWhenThrough
      <3>2. Sure \subseteq reported
        BY <3>1 DEF JudgedThenReported
      <3>3. QED
        BY <1>4, <3>1, <3>2, RowsStay
    <2>3. QED
      BY <2>1, <2>2
  <1>7. QED
    BY <1>2, <1>3, <1>5, <1>6 DEF JudgedThenReported

----------------------------------------------------------------------------
(* The barrier and the report. *)

\* What the barrier's properties need of the state of a scan.
BarrierInv == JobInv /\ BehindBarrier /\ JudgedThenReported

LEMMA InitBarrierInv == Init => BarrierInv
  <1> SUFFICES ASSUME Init PROVE BarrierInv
    OBVIOUS
  <1>1. Task = {}
    BY DEF Init, StoreInit, Task
  <1>2. \A w \in Agent : pc[w] = "idle"
    BY DEF Init
  <1>3. BehindBarrier
    BY <1>1, <1>2 DEF BehindBarrier, Barred, RoleEnqueued
  <1>4. JudgedThenReported
    BY <1>1, <1>2, StageThreads DEF Init, JudgedThenReported, Through
  <1>5. QED
    BY <1>3, <1>4, InitJobInv DEF BarrierInv

LEMMA NextBarrierInv ==
  PipeInv /\ WorkIsClaimed /\ BarrierInv /\ [Next]_vars => BarrierInv'
  BY JobInvStays, BehindBarrierStays, JudgedThenReportedStays DEF BarrierInv

\* For every number of threads, goals, exceptions, lapses and stops: the findings
\* behind the barrier and their verdicts are there for good.
THEOREM BarrierInvariant == Spec => []BarrierInv
  BY InitBarrierInv, NextBarrierInv, PipelineInvariant, ScanWorkIsClaimed, PTL DEF Spec

\* The triager is enqueued only when all rows of _enqueue_detectors and of the
\* SCA handler are in, and closed unless something failed or lapsed.
THEOREM TriagerWaits == Spec => []BarrierHolds
  <1>1. PipeInv /\ BarrierInv => BarrierHolds
    BY ClosedMeansComplete
    DEF PipeInv, StoreInv, BarrierInv, BehindBarrier, Barred, AllSeeded, Calm, BarrierHolds
  <1>2. QED
    BY <1>1, BarrierInvariant, PipelineInvariant, PTL

\* A scan that ends as done has judged and reported every finding it was to
\* wait for.
THEOREM DoneIsReported == Spec => []DoneMeansReported
  <1>1. ASSUME PipeInv, BarrierInv, outcome = "done", ~early, NEW job \in Jobs,
               job.role \notin ModelBased \/ Calm
        PROVE  finding[job] = "judged" /\ job \in reported
    <2>1. job \in Sure
      BY <1>1 DEF Sure
    <2>2. RoleEnqueued("reporter") /\ Sure \subseteq reported
      BY <1>1 DEF BarrierInv, JudgedThenReported
    <2>3. SureJudged
      BY <1>1, <2>2, ReporterSeesJudged DEF BarrierInv
    <2>4. QED
      BY <2>1, <2>2, <2>3 DEF SureJudged
  <1>2. PipeInv /\ BarrierInv => DoneMeansReported
    BY <1>1 DEF DoneMeansReported, Calm
  <1>3. QED
    BY <1>2, BarrierInvariant, PipelineInvariant, PTL

\* The dashboard shows the detectors as done while all their rows, at least one,
\* are closed.
AllDone == DetectorsClosed /\ \E t \in Task : tasks[t].role \in Detectors

LEMMA BoardIsDone ==
  ASSUME StoreTypeOK
  PROVE  Board("detector") = "done" <=> AllDone
  <1> DEFINE S == FamilyStates("detector")
  <1>1. S = {tasks[t].state : t \in {u \in Task : tasks[u].role \in Detectors}}
    BY DEF FamilyStates, RolesIn
  <1>2. S \subseteq {"open", "claimed", "closed", "blocked"}
    BY <1>1, TaskFacts DEF TaskRow
  <1>3. S = {"closed"} <=> DetectorsClosed /\ \E t \in Task : tasks[t].role \in Detectors
    BY <1>1 DEF DetectorsClosed
  <1> HIDE DEF S
  <1>4. Rollup(S) = "done" <=> S = {"closed"}
    <2>1. CASE S = {}
      BY <2>1 DEF Rollup
    <2>2. CASE S = {"closed"}
      BY <2>2 DEF Rollup
    <2>3. CASE S # {} /\ S # {"closed"}
      <3>1. \/ "blocked" \in S
            \/ "blocked" \notin S /\ ("claimed" \in S \/ S = {"open", "closed"})
            \/ S = {"open"}
        BY <1>2, <2>3
      <3>2. QED
        BY <2>3, <3>1 DEF Rollup
    <2>4. QED
      BY <2>1, <2>2, <2>3
  <1>5. QED
    BY <1>3, <1>4 DEF Board, S, AllDone

\* Detectors that the board shows as done stay done, while neither a handler
\* fails nor a thread loses its claim.
THEOREM BoardStaysDone == Spec => DetectorsStayDone
  <1>1. StoreTypeOK => (Board("detector") = "done" <=> AllDone)
    BY BoardIsDone
  <1>2. (StoreTypeOK => (Board("detector") = "done" <=> AllDone))'
    BY <1>1, PTL
  <1>3. ASSUME PipeInv, PipeInv', JobInv, WorkIsClaimed, [Next]_vars,
               Board("detector") = "done", Board("detector")' # "done",
               pc["cartographer"] # "enqueue", ~(faults' > 0), ~(lapses > 0)
        PROVE  FALSE
    <2>1. StoreTypeOK /\ StoreTypeOK' /\ lapses \in Nat
      BY <1>3, PipelineAssumption DEF PipeInv, StoreInv, TypeOK, PipelineAssumption
    <2>2. DetectorsClosed /\ \E t \in Task : tasks[t].role \in Detectors
      BY <1>3, <2>1, BoardIsDone DEF AllDone
    <2>3. lapses = 0
      BY <1>3, <2>1
    <2>4. DetectorsClosed'
      BY <1>3, <2>2, <2>3, DetectorsStayClosed
    <2>5. \E t \in Task' : tasks'[t].role \in Detectors
      BY <1>3, <2>2, RowStates
    <2>6. AllDone'
      BY <2>4, <2>5 DEF AllDone
    <2>7. QED
      BY <1>2, <1>3, <2>1, <2>6
  <1>4. PipeInv /\ PipeInv' /\ BarrierInv /\ WorkIsClaimed /\ [Next]_vars =>
          [Board("detector") = "done" /\ Board("detector")' # "done"
             => pc["cartographer"] = "enqueue" \/ faults' > 0 \/ lapses > 0]_tasks
    BY <1>3 DEF BarrierInv
  <1>5. QED
    BY <1>4, BarrierInvariant, PipelineInvariant, ScanWorkIsClaimed, PTL
    DEF Spec, DetectorsStayDone

----------------------------------------------------------------------------
(* Every release is paid for. *)

\* A claim on t that will be taken away though nobody says so any more: it was
\* left behind, or its thread has lost it.
Left(t) == \E c \in claims : c.task = t /\ ~(Held(c) /\ c.fresh)

Owed(t) == IF Left(t) THEN 1 ELSE 0

\* The threads that ended after a stop and may have released t before.
Gone(t) == {w \in Agent : pc[w] = "exit" /\ tasks[t].role \in RolesOf(w)}

Exits(t) == IF cancelled THEN Cardinality(Gone(t)) ELSE 0

ReleasesCounted ==
  /\ \A t \in Task : tasks[t].releases + Owed(t) <= faults + lapses + Exits(t)
  /\ \A t \in Task : tasks[t].state = "blocked" => tasks[t].releases >= ReleaseLimit

LEMMA FiniteThreads == IsFiniteSet(Agent)
  <1>1. IsFiniteSet(Singletons)
    <2>1. IsFiniteSet({}) /\ Singletons = ((({} \cup {"indexer"}) \cup {"cartographer"})
                                             \cup {"triager"}) \cup {"reporter"}
      BY FS_EmptySet DEF Singletons
    <2>2. QED
      BY <2>1, FS_AddElement
  <1>2. QED
    BY <1>1, FS_Union, PipelineAssumption DEF PipelineAssumption

\* Threads that have ended do not come back, and a stop is not taken back.
LEMMA EndedStays ==
  ASSUME PipeInv, [Next]_vars
  PROVE  /\ \A w \in Agent : pc[w] = "exit" => pc'[w] = "exit"
         /\ cancelled => cancelled'
  <1>1. ASSUME NEW w \in Agent, pc[w] = "exit"
        PROVE  pc'[w] = "exit"
    <2>1. ~ThreadStep(w)
      BY <1>1 DEF ThreadStep, TakeTask, Die, Fail, Cancelled, Start, Index, Detect, Triage,
                  Report, Complete, AddNext, NextStage, EnqueueDetectors, CheckBarrier,
                  PassBarrier, Close
    <2>2. QED
      BY <1>1, <2>1, StepIsOfThread, OthersStand DEF PipeInv, Same, local
  <1>2. cancelled => cancelled'
    <2>1. ASSUME NEW w \in Agent, ThreadStep(w) \/ Beat(w)
          PROVE  cancelled' = cancelled
      BY <2>1 DEF ThreadStep, TakeTask, Die, Fail, Cancelled, Start, Index, Detect, Triage,
                  Report, Complete, AddNext, NextStage, EnqueueDetectors, CheckBarrier,
                  PassBarrier, Close, Beat
    <2>2. ASSUME \/ \E c \in claims : Lapse(c)
                 \/ Reap \/ MainStep \/ MainFail \/ UNCHANGED vars
          PROVE  cancelled' = cancelled
      BY <2>2 DEF Lapse, Reap, MainStep, Seed, MainCancelled, MainRead, MainClose, MainFail,
                  vars
    <2>3. Stop => cancelled'
      BY DEF Stop
    <2>4. QED
      BY <2>1, <2>2, <2>3 DEF Next, WorkerStep, Claim, LateClaim, ThreadStep
  <1>3. QED
    BY <1>1, <1>2

LEMMA ExitsGrow ==
  ASSUME PipeInv, [Next]_vars, NEW t \in Task
  PROVE  /\ Exits(t) \in Nat /\ Exits(t)' \in Nat /\ Exits(t) <= Exits(t)'
         /\ \A w \in Agent : Cancelled(w) /\ cur[w].task = t => Exits(t) + 1 <= Exits(t)'
  <1>1. Gone(t) \subseteq Gone(t)'
    BY RowStates, EndedStays DEF Gone
  <1>2. /\ IsFiniteSet(Gone(t)) /\ IsFiniteSet(Gone(t)')
        /\ Cardinality(Gone(t)) \in Nat /\ Cardinality(Gone(t)') \in Nat
        /\ Cardinality(Gone(t)) <= Cardinality(Gone(t)')
    <2>1. Gone(t) \subseteq Agent /\ Gone(t)' \subseteq Agent
      BY DEF Gone
    <2>2. IsFiniteSet(Gone(t)) /\ IsFiniteSet(Gone(t)')
      BY <2>1, FiniteThreads, FS_Subset
    <2>3. QED
      BY <1>1, <2>2, FS_Subset, FS_CardinalityType
  <1>3. cancelled \in BOOLEAN /\ cancelled' \in BOOLEAN
    <2>1. TypeOK /\ TypeOK'
      BY NextPipeInv DEF PipeInv
    <2>2. QED
      BY <2>1 DEF TypeOK
  <1>4. Exits(t)' = IF cancelled' THEN Cardinality(Gone(t)') ELSE 0
    BY DEF Exits
  <1>5. ASSUME NEW w \in Agent, Cancelled(w), cur[w].task = t
        PROVE  Exits(t) + 1 <= Exits(t)'
    <2>1. cancelled /\ cancelled' /\ pc[w] # "exit" /\ Busy(w)
      BY <1>5 DEF Cancelled, Busy
    <2>2. pc'[w] = "exit"
      BY <1>5, <2>1 DEF Cancelled, Rest, Goto, FlagSet, PipeInv, TypeOK
    <2>3. tasks'[t].role \in RolesOf(w)
      BY <1>5, <2>1, RowStates DEF PipeInv, StageInv, HoldsOwn, RoleOf
    <2>4. w \notin Gone(t) /\ w \in Gone(t)'
      BY <2>1, <2>2, <2>3 DEF Gone
    <2>5. Gone(t) \cup {w} \subseteq Gone(t)'
      BY <1>1, <2>4
    <2>6. /\ Cardinality(Gone(t) \cup {w}) = Cardinality(Gone(t)) + 1
          /\ Cardinality(Gone(t) \cup {w}) <= Cardinality(Gone(t)')
      BY <1>2, <2>4, <2>5, FS_AddElement, FS_Subset
    <2>7. QED
      BY <1>4, <2>1, <2>6 DEF Exits
  <1>6. QED
    BY <1>2, <1>3, <1>4, <1>5, EndedStays DEF Exits

\* One thread of a singleton stage, or the detector threads.
LEMMA ExitsBound ==
  ASSUME PipeInv, NEW t \in Task
  PROVE  /\ Exits(t) <= IF cancelled THEN Cardinality(DetectorWorker) ELSE 0
         /\ Exits(t) \in Nat /\ Cardinality(DetectorWorker) \in Nat
  <1>1. IsFiniteSet(DetectorWorker) /\ DetectorWorker # {}
    BY PipelineAssumption DEF PipelineAssumption
  <1>2. Cardinality(DetectorWorker) \in Nat /\ Cardinality(DetectorWorker) # 0
    BY <1>1, FS_CardinalityType, FS_EmptySet
  <1>3. tasks[t].role \in Singletons \cup Detectors
    BY TaskFacts, Threads DEF PipeInv, StoreInv, TaskRow
  <1>4. CASE tasks[t].role \in Detectors
    <2>1. Gone(t) \subseteq DetectorWorker
      BY <1>4, Threads, PipelineAssumption DEF Gone, PipelineAssumption
    <2>2. /\ Cardinality(Gone(t)) <= Cardinality(DetectorWorker)
          /\ IsFiniteSet(Gone(t)) /\ Cardinality(Gone(t)) \in Nat
      BY <1>1, <2>1, FS_Subset, FS_CardinalityType
    <2>3. QED
      BY <1>2, <2>2 DEF Exits
  <1>5. CASE tasks[t].role \in Singletons
    <2>1. Gone(t) \subseteq {tasks[t].role}
      BY <1>5, Threads DEF Gone
    <2>2. IsFiniteSet({tasks[t].role}) /\ Cardinality({tasks[t].role}) = 1
      BY FS_Singleton
    <2>3. /\ Cardinality(Gone(t)) <= 1
          /\ IsFiniteSet(Gone(t)) /\ Cardinality(Gone(t)) \in Nat
      BY <2>1, <2>2, FS_Subset, FS_CardinalityType
    <2>4. QED
      BY <1>2, <2>3 DEF Exits
  <1>6. QED
    BY <1>3, <1>4, <1>5

\* A thread puts a claim that it holds down only with the end of its task.
LEMMA HeldMoves ==
  ASSUME PipeInv, [Next]_vars, NEW d \in ClaimRow, Held(d), ~Held(d)'
  PROVE  \E w \in Agent : /\ Complete(w) \/ Cancelled(w) \/ Fail(w)
                          /\ cur[w].task = d.task
  <1>1. PICK w \in Agent : w = d.agent
    BY DEF ClaimRow
  <1>2. AtWork(w) /\ Busy(w) /\ cur[w].task = d.task
    BY <1>1 DEF Held, AtWork, Busy
  <1>3. pc'[w] \notin {"start", "run", "goals", "complete"} \/ cur'[w] # cur[w]
    BY <1>1 DEF Held
  <1>4. CASE Same(w)
    BY <1>2, <1>3, <1>4 DEF Same, AtWork
  <1>5. CASE GoesOn(w) /\ cur'[w] = cur[w]
    <2>1. ~EnqueueDetectors(w) /\ ~CheckBarrier(w)
      BY <1>2 DEF EnqueueDetectors, CheckBarrier, AtWork
    <2>2. QED
      BY <1>2, <1>3, <1>5, <2>1 DEF GoesOn, AtWork
  <1>6. CASE ~Busy(w)' /\ ~Same(w)
    <2>1. ThreadStep(w)
      BY <1>6, StepIsOfThread, OthersStand DEF PipeInv, Same, local
    <2>2. \A label : Goto(w, label) => pc'[w] = label
      BY DEF PipeInv, TypeOK, Goto
    <2>3. Complete(w) \/ Cancelled(w) \/ Fail(w)
      <3>1. ~TakeTask(w) /\ ~Die(w) /\ ~NextStage(w) /\ ~EnqueueDetectors(w)
            /\ ~CheckBarrier(w) /\ ~PassBarrier(w) /\ ~Close(w)
        BY <1>2 DEF AtWork, TakeTask, Die, NextStage, EnqueueDetectors, CheckBarrier,
                    PassBarrier, Close
      <3>2. ~Start(w) /\ ~Index(w) /\ ~Triage(w) /\ ~Report(w)
        BY <1>6, <2>2 DEF Start, Index, Triage, Report, Busy
      <3>3. ~Detect(w)
        BY <1>6, <2>2 DEF Detect, Busy
      <3>4. ~AddNext(w)
        BY <1>2, <1>6, <2>2 DEF AddNext, Busy, AtWork
      <3>5. QED
        BY <2>1, <3>1, <3>2, <3>3, <3>4 DEF ThreadStep
    <2>4. QED
      BY <1>2, <2>3
  <1>7. ~TakeTask(w)
    BY <1>2 DEF TakeTask, AtWork
  <1>8. QED
    BY <1>4, <1>5, <1>6, <1>7, ThreadMoves

\* Where the claims after a step are from.
LEMMA ClaimSteps ==
  ASSUME PipeInv, [Next]_vars, NEW d \in claims'
  PROVE  \/ d \in claims
         \/ \E w \in Agent : TakeTask(w) /\ d = NewClaim(w, cur'[w].task) /\ d.agent = w
         \/ d.fresh /\ UNCHANGED local /\ [d EXCEPT !.fresh = FALSE] \in claims
         \/ \E c \in claims : Lapse(c) /\ d = [c EXCEPT !.fresh = FALSE]
  <1>1. claims \subseteq ClaimRow
    BY DEF PipeInv, StoreInv, StoreTypeOK
  <1>2. ASSUME claims' \subseteq claims PROVE d \in claims
    BY <1>2
  <1>3. ASSUME NEW w \in Agent, TakeTask(w)
        PROVE  d \in claims \/ (d = NewClaim(w, cur'[w].task) /\ d.agent = w)
    <2>1. PICK t \in Task :
            /\ ClaimTask(w, RolesOf(w), t)
            /\ cur' = [cur EXCEPT ![w] = [task |-> t, attempt |-> tasks[t].attempts + 1]]
      BY <1>3 DEF TakeTask
    <2>2. cur'[w].task = t
      BY <2>1 DEF PipeInv, TypeOK
    <2>3. claims' = claims \cup {NewClaim(w, t)} /\ NewClaim(w, t).agent = w
      BY <2>1 DEF ClaimTask, NewClaim
    <2>4. QED
      BY <2>2, <2>3
  <1>4. ASSUME NEW w \in Agent, Beat(w)
        PROVE  d \in claims \/ (/\ d.fresh /\ UNCHANGED local
                                /\ [d EXCEPT !.fresh = FALSE] \in claims)
    <2>1. PICK c \in claims : d = IF c.task = cur[w].task /\ c.attempt = cur[w].attempt
                                  THEN [c EXCEPT !.fresh = TRUE] ELSE c
      BY <1>4 DEF Beat, Heartbeat
    <2>2. CASE d = c
      BY <2>2
    <2>3. CASE d = [c EXCEPT !.fresh = TRUE] /\ c.fresh = FALSE
      <3>1. [d EXCEPT !.fresh = FALSE] = c /\ d.fresh
        BY <1>1, <2>3 DEF ClaimRow
      <3>2. QED
        BY <1>4, <3>1 DEF Beat
    <2>4. c.fresh \in BOOLEAN /\ (c.fresh = TRUE => [c EXCEPT !.fresh = TRUE] = c)
      BY <1>1 DEF ClaimRow
    <2>5. QED
      BY <2>1, <2>2, <2>3, <2>4
  <1>5. ASSUME NEW c \in claims, Lapse(c)
        PROVE  d \in claims \/ d = [c EXCEPT !.fresh = FALSE]
    BY <1>5 DEF Lapse
  <1>6. ASSUME NEW w \in Agent, Cancelled(w) \/ Fail(w) \/ Complete(w)
        PROVE  claims' \subseteq claims
    BY <1>6 DEF Cancelled, Fail, Complete, ReleaseTask, CompleteTask, store
  <1>7. ASSUME NEW w \in Agent,
               \/ Die(w) \/ Start(w) \/ Index(w) \/ Detect(w) \/ Triage(w) \/ Report(w)
               \/ AddNext(w) \/ NextStage(w) \/ EnqueueDetectors(w)
               \/ CheckBarrier(w) \/ PassBarrier(w) \/ Close(w)
        PROVE  claims' = claims
    BY <1>7 DEF Die, Start, Index, Detect, Triage, Report, AddNext, NextStage,
                EnqueueDetectors, CheckBarrier, PassBarrier, Close, AddTask,
                AddTaskIfAbsent, store
  <1>8. ASSUME Reap \/ Stop \/ MainStep \/ MainFail \/ UNCHANGED vars
        PROVE  claims' \subseteq claims
    BY <1>8 DEF Reap, ReclaimStaleClaims, Stop, MainStep, Seed, MainCancelled, MainRead,
                MainClose, MainFail, AddTask, store, vars
  <1>9. QED
    BY <1>2, <1>3, <1>4, <1>5, <1>6, <1>7, <1>8
    DEF Next, WorkerStep, Claim, LateClaim

\* The step that releases, completes or reaps a task leaves no claim on it.
LEMMA NoClaimLeft ==
  ASSUME PipeInv, [Next]_vars, NEW t \in Task
  PROVE  /\ \A w \in Agent :
              cur[w].task = t /\ (Complete(w) \/ Cancelled(w)) => ~Left(t)'
         /\ \A w \in Agent :
              cur[w].task = t /\ Fail(w) /\ tasks'[t] # tasks[t] => ~Left(t)'
         /\ Reap /\ (\E c \in StaleClaims : c.task = t) => ~Left(t)'
  <1>1. claims' = claims \ ClaimsOn(t) => ~Left(t)'
    BY DEF Left, ClaimsOn
  <1>2. ASSUME NEW w \in Agent, cur[w].task = t, Complete(w) \/ Cancelled(w)
        PROVE  ~Left(t)'
    BY <1>1, <1>2 DEF Complete, Cancelled, CompleteTask, ReleaseTask
  <1>3. ASSUME NEW w \in Agent, cur[w].task = t, Fail(w), tasks'[t] # tasks[t]
        PROVE  ~Left(t)'
    BY <1>1, <1>3 DEF Fail, ReleaseTask, store
  <1>4. ASSUME Reap, NEW c \in StaleClaims, c.task = t
        PROVE  ~Left(t)'
    <2>1. claims' = claims \ StaleClaims
      BY <1>4 DEF Reap, ReclaimStaleClaims
    <2>2. \A d \in claims : d.task = t => d = c
      BY <1>4 DEF PipeInv, StoreInv, ClaimedIffClaimRow, StaleClaims
    <2>3. QED
      BY <1>4, <2>1, <2>2 DEF Left
  <1>5. QED
    BY <1>2, <1>3, <1>4

\* A claim is left behind, or lost, only by an exception or a lapse.
LEMMA LeftMoves ==
  ASSUME PipeInv, [Next]_vars, NEW t \in Task, Left(t)'
  PROVE  Left(t) \/ faults' = faults + 1 \/ lapses' = lapses + 1
  <1>1. claims \subseteq ClaimRow
    BY DEF PipeInv, StoreInv, StoreTypeOK
  <1>2. PICK d \in claims' : d.task = t /\ ~(Held(d)' /\ d.fresh)
    BY DEF Left
  <1>3. CASE d \in claims
    <2>1. CASE ~(Held(d) /\ d.fresh)
      BY <1>2, <1>3, <2>1 DEF Left
    <2>2. CASE Held(d) /\ d.fresh
      <3>1. PICK w \in Agent : /\ Complete(w) \/ Cancelled(w) \/ Fail(w)
                               /\ cur[w].task = t
        BY <1>1, <1>2, <1>3, <2>2, HeldMoves
      <3>2. Fail(w)
        BY <3>1, NoClaimLeft
      <3>3. QED
        BY <3>2 DEF Fail
    <2>3. QED
      BY <2>1, <2>2
  <1>4. ASSUME NEW w \in Agent, TakeTask(w), d = NewClaim(w, cur'[w].task), d.agent = w
        PROVE  FALSE
    <2>1. PICK u \in Task :
            cur' = [cur EXCEPT ![w] = [task |-> u, attempt |-> tasks[u].attempts + 1]]
      BY <1>4 DEF TakeTask
    <2>2. cur'[w] = [task |-> u, attempt |-> tasks[u].attempts + 1] /\ pc'[w] = "start"
      BY <1>4, <2>1 DEF TakeTask, Goto, PipeInv, TypeOK
    <2>3. /\ d.task = u /\ d.attempt = tasks[u].attempts + 1 /\ d.agent = w /\ d.fresh
      BY <1>4, <2>2 DEF NewClaim
    <2>4. Held(d)' /\ d.fresh
      BY <2>2, <2>3 DEF Held
    <2>5. QED
      BY <1>2, <2>4
  <1>5. CASE d.fresh /\ UNCHANGED local /\ [d EXCEPT !.fresh = FALSE] \in claims
    <2>1. PICK c \in claims : c = [d EXCEPT !.fresh = FALSE]
      BY <1>5
    <2>2. d \in ClaimRow
      <3>1. StoreTypeOK'
        BY NextPipeInv DEF PipeInv, StoreInv
      <3>2. QED
        BY <3>1 DEF StoreTypeOK
    <2>3. c.task = t /\ ~c.fresh
      BY <1>2, <2>1, <2>2 DEF ClaimRow
    <2>4. QED
      BY <2>3 DEF Left
  <1>6. ASSUME NEW c \in claims, Lapse(c), d = [c EXCEPT !.fresh = FALSE]
        PROVE  Left(t) \/ lapses' = lapses + 1
    <2>1. c.task = t
      BY <1>1, <1>2, <1>6 DEF ClaimRow
    <2>2. CASE Held(c)
      BY <1>6, <2>2 DEF Lapse
    <2>3. CASE ~Held(c)
      BY <2>1, <2>3 DEF Left
    <2>4. QED
      BY <2>2, <2>3
  <1>7. QED
    BY <1>3, <1>4, <1>5, <1>6, ClaimSteps

\* A release is for an exception, a stop, or a claim that was owed.
LEMMA ReleaseMoves ==
  ASSUME PipeInv, [Next]_vars, NEW t \in Task
  PROVE  /\ \/ tasks'[t].releases = tasks[t].releases
            \/ /\ tasks'[t].releases = tasks[t].releases + 1 /\ ~Left(t)'
               /\ Left(t) \/ faults' = faults + 1 \/ Exits(t) + 1 <= Exits(t)'
         /\ tasks'[t].state = "blocked" =>
              \/ tasks[t].state = "blocked" /\ tasks'[t] = tasks[t]
              \/ tasks'[t].releases >= ReleaseLimit
  <1>1. tasks[t] \in TaskRow
    BY TaskFacts DEF PipeInv, StoreInv
  <1>2. Moved(t)
    BY RowsMove
  <1>3. /\ Claimed(tasks[t]).releases = tasks[t].releases
        /\ Claimed(tasks[t]).state = "claimed"
        /\ Closed(tasks[t]).releases = tasks[t].releases
        /\ Closed(tasks[t]).state = "closed"
    BY <1>1, RowUpdates
  <1>4. /\ Released(tasks[t]).releases = tasks[t].releases + 1
        /\ Released(tasks[t]).state = IF tasks[t].releases + 1 >= 3 THEN "blocked" ELSE "open"
        /\ tasks[t].releases \in Nat
    BY <1>1, RowUpdates DEF TaskRow
  <1>5. CASE tasks'[t] = tasks[t]
    BY <1>5
  <1>6. CASE \/ tasks'[t] = Claimed(tasks[t])
             \/ tasks'[t] = Closed(tasks[t])
    BY <1>3, <1>6
  <1>7. CASE tasks'[t] = Released(tasks[t]) /\ tasks'[t] # tasks[t]
             /\ \/ \E w \in Agent : (Cancelled(w) \/ Fail(w)) /\ cur[w].task = t
                \/ Reap /\ \E c \in StaleClaims : c.task = t
    <2>1. /\ tasks'[t].releases = tasks[t].releases + 1
          /\ tasks'[t].state = "blocked" => tasks'[t].releases >= ReleaseLimit
      BY <1>4, <1>7 DEF ReleaseLimit
    <2>2. CASE \E w \in Agent : (Cancelled(w) \/ Fail(w)) /\ cur[w].task = t
      <3>1. PICK w \in Agent : (Cancelled(w) \/ Fail(w)) /\ cur[w].task = t
        BY <2>2
      <3>2. ~Left(t)'
        BY <1>7, <3>1, NoClaimLeft
      <3>3. faults' = faults + 1 \/ Exits(t) + 1 <= Exits(t)'
        BY <3>1, ExitsGrow DEF Fail
      <3>4. QED
        BY <2>1, <3>2, <3>3
    <2>3. CASE Reap /\ \E c \in StaleClaims : c.task = t
      <3>1. ~Left(t)'
        BY <2>3, NoClaimLeft
      <3>2. Left(t)
        BY <2>3 DEF Left, StaleClaims
      <3>3. QED
        BY <2>1, <3>1, <3>2
    <2>4. QED
      BY <1>7, <2>2, <2>3
  <1>8. QED
    BY <1>2, <1>5, <1>6, <1>7 DEF Moved

LEMMA ReleasesCountedStays ==
  ASSUME PipeInv, ReleasesCounted, [Next]_vars
  PROVE  ReleasesCounted'
  <1>1. /\ faults \in Nat /\ lapses \in Nat /\ faults' \in Nat /\ lapses' \in Nat
        /\ faults' >= faults /\ lapses' >= lapses
    <2>1. TypeOK /\ TypeOK'
      BY NextPipeInv DEF PipeInv
    <2>2. QED
      BY <2>1, PipelineAssumption, HistoryMoves DEF TypeOK, PipelineAssumption
  <1>2. ASSUME NEW t \in Task
        PROVE  /\ tasks'[t].releases + Owed(t)' <= faults' + lapses' + Exits(t)'
               /\ tasks'[t].state = "blocked" => tasks'[t].releases >= ReleaseLimit
    <2>1. tasks[t].releases \in Nat
      BY TaskFacts DEF PipeInv, StoreInv, TaskRow
    <2>2. /\ tasks[t].releases + Owed(t) <= faults + lapses + Exits(t)
          /\ tasks[t].state = "blocked" => tasks[t].releases >= ReleaseLimit
      BY DEF ReleasesCounted
    <2>3. Exits(t) \in Nat /\ Exits(t)' \in Nat /\ Exits(t) <= Exits(t)'
      BY ExitsGrow
    <2>4. CASE tasks'[t].releases = tasks[t].releases
      <3>1. CASE Left(t)'
        <4>1. Owed(t)' = 1 /\ (Left(t) => Owed(t) = 1) /\ (~Left(t) => Owed(t) = 0)
          BY <3>1 DEF Owed
        <4>2. Left(t) \/ faults' = faults + 1 \/ lapses' = lapses + 1
          BY <3>1, LeftMoves
        <4>3. tasks'[t].releases + Owed(t)' <= faults' + lapses' + Exits(t)'
          BY <1>1, <2>1, <2>2, <2>3, <2>4, <4>1, <4>2
        <4>4. QED
          BY <2>2, <2>4, <4>3, ReleaseMoves
      <3>2. CASE ~Left(t)'
        <4>1. Owed(t)' = 0 /\ Owed(t) \in {0, 1}
          BY <3>2 DEF Owed
        <4>2. tasks'[t].releases + Owed(t)' <= faults' + lapses' + Exits(t)'
          BY <1>1, <2>1, <2>2, <2>3, <2>4, <4>1
        <4>3. QED
          BY <2>2, <2>4, <4>2, ReleaseMoves
      <3>3. QED
        BY <3>1, <3>2
    <2>5. CASE tasks'[t].releases # tasks[t].releases
      <3>1. /\ tasks'[t].releases = tasks[t].releases + 1 /\ ~Left(t)'
            /\ Left(t) \/ faults' = faults + 1 \/ Exits(t) + 1 <= Exits(t)'
        BY <2>5, ReleaseMoves
      <3>2. Owed(t)' = 0 /\ (Left(t) => Owed(t) = 1) /\ (~Left(t) => Owed(t) = 0)
        BY <3>1 DEF Owed
      <3>3. tasks'[t].releases + Owed(t)' <= faults' + lapses' + Exits(t)'
        BY <1>1, <2>1, <2>2, <2>3, <3>1, <3>2
      <3>4. QED
        BY <2>5, <3>3, ReleaseMoves
    <2>6. QED
      BY <2>4, <2>5
  <1>3. ASSUME NEW n \in Task' \ Task
        PROVE  /\ tasks'[n].releases + Owed(n)' <= faults' + lapses' + Exits(n)'
               /\ tasks'[n].state # "blocked"
    <2>1. tasks'[n].releases = 0 /\ tasks'[n].state = "open"
      BY <1>3, NewRows
    <2>2. ClaimedIffClaimRow' /\ TypeOK'
      BY NextPipeInv DEF PipeInv, StoreInv
    <2>3. ~Left(n)'
      BY <1>3, <2>1, <2>2 DEF ClaimedIffClaimRow, Left
    <2>4. Exits(n)' \in Nat
      <3>1. IsFiniteSet(Gone(n)')
        BY FiniteThreads, FS_Subset DEF Gone
      <3>2. QED
        BY <3>1, FS_CardinalityType DEF Exits
    <2>5. Owed(n)' = 0
      BY <2>3 DEF Owed
    <2>6. QED
      BY <1>1, <2>1, <2>4, <2>5
  <1>4. QED
    BY <1>2, <1>3 DEF ReleasesCounted

----------------------------------------------------------------------------
(* Why a scan is given up. *)

Tripled == \E t \in Task : tasks[t].releases >= ReleaseLimit

OutcomeInv ==
  /\ outcome = "none" <=> main \in {"seed", "poll"}
  /\ main = "closed" /\ outcome = "cancelled" => runState = "cancelled"
  /\ outcome = "error" => faults > 0
  /\ outcome = "blocked" => Tripled

\* What the release counts need of the state of a scan.
GiveUpInv == ReleasesCounted /\ OutcomeInv

LEMMA OutcomeInvStays ==
  ASSUME PipeInv, GiveUpInv, [Next]_vars
  PROVE  OutcomeInv'
  <1>1. faults \in Nat /\ faults' >= faults
    BY PipelineAssumption, HistoryMoves DEF PipeInv, TypeOK, PipelineAssumption
  <1>2. Tripled => Tripled'
    <2> SUFFICES ASSUME NEW t \in Task, tasks[t].releases >= ReleaseLimit
                 PROVE  \E u \in Task' : tasks'[u].releases >= ReleaseLimit
      BY DEF Tripled
    <2>1. tasks[t].releases \in Nat
      BY TaskFacts DEF PipeInv, StoreInv, TaskRow
    <2>2. t \in Task' /\ tasks'[t].releases >= ReleaseLimit
      BY <2>1, RowStates, ReleaseMoves DEF ReleaseLimit
    <2>3. QED
      BY <2>2
  <1>3. faults > 0 => faults' > 0
    <2>1. faults' \in Nat
      BY NextPipeInv, PipelineAssumption DEF PipeInv, TypeOK, PipelineAssumption
    <2>2. QED
      BY <1>1, <2>1
  <1>4. OutcomeInv
    BY DEF GiveUpInv
  <1>5. CASE UNCHANGED <<main, outcome, runState>>
    BY <1>2, <1>3, <1>4, <1>5 DEF OutcomeInv
  <1>6. CASE Seed
    BY <1>2, <1>3, <1>4, <1>6 DEF OutcomeInv, Seed
  <1>7. CASE MainCancelled
    BY <1>7 DEF OutcomeInv, MainCancelled
  <1>8. CASE MainClose
    <2>1. /\ main = "stopping" /\ main' = "closed" /\ outcome' = outcome
          /\ outcome = "cancelled" => runState' = "cancelled"
      BY <1>8 DEF MainClose
    <2>2. QED
      BY <1>2, <1>3, <1>4, <2>1 DEF OutcomeInv
  <1>9. CASE MainFail
    BY <1>1, <1>9 DEF OutcomeInv, MainFail, PipeInv, TypeOK
  <1>10. CASE MainRead
    <2>1. /\ main' = "stopping" /\ outcome' = RunTerminalTaskState
          /\ RunTerminalTaskState # "none" /\ UNCHANGED runState
      BY <1>10 DEF MainRead
    <2>2. RunTerminalTaskState \in {"blocked", "done", "none"}
      BY DEF RunTerminalTaskState
    <2>3. RunTerminalTaskState = "blocked" => \E t \in Task : tasks[t].state = "blocked"
      BY DEF RunTerminalTaskState
    <2>4. RunTerminalTaskState = "blocked" => Tripled
      BY <2>3 DEF Tripled, GiveUpInv, ReleasesCounted
    <2>5. QED
      BY <1>2, <2>1, <2>2, <2>4 DEF OutcomeInv
  <1>11. QED
    BY <1>5, <1>6, <1>7, <1>8, <1>9, <1>10, OutcomeSteps

\* For every number of threads and goals: no task is released more often than
\* something failed, lapsed or was stopped.
THEOREM GiveUpInvariant == Spec => []GiveUpInv
  <1>1. Init => GiveUpInv
    <2> SUFFICES ASSUME Init PROVE GiveUpInv
      OBVIOUS
    <2>1. Task = {}
      BY DEF Init, StoreInit, Task
    <2>2. QED
      BY <2>1 DEF Init, GiveUpInv, ReleasesCounted, OutcomeInv
  <1>2. PipeInv /\ GiveUpInv /\ [Next]_vars => GiveUpInv'
    BY ReleasesCountedStays, OutcomeInvStays DEF GiveUpInv
  <1>3. QED
    BY <1>1, <1>2, PipelineInvariant, PTL DEF Spec

\* A scan is given up with a blocked task only after three exceptions, lapsed
\* heartbeats or threads that a stop ended.
THEOREM BlockedIsPaidFor == Spec => []BlockedAfterThree
  <1>1. ASSUME PipeInv, GiveUpInv, NEW t \in Task, tasks[t].state = "blocked"
        PROVE  faults + lapses + (IF cancelled THEN Cardinality(DetectorWorker) ELSE 0)
                 >= ReleaseLimit
    <2>1. /\ tasks[t].releases + Owed(t) <= faults + lapses + Exits(t)
          /\ tasks[t].releases >= ReleaseLimit
      BY <1>1 DEF GiveUpInv, ReleasesCounted
    <2>2. tasks[t].releases \in Nat /\ Owed(t) \in {0, 1}
      BY <1>1, TaskFacts DEF PipeInv, StoreInv, TaskRow, Owed
    <2>3. faults \in Nat /\ lapses \in Nat
      BY <1>1, PipelineAssumption DEF PipeInv, TypeOK, PipelineAssumption
    <2>4. QED
      BY <1>1, <2>1, <2>2, <2>3, ExitsBound DEF ReleaseLimit
  <1>2. PipeInv /\ GiveUpInv => BlockedAfterThree
    BY <1>1 DEF BlockedAfterThree
  <1>3. QED
    BY <1>2, GiveUpInvariant, PipelineInvariant, PTL

\* With at most two detector threads, as MAX_WORKERS has it, a scan that was
\* stopped is recorded as cancelled, unless it had written a report before or
\* something had failed.
THEOREM StopsAreRecorded ==
  Spec => [](Cardinality(DetectorWorker) < ReleaseLimit => StopIsRecorded)
  <1>1. ASSUME PipeInv, BarrierInv, GiveUpInv, Cardinality(DetectorWorker) < ReleaseLimit,
               main = "closed", cancelled, runState # "cancelled"
        PROVE  \/ outcome = "done" /\ reported # {}
               \/ outcome \in {"blocked", "error"} /\ faults + lapses > 0
    <2>1. faults \in Nat /\ lapses \in Nat
      BY <1>1, PipelineAssumption DEF PipeInv, TypeOK, PipelineAssumption
    <2>2. outcome \in {"done", "blocked", "error"}
      BY <1>1 DEF GiveUpInv, OutcomeInv, PipeInv, TypeOK
    <2>3. CASE outcome = "done"
      <3>1. Sure \subseteq reported
        BY <1>1, <2>3 DEF BarrierInv, JudgedThenReported
      <3>2. \E j \in Jobs : j \in Sure
        BY SeedJobs DEF Sure
      <3>3. QED
        BY <2>3, <3>1, <3>2
    <2>4. CASE outcome = "error"
      BY <1>1, <2>1, <2>4 DEF GiveUpInv, OutcomeInv
    <2>5. CASE outcome = "blocked"
      <3>1. PICK t \in Task : tasks[t].releases >= ReleaseLimit
        BY <1>1, <2>5 DEF GiveUpInv, OutcomeInv, Tripled
      <3>2. tasks[t].releases + Owed(t) <= faults + lapses + Exits(t)
        BY <1>1 DEF GiveUpInv, ReleasesCounted
      <3>3. tasks[t].releases \in Nat /\ Owed(t) \in {0, 1}
        BY <1>1, TaskFacts DEF PipeInv, StoreInv, TaskRow, Owed
      <3>4. /\ Exits(t) <= Cardinality(DetectorWorker)
            /\ Exits(t) \in Nat /\ Cardinality(DetectorWorker) \in Nat
        BY <1>1, ExitsBound
      <3>5. faults + lapses > 0
        BY <1>1, <2>1, <3>1, <3>2, <3>3, <3>4 DEF ReleaseLimit
      <3>6. QED
        BY <2>5, <3>5
    <2>6. QED
      BY <2>2, <2>3, <2>4, <2>5
  <1>2. PipeInv /\ BarrierInv /\ GiveUpInv =>
          (Cardinality(DetectorWorker) < ReleaseLimit => StopIsRecorded)
    BY <1>1 DEF StopIsRecorded
  <1>3. QED
    BY <1>2, GiveUpInvariant, BarrierInvariant, PipelineInvariant, PTL
=============================================================================
