------------------------- MODULE PipelineLeaseProofs -------------------------
(***************************************************************************)
(* A scan implements WorkerLease: whatever stages, handlers, flags and the *)
(* end of a scan do, to the queue its threads are any workers.             *)
(***************************************************************************)
EXTENDS PipelineProofs

Phases == [w \in Agent |-> Phase(w)]

LEMMA PhaseOf ==
  ASSUME TypeOK, NEW w \in Agent
  PROVE  /\ Phases[w] = Phase(w)
         /\ pc[w] \in {"idle", "exit", "dead"} <=> Phase(w) = "idle"
         /\ pc[w] \in {"start", "run", "goals", "complete"} <=> Phase(w) = "run"
         /\ pc[w] \in {"advance", "enqueue", "barrier"} <=> Phase(w) = "closed"
         /\ Busy(w) <=> Phase(w) # "idle"
  <1>1. pc[w] \in {"idle", "start", "run", "goals", "complete", "advance", "enqueue",
                   "barrier", "exit", "dead"}
    BY DEF TypeOK
  <1>2. QED
    BY <1>1 DEF Phases, Phase, Busy

\* The queue of WorkerLease is the scan's.
LEMMA SameQueue ==
  /\ Lease!store = store
  /\ \A role, payload : /\ Lease!AddTask(role, payload) <=> AddTask(role, payload)
                        /\ Lease!AddTaskIfAbsent(role, payload)
                             <=> AddTaskIfAbsent(role, payload)
  /\ \A a, roles, t : Lease!ClaimTask(a, roles, t) <=> ClaimTask(a, roles, t)
  /\ \A t : /\ Lease!CompleteTask(t) <=> CompleteTask(t)
            /\ Lease!ReleaseTask(t) <=> ReleaseTask(t)
  /\ \A t, attempt : Lease!Heartbeat(t, attempt) <=> Heartbeat(t, attempt)
  /\ Lease!StaleClaims = StaleClaims
  /\ Lease!ReclaimStaleClaims <=> ReclaimStaleClaims
  /\ Lease!Task = Task
  /\ Lease!StoreInit <=> StoreInit
  <1>1. /\ Lease!store = store /\ Lease!Task = Task /\ Lease!StaleClaims = StaleClaims
        /\ \A t : Lease!ClaimsOn(t) = ClaimsOn(t)
        /\ \A row : /\ Lease!Claimed(row) = Claimed(row)
                    /\ Lease!Closed(row) = Closed(row)
                    /\ Lease!Released(row) = Released(row)
        /\ \A a, t : Lease!NewClaim(a, t) = NewClaim(a, t)
        /\ \A roles : Lease!NextOpen(roles) = NextOpen(roles)
    BY DEF Lease!store, store, Lease!Task, Task, Lease!StaleClaims, StaleClaims,
           Lease!ClaimsOn, ClaimsOn, Lease!Claimed, Claimed, Lease!Closed, Closed,
           Lease!Released, Released, Lease!ReleaseLimit, ReleaseLimit,
           Lease!NewClaim, NewClaim, Lease!NextOpen, NextOpen, Lease!TasksIn, TasksIn
  <1>2. \A role, payload :
          /\ Lease!AddTask(role, payload) <=> AddTask(role, payload)
          /\ Lease!AddTaskIfAbsent(role, payload) <=> AddTaskIfAbsent(role, payload)
    <2> TAKE role, payload
    <2>1. Lease!AddTask(role, payload) <=> AddTask(role, payload)
      BY DEF Lease!AddTask, AddTask, Lease!NewRow, NewRow
    <2>2. Lease!RoleEnqueued(role) <=> RoleEnqueued(role)
      BY <1>1 DEF Lease!RoleEnqueued, RoleEnqueued
    <2>3. QED
      BY <2>1, <2>2 DEF Lease!AddTaskIfAbsent, AddTaskIfAbsent, Lease!store, store
  <1>3. \A a, roles, t : Lease!ClaimTask(a, roles, t) <=> ClaimTask(a, roles, t)
    BY <1>1 DEF Lease!ClaimTask, ClaimTask
  <1>4. \A t : /\ Lease!CompleteTask(t) <=> CompleteTask(t)
               /\ Lease!ReleaseTask(t) <=> ReleaseTask(t)
    BY <1>1 DEF Lease!CompleteTask, CompleteTask, Lease!ReleaseTask, ReleaseTask
  <1>5. \A t, attempt : Lease!Heartbeat(t, attempt) <=> Heartbeat(t, attempt)
    BY DEF Lease!Heartbeat, Heartbeat
  <1>6. Lease!ReclaimStaleClaims <=> ReclaimStaleClaims
    BY <1>1 DEF Lease!ReclaimStaleClaims, ReclaimStaleClaims
  <1>7. Lease!StoreInit <=> StoreInit
    BY DEF Lease!StoreInit, StoreInit
  <1>8. QED
    BY <1>1, <1>2, <1>3, <1>4, <1>5, <1>6, <1>7

----------------------------------------------------------------------------
(* What a step of a thread is to its phase. *)

LEMMA Moves ==
  ASSUME TypeOK, NEW w \in Agent, NEW label, Goto(w, label)
  PROVE  /\ label \in {"start", "run", "goals", "complete"}
              => Phases' = [Phases EXCEPT ![w] = "run"]
         /\ label \in {"advance", "enqueue", "barrier"}
              => Phases' = [Phases EXCEPT ![w] = "closed"]
         /\ label \in {"idle", "exit", "dead"}
              => Phases' = [Phases EXCEPT ![w] = "idle"]
  <1>1. pc'[w] = label /\ \A v \in Agent : v # w => pc'[v] = pc[v]
    BY DEF TypeOK, Goto
  <1>2. \A v \in Agent : Phases'[v] = IF v = w THEN Phase(w)' ELSE Phases[v]
    <2>1. \A v \in Agent : Phases'[v] = Phase(v)' /\ Phases[v] = Phase(v)
      BY DEF Phases
    <2>2. \A v \in Agent : v # w => Phase(v)' = Phase(v)
      BY <1>1 DEF Phase
    <2>3. QED
      BY <2>1, <2>2
  <1>3. Phases' = [Phases EXCEPT ![w] = Phase(w)']
    BY <1>2 DEF Phases
  <1>4. /\ label \in {"start", "run", "goals", "complete"} => Phase(w)' = "run"
        /\ label \in {"advance", "enqueue", "barrier"} => Phase(w)' = "closed"
        /\ label \in {"idle", "exit", "dead"} => Phase(w)' = "idle"
    BY <1>1 DEF Phase
  <1>5. QED
    BY <1>3, <1>4

LEMMA Stays ==
  ASSUME TypeOK, NEW w \in Agent, NEW label, Goto(w, label),
         \/ Phase(w) = "idle" /\ label \in {"idle", "exit", "dead"}
         \/ Phase(w) = "run" /\ label \in {"start", "run", "goals", "complete"}
         \/ Phase(w) = "closed" /\ label \in {"advance", "enqueue", "barrier"}
  PROVE  Phases' = Phases
  <1>1. Phases' = [Phases EXCEPT ![w] = Phases[w]]
    BY Moves, PhaseOf
  <1>2. QED
    BY <1>1 DEF Phases

LEMMA Rests ==
  ASSUME TypeOK, NEW w \in Agent, Rest(w), UNCHANGED lapses
  PROVE  Lease!LayDown(w)
  <1>1. Phases' = [Phases EXCEPT ![w] = "idle"]
    BY Moves DEF Rest
  <1>2. QED
    BY <1>1 DEF Rest, Lease!LayDown, Lease!NoTask, NoTask, Phases

LEMMA PhasesSame ==
  ASSUME pc' = pc
  PROVE  Phases' = Phases
  BY DEF Phases, Phase

----------------------------------------------------------------------------
(* Each step of a scan is one of WorkerLease, or none. *)

LEMMA TakeIsClaim ==
  ASSUME TypeOK, NEW w \in Agent, TakeTask(w)
  PROVE  Lease!Next
  <1>1. PICK t \in Task :
          /\ ClaimTask(w, RolesOf(w), t)
          /\ cur' = [cur EXCEPT ![w] = [task |-> t, attempt |-> tasks[t].attempts + 1]]
    BY DEF TakeTask
  <1>2. /\ Phases[w] = "idle"
        /\ Phases' = [Phases EXCEPT ![w] = "run"]
        /\ lapses' = lapses
    BY Moves, PhaseOf DEF TakeTask, budget
  <1>3. Lease!ClaimTask(w, [v \in Agent |-> RolesOf(v)][w], t)
    BY <1>1, SameQueue
  <1>4. Lease!Claim(w, t)
    BY <1>1, <1>2, <1>3 DEF Lease!Claim, Phases
  <1>5. t \in Lease!Task
    BY <1>1, SameQueue
  <1>6. QED
    BY <1>4, <1>5 DEF Lease!Next

LEMMA ReleaseIsGiveUp ==
  ASSUME TypeOK, NEW w \in Agent, Busy(w), ReleaseTask(cur[w].task) \/ UNCHANGED store,
         Rest(w), UNCHANGED lapses
  PROVE  Lease!Next
  <1>1. Phases[w] # "idle"
    BY PhaseOf
  <1>2. Lease!ReleaseTask(cur[w].task) \/ UNCHANGED Lease!store
    BY SameQueue DEF Lease!store, store
  <1>3. Lease!GiveUp(w)
    BY <1>1, <1>2, Rests DEF Lease!GiveUp, Phases
  <1>4. QED
    BY <1>3 DEF Lease!Next

LEMMA CompleteIsFinish ==
  ASSUME TypeOK, NEW w \in Agent, Complete(w)
  PROVE  Lease!Next
  <1>1. Phases[w] = "run" /\ Phases' = [Phases EXCEPT ![w] = "closed"]
    BY Moves, PhaseOf DEF Complete
  <1>2. Lease!CompleteTask(cur[w].task)
    BY SameQueue DEF Complete
  <1>3. Lease!Finish(w)
    BY <1>1, <1>2 DEF Lease!Finish, Phases, Complete, budget
  <1>4. QED
    BY <1>3 DEF Lease!Next

LEMMA RestIsAdvance ==
  ASSUME TypeOK, StoreInv, NEW w \in Agent, pc[w] \in {"advance", "enqueue", "barrier"},
         Rest(w), UNCHANGED lapses,
         \/ UNCHANGED store
         \/ \E role \in Role, payload \in Payload :
              AddTaskIfAbsent(role, payload) \/ AddTask(role, payload)
  PROVE  Lease!Next
  <1>1. Phases[w] = "closed"
    BY PhaseOf
  <1>2. Len(tasks) \in Nat
    BY TaskFacts DEF StoreInv
  <1>3. \/ UNCHANGED Lease!store
        \/ \E role \in Role, payload \in Payload :
             Lease!AddTaskIfAbsent(role, payload) \/ Lease!AddTask(role, payload)
    BY SameQueue DEF Lease!store, store
  <1>4. Lease!Advance(w)
    BY <1>1, <1>2, <1>3, Rests DEF Lease!Advance, Phases
  <1>5. QED
    BY <1>4 DEF Lease!Next

LEMMA AddIsEnqueue ==
  ASSUME StoreInv, NEW role \in Role, NEW payload \in Payload, AddTask(role, payload),
         Phases' = Phases, UNCHANGED <<cur, lapses>>
  PROVE  Lease!Next
  <1>1. Len(tasks) \in Nat
    BY TaskFacts DEF StoreInv
  <1>2. Lease!Enqueue(role, payload)
    BY <1>1, SameQueue DEF Lease!Enqueue, Phases
  <1>3. QED
    BY <1>2 DEF Lease!Next

\* One add_task of an enqueue loop; the last one of _enqueue_detectors ends the
\* follow-up of the cartographer's task.
LEMMA AddNextIsLease ==
  ASSUME PipeInv, NEW w \in Agent, AddNext(w)
  PROVE  Lease!Next
  <1>1. /\ TypeOK /\ StoreInv /\ LoopOf(w) /\ todo[w] \in Seq(Jobs)
        /\ pc[w] \in {"enqueue", "goals"} /\ UNCHANGED lapses
    BY DEF PipeInv, StageInv, TypeOK, AddNext, budget
  <1>2. PICK job \in Jobs : AddTask(job.role, job.payload)
    <2>1. todo[w] # << >>
      BY <1>1 DEF LoopOf, ToCome
    <2>2. Head(todo[w]) \in Jobs
      BY <1>1, <2>1, HeadTailProperties
    <2>3. QED
      BY <2>2 DEF AddNext
  <1>3. job.role \in Role /\ job.payload \in Payload
    BY <1>2, JobFacts, PipelineAssumption DEF PipelineRoles
  <1>4. CASE UNCHANGED <<pc, cur>>
    BY <1>1, <1>2, <1>3, <1>4, PhasesSame, AddIsEnqueue
  <1>5. CASE pc[w] = "goals" /\ Goto(w, "complete") /\ UNCHANGED cur
    <2>1. Phases' = Phases
      BY <1>1, <1>5, PhaseOf, Stays
    <2>2. QED
      BY <1>1, <1>2, <1>3, <1>5, <2>1, AddIsEnqueue
  <1>6. CASE pc[w] # "goals" /\ Rest(w)
    BY <1>1, <1>2, <1>3, <1>6, RestIsAdvance
  <1>7. QED
    BY <1>4, <1>5, <1>6 DEF AddNext

LEMMA FollowUpIsAdvance ==
  ASSUME PipeInv, NEW w \in Agent,
         NextStage(w) \/ EnqueueDetectors(w) \/ CheckBarrier(w) \/ PassBarrier(w) \/ Close(w)
  PROVE  Lease!Next \/ UNCHANGED Lease!vars
  <1>1. /\ TypeOK /\ StoreInv /\ pc[w] \in {"advance", "barrier"} /\ UNCHANGED lapses
    BY DEF PipeInv, NextStage, EnqueueDetectors, CheckBarrier, PassBarrier, Close, budget
  <1>2. NoGoal \in Payload /\ {"cartographer", "reporter", "triager"} \subseteq Role
    BY PipelineAssumption DEF PipelineRoles, Singletons
  <1>3. CASE Rest(w)
    <2>1. \/ UNCHANGED store
          \/ \E role \in Role, payload \in Payload :
               AddTaskIfAbsent(role, payload) \/ AddTask(role, payload)
      BY <1>2 DEF NextStage, EnqueueDetectors, CheckBarrier, PassBarrier, Close
    <2>2. QED
      BY <1>1, <1>3, <2>1, RestIsAdvance
  <1>4. ASSUME NEW label \in {"enqueue", "barrier"}, Goto(w, label), pc[w] = "advance",
               UNCHANGED <<store, cur>>
        PROVE  UNCHANGED Lease!vars
    <2>1. Phases' = Phases
      BY <1>1, <1>4, PhaseOf, Stays
    <2>2. QED
      BY <1>1, <1>4, <2>1 DEF Lease!vars, store, Phases
  <1>5. QED
    BY <1>3, <1>4 DEF NextStage, EnqueueDetectors, CheckBarrier, PassBarrier, Close

\* What handlers do between claim and completion is not seen.
LEMMA HandlersAreQuiet ==
  ASSUME PipeInv, NEW w \in Agent,
         Start(w) \/ Index(w) \/ Detect(w) \/ Triage(w) \/ Report(w) \/ Die(w)
  PROVE  UNCHANGED Lease!vars
  <1>1. TypeOK /\ UNCHANGED <<store, cur, lapses>>
    BY DEF PipeInv, Start, Index, Detect, Triage, Report, Die, budget
  <1>2. Phases' = Phases
    <2>1. CASE Die(w)
      BY <1>1, <2>1, PhaseOf, Stays DEF Die
    <2>2. CASE Start(w)
      BY <1>1, <2>2, PhaseOf, Stays DEF Start
    <2>3. CASE Index(w) \/ Triage(w) \/ Report(w)
      BY <1>1, <2>3, PhaseOf, Stays DEF Index, Triage, Report
    <2>4. CASE Detect(w)
      <3>1. PICK label \in {"complete", "goals"} : Goto(w, label)
        BY <2>4 DEF Detect
      <3>2. QED
        BY <1>1, <2>4, <3>1, PhaseOf, Stays DEF Detect
    <2>5. QED
      BY <2>1, <2>2, <2>3, <2>4
  <1>3. QED
    BY <1>1, <1>2 DEF Lease!vars, store, Phases

LEMMA BeatIsBeat ==
  ASSUME TypeOK, NEW w \in Agent, Beat(w)
  PROVE  Lease!Next
  <1>1. Phases[w] # "idle" /\ Phases' = Phases
    BY PhaseOf, PhasesSame DEF Beat, Busy, local
  <1>2. Lease!Heartbeat(cur[w].task, cur[w].attempt)
    BY SameQueue DEF Beat
  <1>3. Lease!Beat(w)
    BY <1>1, <1>2 DEF Lease!Beat, Phases, Beat, local, budget
  <1>4. QED
    BY <1>3 DEF Lease!Next

LEMMA LapseIsLapse ==
  ASSUME TypeOK, NEW c \in claims, Lapse(c)
  PROVE  Lease!Next
  <1>1. c.agent \in Agent
    BY DEF TypeOK, StoreTypeOK, ClaimRow
  <1>2. Lease!Held(c) <=> Held(c)
    BY <1>1, PhaseOf DEF Lease!Held, Lease!IdOf, Held, Phases
  <1>3. Phases' = Phases
    BY PhasesSame DEF Lapse, local
  <1>4. Lease!Lapse(c)
    BY <1>2, <1>3 DEF Lease!Lapse, Lapse, Phases, local
  <1>5. QED
    BY <1>4 DEF Lease!Next

LEMMA ReapIsReap ==
  ASSUME Reap
  PROVE  Lease!Next
  <1>1. Phases' = Phases
    BY PhasesSame DEF Reap, local
  <1>2. Lease!StaleClaims # {} /\ Lease!ReclaimStaleClaims
    BY SameQueue DEF Reap
  <1>3. Lease!Reap
    BY <1>1, <1>2 DEF Lease!Reap, Reap, Phases, local, budget
  <1>4. QED
    BY <1>3 DEF Lease!Next

LEMMA MainIsLease ==
  ASSUME PipeInv, Seed \/ Stop \/ MainCancelled \/ MainRead \/ MainFail \/ MainClose
  PROVE  Lease!Next \/ UNCHANGED Lease!vars
  <1>1. StoreInv /\ Phases' = Phases /\ UNCHANGED <<cur, lapses>>
    BY PhasesSame
    DEF PipeInv, Seed, Stop, MainCancelled, MainRead, MainFail, MainClose, local, budget
  <1>2. CASE Seed
    <2>1. NoGoal \in Payload /\ "indexer" \in Role
      BY PipelineAssumption DEF PipelineRoles, Singletons
    <2>2. QED
      BY <1>1, <1>2, <2>1, AddIsEnqueue DEF Seed
  <1>3. CASE Stop \/ MainCancelled \/ MainRead \/ MainFail \/ MainClose
    <2>1. UNCHANGED store
      BY <1>3 DEF Stop, MainCancelled, MainRead, MainFail, MainClose
    <2>2. QED
      BY <1>1, <2>1 DEF Lease!vars, store, Phases
  <1>4. QED
    BY <1>2, <1>3

LEMMA StepIsLease ==
  ASSUME PipeInv, [Next]_vars
  PROVE  Lease!Next \/ UNCHANGED Lease!vars
  <1>1. TypeOK
    BY DEF PipeInv
  <1>2. ASSUME NEW w \in Agent, Claim(w) \/ LateClaim(w)
        PROVE  Lease!Next
    BY <1>1, <1>2, TakeIsClaim DEF Claim, LateClaim
  <1>3. ASSUME NEW w \in Agent, Cancelled(w) \/ Fail(w)
        PROVE  Lease!Next
    <2>1. /\ Busy(w) /\ Rest(w) /\ UNCHANGED lapses
          /\ ReleaseTask(cur[w].task) \/ UNCHANGED store
      BY <1>3 DEF Cancelled, Fail, Busy, budget
    <2>2. QED
      BY <1>1, <2>1, ReleaseIsGiveUp
  <1>4. ASSUME NEW w \in Agent, WorkerStep(w) \/ Die(w) \/ Beat(w)
        PROVE  Lease!Next \/ UNCHANGED Lease!vars
    BY <1>1, <1>2, <1>3, <1>4, HandlersAreQuiet, CompleteIsFinish, AddNextIsLease,
       FollowUpIsAdvance, BeatIsBeat
    DEF WorkerStep
  <1>5. CASE (\E c \in claims : Lapse(c)) \/ Reap
    BY <1>1, <1>5, LapseIsLapse, ReapIsReap
  <1>6. CASE Stop \/ MainStep \/ MainFail
    BY <1>6, MainIsLease DEF MainStep
  <1>7. CASE UNCHANGED vars
    BY <1>7, PhasesSame DEF vars, local, budget, Lease!vars, store, Phases
  <1>8. QED
    BY <1>2, <1>3, <1>4, <1>5, <1>6, <1>7 DEF Next

\* Every scan is a run of WorkerLease, with its threads as workers: each step
\* of a handler, of the main thread or of the operator is there an enqueueing,
\* a part of the claim, completion and release of one task by its thread, or
\* nothing.
THEOREM ScanImplementsWorkerLease == Spec => ImplementsWorkerLease
  <1>1. Init => Lease!Init
    <2> SUFFICES ASSUME Init PROVE Lease!Init
      OBVIOUS
    <2>1. \A w \in Agent : Phase(w) = "idle"
      BY DEF Init, Phase
    <2>2. QED
      BY <2>1, SameQueue DEF Init, Lease!Init, Lease!NoTask, NoTask
  <1>2. PipeInv /\ [Next]_vars => [Lease!Next]_(Lease!vars)
    BY StepIsLease
  <1>3. QED
    BY <1>1, <1>2, PipelineInvariant, PTL DEF Spec, ImplementsWorkerLease, Lease!Spec

----------------------------------------------------------------------------
(* What WorkerLeaseProofs has of any workers holds of the threads of a scan. *)

Proved == INSTANCE WorkerLeaseProofs WITH
  Serves <- [w \in Agent |-> RolesOf(w)],
  Room <- Nat,
  holding <- cur,
  phase <- Phases

LEMMA Assumptions ==
  /\ Proved!StoreAssumption
  /\ Proved!LeaseAssumption
  <1>1. \A w \in Agent : RolesOf(w) \subseteq Role
    BY Threads
  <1>2. QED
    BY <1>1, StoreAssumption, PipelineAssumption
    DEF StoreAssumption, Proved!StoreAssumption, Proved!LeaseAssumption

\* Proved and Lease instantiate one module, with and without its theorems.
LEMMA SameProtocol == Lease!Spec => Proved!Spec
  <1>1. Lease!Init => Proved!Init
    BY DEF Lease!Init, Lease!StoreInit, Lease!NoTask,
           Proved!Init, Proved!StoreInit, Proved!NoTask, Phases
  <1>2. UNCHANGED Lease!vars => UNCHANGED Proved!vars
    BY DEF Lease!vars, Proved!vars, Phases
  <1>3. Lease!Next <=> Proved!Next
    BY DEF Phases, Lease!Next, Proved!Next,
       Lease!Enqueue, Lease!Claim, Lease!Beat, Lease!Finish, Lease!Advance, Lease!GiveUp,
       Lease!Lapse, Lease!Reap, Lease!LayDown, Lease!Held, Lease!IdOf, Lease!NoTask,
       Lease!store, Lease!Task, Lease!AddTask, Lease!AddTaskIfAbsent, Lease!RoleEnqueued,
       Lease!NewRow, Lease!ClaimTask, Lease!NewClaim, Lease!ClaimsOn, Lease!NextOpen,
       Lease!TasksIn, Lease!Claimed, Lease!Heartbeat, Lease!CompleteTask, Lease!Closed,
       Lease!ReleaseTask, Lease!Released, Lease!ReleaseLimit, Lease!StaleClaims,
       Lease!ReclaimStaleClaims,
       Proved!Enqueue, Proved!Claim, Proved!Beat, Proved!Finish, Proved!Advance,
       Proved!GiveUp, Proved!Lapse, Proved!Reap, Proved!LayDown, Proved!Held, Proved!IdOf,
       Proved!NoTask, Proved!store, Proved!Task, Proved!AddTask, Proved!AddTaskIfAbsent,
       Proved!RoleEnqueued, Proved!NewRow, Proved!ClaimTask, Proved!NewClaim,
       Proved!ClaimsOn, Proved!NextOpen, Proved!TasksIn, Proved!Claimed, Proved!Heartbeat,
       Proved!CompleteTask, Proved!Closed, Proved!ReleaseTask, Proved!Released,
       Proved!ReleaseLimit, Proved!StaleClaims, Proved!ReclaimStaleClaims
  <1>4. [Lease!Next]_(Lease!vars) => [Proved!Next]_(Proved!vars)
    BY <1>2, <1>3
  <1>5. QED
    BY <1>1, <1>4, PTL DEF Lease!Spec, Proved!Spec

LEMMA ScanFollowsProtocol == Spec => Proved!Spec
  BY ScanImplementsWorkerLease, SameProtocol DEF ImplementsWorkerLease

\* No two threads are at work on one task.
OneThreadPerTask ==
  \A v, w \in Agent : Busy(v) /\ Busy(w) /\ v # w => cur[v].task # cur[w].task

\* Principle IV of a scan: as long as no heartbeat of a thread at work has failed
\* to come, no task of the scan is in the hands of two threads, not even of the
\* detectors, which take their tasks from one family of roles.
THEOREM ScanWorkIsExclusive == Spec => [](lapses = 0 => OneThreadPerTask)
  <1>1. TypeOK /\ Proved!ExclusiveInv => (lapses = 0 => OneThreadPerTask)
    BY PhaseOf DEF Proved!ExclusiveInv, Proved!OneOwner, OneThreadPerTask
  <1>2. Proved!Spec => []Proved!ExclusiveInv
    BY Proved!WorkIsExclusive, Assumptions DEF Proved!StoreAssumption, Proved!LeaseAssumption
  <1>3. QED
    BY <1>1, <1>2, ScanFollowsProtocol, PipelineTypes, PTL

\* Principle III of a scan: a claim with a fresh heartbeat goes only when the
\* thread of that task is through with it, whatever the reaper does.
THEOREM ScanSparesFresh == Spec => Proved!ReaperSparesFresh
  <1>1. Proved!Spec => Proved!ReaperSparesFresh
    BY Proved!ReaperTakesStaleOnly, Assumptions
    DEF Proved!StoreAssumption, Proved!LeaseAssumption
  <1>2. QED
    BY <1>1, ScanFollowsProtocol

\* A job of a scan is handed out at most three times, however often its threads
\* fail, are stopped or lose their claims.
THEOREM ScanHandsOutThrice == Spec => []HandedOutThrice
  <1>1. PipeInv => HandedOutThrice
    BY DEF PipeInv, StoreInv
  <1>2. QED
    BY <1>1, PipelineInvariant, PTL
=============================================================================
