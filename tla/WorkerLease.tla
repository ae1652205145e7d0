---------------------------- MODULE WorkerLease ----------------------------
(***************************************************************************)
(* Any number of worker threads that share one task queue: the protocol of *)
(* orchestrator/workers.py (_worker_loop, its heartbeat thread and         *)
(* _reaper_loop) and of pipeline.run_task_safely, over the operations of   *)
(* TaskStore.  What the handlers do is left out here: a worker runs a task *)
(* for any time, then completes it or releases it, and a completed task    *)
(* whose follow-up (advance_after) fails is released as well.  Pipeline    *)
(* refines this module.                                                    *)
(*                                                                         *)
(* `holding` is what the thread itself believes, its local `task`; it is   *)
(* not told when the reaper takes the claim away.                          *)
(***************************************************************************)
EXTENDS TaskStore

CONSTANTS
  Serves,       \* roles[a]: the role family of each worker
  Room,         \* bound: the numbers of rows that leave room for one more
  MaxLapses     \* bound: how often a heartbeat fails to come for 90 s

ASSUME LeaseAssumption ==
  /\ Serves \in [Agent -> SUBSET Role]
  /\ Room \subseteq Nat
  /\ MaxLapses \in Nat

VARIABLES
  holding,    \* per worker: the task and attempt it is busy with
  phase,      \* per worker: idle, run (not completed yet), closed (completed)
  lapses      \* history: how many claims have lapsed

vars == <<tasks, claims, holding, phase, lapses>>

NoTask == [task |-> 0, attempt |-> 0]

IdOf(c) == [task |-> c.task, attempt |-> c.attempt]

\* The worker that made the claim is still before complete_task with it.
Held(c) == phase[c.agent] = "run" /\ holding[c.agent] = IdOf(c)

Init ==
  /\ StoreInit
  /\ holding = [a \in Agent |-> NoTask]
  /\ phase = [a \in Agent |-> "idle"]
  /\ lapses = 0

----------------------------------------------------------------------------
(* Actions. *)

\* seed_pipeline, the enqueue loops of the handlers.
Enqueue(role, payload) ==
  /\ Len(tasks) \in Room
  /\ AddTask(role, payload)
  /\ UNCHANGED <<holding, phase, lapses>>

\* An idle worker's poll that finds a task.
Claim(a, t) ==
  /\ phase[a] = "idle"
  /\ ClaimTask(a, Serves[a], t)
  /\ holding' = [holding EXCEPT ![a] = [task |-> t,
                                        attempt |-> tasks[t].attempts + 1]]
  /\ phase' = [phase EXCEPT ![a] = "run"]
  /\ UNCHANGED lapses

\* The heartbeat thread of a's task.  It also runs between complete_task
\* and the end of advance_after, where its claim is gone.
Beat(a) ==
  /\ phase[a] # "idle"
  /\ Heartbeat(holding[a].task, holding[a].attempt)
  /\ UNCHANGED <<holding, phase, lapses>>

\* 90 seconds without a heartbeat of c.  That is what happens to a claim that
\* nobody holds any more.  To a claim that is held it happens when its
\* heartbeat thread returned on an exception of store.heartbeat or could not
\* get at the store, or when the host was suspended; its worker goes on.
Lapse(c) ==
  /\ c.fresh
  /\ claims' = (claims \ {c}) \cup {[c EXCEPT !.fresh = FALSE]}
  /\ IF Held(c) THEN lapses < MaxLapses /\ lapses' = lapses + 1
     ELSE UNCHANGED lapses
  /\ UNCHANGED <<tasks, holding, phase>>

\* handle_task returned: complete_task.
Finish(a) ==
  /\ phase[a] = "run"
  /\ CompleteTask(holding[a].task)
  /\ phase' = [phase EXCEPT ![a] = "closed"]
  /\ UNCHANGED <<holding, lapses>>

LayDown(a) ==
  /\ holding' = [holding EXCEPT ![a] = NoTask]
  /\ phase' = [phase EXCEPT ![a] = "idle"]
  /\ UNCHANGED lapses

\* advance_after returned, with or without a last new task.
Advance(a) ==
  /\ phase[a] = "closed"
  /\ LayDown(a)
  /\ \/ UNCHANGED store
     \/ /\ Len(tasks) \in Room
        /\ \E role \in Role, payload \in Payload :
             AddTaskIfAbsent(role, payload) \/ AddTask(role, payload)

\* An exception out of handle_task, complete_task or advance_after.  The
\* release_task of its handler may raise as well.
GiveUp(a) ==
  /\ phase[a] # "idle"
  /\ ReleaseTask(holding[a].task) \/ UNCHANGED store
  /\ LayDown(a)

\* _reaper_loop.
Reap ==
  /\ StaleClaims # {}
  /\ ReclaimStaleClaims
  /\ UNCHANGED <<holding, phase, lapses>>

Next ==
  \/ \E role \in Role, payload \in Payload : Enqueue(role, payload)
  \/ \E a \in Agent :
       \/ \E t \in Task : Claim(a, t)
       \/ Beat(a)
       \/ Finish(a)
       \/ Advance(a)
       \/ GiveUp(a)
  \/ \E c \in claims : Lapse(c)
  \/ Reap

Spec == Init /\ [][Next]_vars

\* The reaper runs every 10 s, and without heartbeats a claim gets old.
FairSpec ==
  /\ Spec
  /\ WF_vars(Reap)
  /\ WF_vars(\E c \in claims : ~Held(c) /\ Lapse(c))

----------------------------------------------------------------------------
(* Properties. *)

Working(a, t) == phase[a] # "idle" /\ holding[a].task = t

\* The rows of both tables and the workers' locals have their types.
TypeOK ==
  /\ StoreTypeOK
  /\ holding \in [Agent -> [task : Nat, attempt : Nat]]
  /\ phase \in [Agent -> {"idle", "run", "closed"}]
  /\ lapses \in Nat

\* Two workers on the same task are on different attempts, so the later
\* claim id is never the earlier one: a late heartbeat of a worker that lost
\* its claim cannot keep another worker's claim alive.
DistinctAttempts ==
  \A a, b \in Agent, t \in Task :
    a # b /\ Working(a, t) /\ Working(b, t)
      => holding[a].attempt # holding[b].attempt

\* Principle III: a worker that keeps beating keeps its claim until it is done
\* with it itself.  Holds while no held claim has lapsed; a worker that lost its
\* claim completes and releases the task by its id and so strips the next one.
OnlyStaleStripped ==
  [][lapses' = 0 => \A c \in claims :
       c.fresh /\ Held(c) /\ (\A d \in claims' : IdOf(d) # IdOf(c))
         => ~Held(c)']_vars

\* Principle III for the reaper alone: what it takes away was stale.
ReaperSparesFresh ==
  [][\A c \in claims :
       c.fresh /\ (\A d \in claims' : IdOf(d) # IdOf(c))
         => \E a \in Agent : Working(a, c.task) /\ phase'[a] # phase[a]]_vars

\* Principle IV: a claim dies with its holder.  One that is left behind because
\* release_task raised is released in the end, whatever other workers do.
MortalClaims ==
  \A t \in {n + 1 : n \in Room} :
    (\E c \in claims : c.task = t /\ ~Held(c)) ~> (\A c \in ClaimsOn(t) : Held(c))

----------------------------------------------------------------------------
(* While no held claim lapses, the queue implements ExclusiveWork. *)

Owners(t) == {a \in Agent : Working(a, t)}

Status(state) ==
  CASE state = "claimed" -> "dropped"
    [] state = "open" -> "waiting"
    [] state \in {"closed", "blocked"} -> "over"

\* What a row is to an agent that has it in its hands, or to nobody.
Unit(owners, row) ==
  [status |-> IF owners # {} THEN "held" ELSE Status(row.state),
   owner |-> IF owners # {} THEN CHOOSE a \in owners : TRUE ELSE NoTask,
   tries |-> row.attempts]

Units == [t \in Task |-> Unit(Owners(t), tasks[t])]

Work == INSTANCE ExclusiveWork WITH
  MaxTries <- ReleaseLimit,
  Nobody <- NoTask,
  units <- Units

\* The steps of Work!Spec; that what is dropped is recovered is MortalClaims.
ImplementsExclusiveWork ==
  Work!Init /\ [][lapses' = 0 => Work!Next \/ UNCHANGED Units]_vars
=============================================================================
