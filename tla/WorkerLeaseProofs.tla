------------------------- MODULE WorkerLeaseProofs -------------------------
(***************************************************************************)
(* The safety of WorkerLease for any workers, roles, priorities, number of *)
(* tasks and number of lapsed heartbeats.  LeaseInv is inductive: StoreInv *)
(* is kept by every operation of the store (TaskStoreProofs), and the      *)
(* other conjuncts tie a worker's local view to the two tables.            *)
(***************************************************************************)
EXTENDS WorkerLease, TaskStoreProofs

\* What a busy worker holds is a row that exists, and an attempt that has
\* been made.  Without it a new claim could repeat an attempt.
HoldingIsReal ==
  \A a \in Agent : phase[a] # "idle" =>
    /\ holding[a].task \in Task
    /\ holding[a].attempt <= tasks[holding[a].task].attempts

LeaseInv ==
  /\ TypeOK
  /\ StoreInv
  /\ HoldingIsReal
  /\ DistinctAttempts

USE LeaseAssumption

\* The attempts counted in the rows are natural numbers.
LEMMA AttemptsAreNat ==
  ASSUME StoreTypeOK
  PROVE  \A t \in Task : tasks[t].attempts \in Nat
  BY TaskFacts DEF TaskRow

\* The initial state.
LEMMA InitLeaseInv == Init => LeaseInv
  <1> SUFFICES ASSUME Init PROVE LeaseInv
    OBVIOUS
  <1>1. tasks = << >> /\ claims = {} /\ Task = {}
    BY DEF Init, StoreInit, Task
  <1>2. TypeOK
    BY <1>1 DEF Init, TypeOK, StoreTypeOK, NoTask
  <1>3. StoreInv
    BY <1>1, <1>2 DEF TypeOK, StoreInv, ClaimedIffClaimRow, AttemptsFollowReleases,
                      HandedOutThrice
  <1>4. QED
    BY <1>1, <1>2, <1>3
       DEF Init, LeaseInv, HoldingIsReal, DistinctAttempts, Working

\* A step that changes no worker's view and keeps every row with its attempts:
\* what the store's own invariant says is all there is to show.
LEMMA StoreStepKeepsInv ==
  ASSUME LeaseInv, StoreInv', KeepsRows,
         UNCHANGED <<holding, phase>>, lapses' \in Nat
  PROVE  LeaseInv'
  <1>1. TypeOK'
    BY DEF LeaseInv, TypeOK, StoreInv
  <1>2. HoldingIsReal'
    BY DEF LeaseInv, HoldingIsReal, KeepsRows
  <1>3. DistinctAttempts'
    <2>1. \A a \in Agent : \A t : Working(a, t)' = Working(a, t)
      BY DEF Working
    <2>2. SUFFICES ASSUME NEW a \in Agent, NEW b \in Agent, NEW t \in Task', a # b,
                          Working(a, t)', Working(b, t)'
                   PROVE  holding'[a].attempt # holding'[b].attempt
      BY DEF DistinctAttempts
    <2>3. Working(a, t) /\ Working(b, t) /\ t \in Task
      BY <2>1, <2>2 DEF LeaseInv, HoldingIsReal, Working
    <2>4. QED
      BY <2>2, <2>3 DEF LeaseInv, DistinctAttempts
  <1>4. QED
    BY <1>1, <1>2, <1>3 DEF LeaseInv

LEMMA EnqueueKeepsInv ==
  ASSUME LeaseInv, NEW role \in Role, NEW payload \in Payload,
         Enqueue(role, payload)
  PROVE  LeaseInv'
  <1>1. StoreInv' /\ KeepsRows
    BY AddTaskKeepsInv DEF Enqueue, LeaseInv
  <1>2. UNCHANGED <<holding, phase>> /\ lapses' \in Nat
    BY DEF Enqueue, LeaseInv, TypeOK
  <1>3. QED
    BY <1>1, <1>2, StoreStepKeepsInv

LEMMA BeatKeepsInv ==
  ASSUME LeaseInv, NEW a \in Agent, Beat(a)
  PROVE  LeaseInv'
  <1>1. StoreInv'
    BY HeartbeatKeepsInv DEF Beat, LeaseInv
  <1>2. KeepsRows
    BY DEF Beat, Heartbeat, KeepsRows, Task
  <1>3. UNCHANGED <<holding, phase>> /\ lapses' \in Nat
    BY DEF Beat, LeaseInv, TypeOK
  <1>4. QED
    BY <1>1, <1>2, <1>3, StoreStepKeepsInv

LEMMA LapseKeepsInv ==
  ASSUME LeaseInv, NEW c \in claims, Lapse(c)
  PROVE  LeaseInv'
  <1> DEFINE old == [c EXCEPT !.fresh = FALSE]
  <1>1. old \in ClaimRow /\ old.task = c.task /\ old.agent = c.agent
                         /\ old.attempt = c.attempt
    BY DEF LeaseInv, TypeOK, StoreTypeOK, ClaimRow
  <1>2. claims' = (claims \ {c}) \cup {old} /\ tasks' = tasks /\ Task' = Task
    BY DEF Lapse, Task
  <1> HIDE DEF old
  <1>3. StoreTypeOK'
    BY <1>1, <1>2 DEF LeaseInv, TypeOK, StoreTypeOK
  <1>4. ClaimedIffClaimRow'
    BY <1>1, <1>2 DEF LeaseInv, StoreInv, ClaimedIffClaimRow, ClaimsOn
  <1>5. AttemptsFollowReleases' /\ HandedOutThrice'
    BY <1>2 DEF LeaseInv, StoreInv, AttemptsFollowReleases, HandedOutThrice
  <1>6. StoreInv' /\ KeepsRows
    BY <1>2, <1>3, <1>4, <1>5 DEF StoreInv, KeepsRows
  <1>7. UNCHANGED <<holding, phase>> /\ lapses' \in Nat
    BY DEF Lapse, LeaseInv, TypeOK
  <1>8. QED
    BY <1>6, <1>7, StoreStepKeepsInv

LEMMA ReapKeepsInv ==
  ASSUME LeaseInv, Reap
  PROVE  LeaseInv'
  <1>1. StoreInv' /\ KeepsRows
    BY ReclaimKeepsInv DEF Reap, LeaseInv
  <1>2. UNCHANGED <<holding, phase>> /\ lapses' \in Nat
    BY DEF Reap, LeaseInv, TypeOK
  <1>3. QED
    BY <1>1, <1>2, StoreStepKeepsInv

\* The claiming worker's attempt is one more than any attempt on the task that
\* is still being worked on.
LEMMA ClaimKeepsInv ==
  ASSUME LeaseInv, NEW a \in Agent, NEW t \in Task, Claim(a, t)
  PROVE  LeaseInv'
  <1> DEFINE n == tasks[t].attempts + 1
  <1>1. /\ StoreInv'
        /\ Task' = Task
        /\ \A u \in Task : tasks'[u].attempts =
             IF u = t THEN tasks[t].attempts + 1 ELSE tasks[u].attempts
    BY ClaimTaskKeepsInv DEF Claim, LeaseInv
  <1>2. \A u \in Task : tasks[u].attempts \in Nat
    BY AttemptsAreNat DEF LeaseInv, TypeOK
  <1>3. t \in Nat /\ n \in Nat
    BY <1>2, TaskFacts DEF LeaseInv, TypeOK
  <1>4. /\ phase[a] = "idle"
        /\ holding' = [holding EXCEPT ![a] = [task |-> t, attempt |-> n]]
        /\ phase' = [phase EXCEPT ![a] = "run"]
        /\ lapses' = lapses
        /\ claims' = claims \cup {NewClaim(a, t)}
    BY DEF Claim, ClaimTask
  <1>5. /\ holding \in [Agent -> [task : Nat, attempt : Nat]]
        /\ phase \in [Agent -> {"idle", "run", "closed"}]
    BY DEF LeaseInv, TypeOK
  <1>6. /\ holding'[a] = [task |-> t, attempt |-> n] /\ phase'[a] = "run"
        /\ \A b \in Agent : b # a => holding'[b] = holding[b] /\ phase'[b] = phase[b]
    BY <1>4, <1>5
  <1> HIDE DEF n
  <1>7. TypeOK'
    BY <1>1, <1>3, <1>4, <1>5 DEF TypeOK, StoreInv, LeaseInv
  <1>8. HoldingIsReal'
    <2>1. n <= tasks'[t].attempts
      BY <1>1, <1>3 DEF n
    <2>2. \A b \in Agent : phase[b] # "idle" =>
            /\ holding[b].task \in Task
            /\ holding[b].attempt \in Nat
            /\ holding[b].attempt <= tasks'[holding[b].task].attempts
      BY <1>1, <1>2, <1>5 DEF LeaseInv, HoldingIsReal
    <2>3. QED
      BY <1>1, <1>6, <2>1, <2>2 DEF HoldingIsReal
  <1>9. DistinctAttempts'
    <2>1. \A b \in Agent : b # a /\ Working(b, t) => holding[b].attempt # n
      BY <1>2, <1>5 DEF LeaseInv, HoldingIsReal, Working, n
    <2>2. /\ \A b \in Agent, u \in Task : b # a => Working(b, u)' = Working(b, u)
          /\ \A u \in Task : Working(a, u)' => u = t
      BY <1>6 DEF Working
    <2>3. holding'[a].attempt = n
      BY <1>6
    <2>4. SUFFICES ASSUME NEW b \in Agent, NEW c \in Agent, NEW u \in Task, b # c,
                          Working(b, u)', Working(c, u)'
                   PROVE  holding'[b].attempt # holding'[c].attempt
      BY <1>1 DEF DistinctAttempts
    <2>5. CASE b = a
      BY <1>6, <2>1, <2>2, <2>3, <2>4, <2>5
    <2>6. CASE c = a
      BY <1>6, <2>1, <2>2, <2>3, <2>4, <2>6
    <2>7. CASE b # a /\ c # a
      BY <1>6, <2>2, <2>4, <2>7 DEF LeaseInv, DistinctAttempts
    <2>8. QED
      BY <2>5, <2>6, <2>7
  <1>10. QED
    BY <1>1, <1>7, <1>8, <1>9 DEF LeaseInv

\* Finish, Advance and GiveUp change the view of the busy worker a only.
LEMMA WorkerStepKeepsInv ==
  ASSUME LeaseInv, StoreInv', KeepsRows, NEW a \in Agent, lapses' = lapses,
         \/ /\ phase' = [phase EXCEPT ![a] = "closed"] /\ UNCHANGED holding
            /\ phase[a] = "run"
         \/ /\ phase' = [phase EXCEPT ![a] = "idle"]
            /\ holding' = [holding EXCEPT ![a] = NoTask]
  PROVE  LeaseInv'
  <1>1. /\ holding \in [Agent -> [task : Nat, attempt : Nat]]
        /\ phase \in [Agent -> {"idle", "run", "closed"}]
        /\ NoTask \in [task : Nat, attempt : Nat]
    BY DEF LeaseInv, TypeOK, NoTask
  <1>2. \A b \in Agent : b # a => holding'[b] = holding[b] /\ phase'[b] = phase[b]
    BY <1>1
  <1>3. /\ phase'[a] # "idle" => phase[a] # "idle" /\ holding'[a] = holding[a]
        /\ holding' \in [Agent -> [task : Nat, attempt : Nat]]
        /\ phase' \in [Agent -> {"idle", "run", "closed"}]
    BY <1>1
  <1>4. TypeOK'
    BY <1>3 DEF TypeOK, StoreInv, LeaseInv
  <1>5. \A b \in Agent : phase'[b] # "idle" =>
          phase[b] # "idle" /\ holding'[b] = holding[b]
    BY <1>2, <1>3
  <1>6. HoldingIsReal'
    BY <1>5 DEF LeaseInv, HoldingIsReal, KeepsRows
  <1>7. DistinctAttempts'
    <2>1. SUFFICES ASSUME NEW b \in Agent, NEW c \in Agent, NEW t \in Task', b # c,
                          Working(b, t)', Working(c, t)'
                   PROVE  holding'[b].attempt # holding'[c].attempt
      BY DEF DistinctAttempts
    <2>2. Working(b, t) /\ Working(c, t) /\ t \in Task
      BY <1>5, <2>1 DEF LeaseInv, HoldingIsReal, Working
    <2>3. holding'[b] = holding[b] /\ holding'[c] = holding[c]
      BY <1>5, <2>1 DEF Working
    <2>4. QED
      BY <2>1, <2>2, <2>3 DEF LeaseInv, DistinctAttempts
  <1>8. QED
    BY <1>4, <1>6, <1>7 DEF LeaseInv

LEMMA FinishKeepsInv ==
  ASSUME LeaseInv, NEW a \in Agent, Finish(a)
  PROVE  LeaseInv'
  <1>1. holding[a].task \in Task
    BY DEF Finish, LeaseInv, HoldingIsReal
  <1>2. StoreInv' /\ KeepsRows
    BY <1>1, CompleteTaskKeepsInv DEF Finish, LeaseInv
  <1>3. QED
    BY <1>2, WorkerStepKeepsInv DEF Finish

LEMMA UnchangedStoreKeepsInv ==
  ASSUME StoreInv, UNCHANGED store
  PROVE  StoreInv' /\ KeepsRows
  BY DEF store, StoreInv, StoreTypeOK, ClaimedIffClaimRow, ClaimsOn, Task,
         AttemptsFollowReleases, HandedOutThrice, KeepsRows

LEMMA AdvanceKeepsInv ==
  ASSUME LeaseInv, NEW a \in Agent, Advance(a)
  PROVE  LeaseInv'
  <1>1. StoreInv' /\ KeepsRows
    <2>1. CASE UNCHANGED store
      BY <2>1, UnchangedStoreKeepsInv DEF LeaseInv
    <2>2. CASE \E role \in Role, payload \in Payload :
                 AddTaskIfAbsent(role, payload) \/ AddTask(role, payload)
      BY <2>2, AddTaskIfAbsentKeepsInv, AddTaskKeepsInv
         DEF LeaseInv
    <2>3. QED
      BY <2>1, <2>2 DEF Advance
  <1>2. QED
    BY <1>1, WorkerStepKeepsInv DEF Advance, LayDown

LEMMA GiveUpKeepsInv ==
  ASSUME LeaseInv, NEW a \in Agent, GiveUp(a)
  PROVE  LeaseInv'
  <1>1. holding[a].task \in Task
    BY DEF GiveUp, LeaseInv, HoldingIsReal
  <1>2. StoreInv' /\ KeepsRows
    BY <1>1, ReleaseTaskKeepsInv, UnchangedStoreKeepsInv DEF GiveUp, LeaseInv
  <1>3. QED
    BY <1>2, WorkerStepKeepsInv DEF GiveUp, LayDown

\* LeaseInv is inductive.
LEMMA NextLeaseInv ==
  ASSUME LeaseInv, [Next]_vars
  PROVE  LeaseInv'
  <1>1. CASE \E role \in Role, payload \in Payload : Enqueue(role, payload)
    BY <1>1, EnqueueKeepsInv
  <1>2. ASSUME NEW a \in Agent, NEW t \in Task, Claim(a, t)
        PROVE  LeaseInv'
    BY <1>2, ClaimKeepsInv
  <1>3. ASSUME NEW a \in Agent, Beat(a) \/ Finish(a) \/ Advance(a) \/ GiveUp(a)
        PROVE  LeaseInv'
    BY <1>3, BeatKeepsInv, FinishKeepsInv, AdvanceKeepsInv, GiveUpKeepsInv
  <1>4. ASSUME NEW c \in claims, Lapse(c)
        PROVE  LeaseInv'
    BY <1>4, LapseKeepsInv
  <1>5. CASE Reap
    BY <1>5, ReapKeepsInv
  <1>6. CASE UNCHANGED vars
    BY <1>6 DEF vars, LeaseInv, TypeOK, StoreInv, StoreTypeOK, ClaimedIffClaimRow,
                ClaimsOn, Task, AttemptsFollowReleases, HandedOutThrice,
                HoldingIsReal, DistinctAttempts, Working
  <1>7. QED
    BY <1>1, <1>2, <1>3, <1>4, <1>5, <1>6 DEF Next

\* The inductive invariant of WorkerLease.
THEOREM LeaseInvariant == Spec => []LeaseInv
  BY InitLeaseInv, NextLeaseInv, PTL DEF Spec

----------------------------------------------------------------------------
(* The properties that the runs of WorkerLease check on small instances. *)

\* Type correctness of the tables and of the workers' locals.
THEOREM TypeCorrect == Spec => []TypeOK
  BY LeaseInvariant, PTL DEF LeaseInv

\* The tables `tasks` and `claims` agree in every reachable state.
THEOREM TablesAgree == Spec => []ClaimedIffClaimRow
  BY LeaseInvariant, PTL DEF LeaseInv, StoreInv

\* No task is handed out a fourth time.
THEOREM AtMostThreeAttempts == Spec => []HandedOutThrice
  BY LeaseInvariant, PTL DEF LeaseInv, StoreInv

\* Workers on the same task are on different attempts.
THEOREM AttemptsAreDistinct == Spec => []DistinctAttempts
  BY LeaseInvariant, PTL DEF LeaseInv

LEMMA FreshClaimEnds ==
  ASSUME LeaseInv, [Next]_vars, NEW c \in claims, c.fresh,
         \A d \in claims' : IdOf(d) # IdOf(c)
  PROVE  \E a \in Agent : Working(a, c.task) /\ phase'[a] # phase[a]
  <1> DEFINE Ended == \E a \in Agent : Working(a, c.task) /\ phase'[a] # phase[a]
  <1>1. c \notin claims'
    OBVIOUS
  <1>2. CASE \E role \in Role, payload \in Payload : Enqueue(role, payload)
    BY <1>1, <1>2 DEF Enqueue, AddTask
  <1>3. CASE \E a \in Agent, t \in Task : Claim(a, t)
    BY <1>1, <1>3 DEF Claim, ClaimTask
  <1>4. ASSUME NEW a \in Agent, Beat(a)
        PROVE  FALSE
    <2> DEFINE beaten == IF c.task = holding[a].task /\ c.attempt = holding[a].attempt
                         THEN [c EXCEPT !.fresh = TRUE] ELSE c
    <2>1. beaten \in claims'
      BY <1>4 DEF Beat, Heartbeat
    <2>2. beaten.task = c.task /\ beaten.attempt = c.attempt
      BY DEF LeaseInv, TypeOK, StoreTypeOK, ClaimRow
    <2> HIDE DEF beaten
    <2>3. QED
      BY <2>1, <2>2 DEF IdOf
  <1>5. ASSUME NEW d \in claims, Lapse(d)
        PROVE  FALSE
    <2> DEFINE lapsed == [d EXCEPT !.fresh = FALSE]
    <2>1. lapsed \in claims' /\ c = d
      BY <1>1, <1>5 DEF Lapse
    <2>2. lapsed.task = d.task /\ lapsed.attempt = d.attempt
      BY DEF LeaseInv, TypeOK, StoreTypeOK, ClaimRow
    <2> HIDE DEF lapsed
    <2>3. QED
      BY <2>1, <2>2 DEF IdOf
  <1>6. ASSUME NEW a \in Agent, Finish(a) \/ GiveUp(a)
        PROVE  Ended
    <2>1. c.task = holding[a].task
      BY <1>1, <1>6 DEF Finish, GiveUp, CompleteTask, ReleaseTask, ClaimsOn, store
    <2>2. phase \in [Agent -> {"idle", "run", "closed"}]
      BY DEF LeaseInv, TypeOK
    <2>3. phase'[a] # phase[a] /\ phase[a] # "idle"
      BY <1>6, <2>2 DEF Finish, GiveUp, LayDown
    <2>4. QED
      BY <2>1, <2>3 DEF Working
  <1>7. CASE \E a \in Agent : Advance(a)
    BY <1>1, <1>7 DEF Advance, AddTaskIfAbsent, AddTask, store
  <1>8. CASE Reap
    BY <1>1, <1>8 DEF Reap, ReclaimStaleClaims, StaleClaims
  <1>9. CASE UNCHANGED vars
    BY <1>1, <1>9 DEF vars
  <1>10. QED
    BY <1>2, <1>3, <1>4, <1>5, <1>6, <1>7, <1>8, <1>9 DEF Next

\* A fresh claim goes only in a step of a worker that is on its task: the
\* reaper, a heartbeat or another task's worker never takes it away.
THEOREM ReaperTakesStaleOnly == Spec => ReaperSparesFresh
  <1>1. LeaseInv /\ [Next]_vars =>
          [\A c \in claims : c.fresh /\ (\A d \in claims' : IdOf(d) # IdOf(c)) =>
             \E a \in Agent : Working(a, c.task) /\ phase'[a] # phase[a]]_vars
    BY FreshClaimEnds
  <1>2. QED
    BY <1>1, LeaseInvariant, PTL DEF Spec, ReaperSparesFresh

----------------------------------------------------------------------------
(* While no held claim has lapsed, a task is in one worker's hands. *)

\* The claim of a worker that has not completed its task is there and fresh.
KeepsClaim(a) ==
  phase[a] = "run" => \E c \in claims : /\ c.agent = a /\ c.fresh
                                        /\ IdOf(c) = holding[a]

\* A task is closed until the worker that completed it is through with it.
StaysClosed(a) == phase[a] = "closed" => tasks[holding[a].task].state = "closed"

OneOwner ==
  \A a, b \in Agent : phase[a] # "idle" /\ phase[b] # "idle" /\ a # b
    => holding[a].task # holding[b].task

ExclusiveInv ==
  lapses = 0 => OneOwner /\ \A a \in Agent : KeepsClaim(a) /\ StaysClosed(a)

\* What a busy worker's task looks like meanwhile.
LEMMA BusyTask ==
  ASSUME LeaseInv, ExclusiveInv, lapses = 0, NEW a \in Agent, phase[a] # "idle"
  PROVE  /\ holding[a].task \in Task
         /\ \/ phase[a] = "run" /\ tasks[holding[a].task].state = "claimed"
            \/ phase[a] = "closed" /\ tasks[holding[a].task].state = "closed"
         /\ \A c \in ClaimsOn(holding[a].task) : c.agent = a /\ c.fresh /\ Held(c)
  <1>1. holding[a].task \in Task
    BY DEF LeaseInv, HoldingIsReal
  <1>2. CASE phase[a] = "run"
    <2>1. PICK c \in claims : c.agent = a /\ c.fresh /\ IdOf(c) = holding[a]
      BY <1>2 DEF ExclusiveInv, KeepsClaim
    <2>2. c.task = holding[a].task
      BY <2>1 DEF IdOf
    <2>3. /\ tasks[c.task].state = "claimed"
          /\ \A d \in claims : d.task = c.task => d = c
      BY DEF LeaseInv, StoreInv, ClaimedIffClaimRow
    <2>4. QED
      BY <1>1, <1>2, <2>1, <2>2, <2>3 DEF ClaimsOn, Held
  <1>3. CASE phase[a] = "closed"
    <2>1. tasks[holding[a].task].state = "closed"
      BY <1>3 DEF ExclusiveInv, StaysClosed
    <2>2. ClaimsOn(holding[a].task) = {}
      BY <2>1 DEF LeaseInv, StoreInv, ClaimedIffClaimRow, ClaimsOn
    <2>3. QED
      BY <1>1, <1>3, <2>1, <2>2
  <1>4. phase[a] \in {"idle", "run", "closed"}
    BY DEF LeaseInv, TypeOK
  <1>5. QED
    BY <1>2, <1>3, <1>4

\* A step that leaves every worker's view, and rows and claims of the tasks
\* that are worked on, as they are.
LEMMA OthersKeepExclusive ==
  ASSUME LeaseInv, ExclusiveInv, lapses = 0, NEW B \in SUBSET Agent,
         \A b \in B : phase'[b] = phase[b] /\ holding'[b] = holding[b],
         \A b \in B : phase[b] # "idle" =>
           /\ tasks'[holding[b].task].state = tasks[holding[b].task].state
           /\ \A c \in ClaimsOn(holding[b].task) :
                c.fresh => \E d \in claims' : d.agent = c.agent /\ IdOf(d) = IdOf(c) /\ d.fresh
  PROVE  \A b \in B : KeepsClaim(b)' /\ StaysClosed(b)'
  <1> SUFFICES ASSUME NEW b \in B PROVE KeepsClaim(b)' /\ StaysClosed(b)'
    OBVIOUS
  <1>1. KeepsClaim(b) /\ StaysClosed(b) /\ b \in Agent
    BY DEF ExclusiveInv
  <1>2. KeepsClaim(b)'
    <2> SUFFICES ASSUME phase'[b] = "run"
                 PROVE  \E d \in claims' : d.agent = b /\ d.fresh /\ IdOf(d) = holding'[b]
      BY DEF KeepsClaim, IdOf
    <2>1. PICK c \in claims : c.agent = b /\ c.fresh /\ IdOf(c) = holding[b]
      BY <1>1 DEF KeepsClaim
    <2>2. c \in ClaimsOn(holding[b].task)
      BY <2>1 DEF ClaimsOn, IdOf
    <2>3. PICK d \in claims' : d.agent = c.agent /\ IdOf(d) = IdOf(c) /\ d.fresh
      BY <2>1, <2>2
    <2>4. QED
      BY <2>1, <2>3
  <1>3. StaysClosed(b)'
    BY <1>1 DEF StaysClosed
  <1>4. QED
    BY <1>2, <1>3

\* Whoever is busy after a step was busy before it with the same task, but for a
\* worker that claims an open one.
LEMMA OwnersStayOne ==
  ASSUME LeaseInv, ExclusiveInv, lapses = 0,
         \A b \in Agent : phase'[b] # "idle" => phase[b] # "idle" /\ holding'[b] = holding[b]
  PROVE  OneOwner'
  BY DEF ExclusiveInv, OneOwner

LEMMA AddTaskKeepsStates ==
  ASSUME StoreInv, NEW role \in Role, NEW payload \in Payload,
         AddTask(role, payload) \/ AddTaskIfAbsent(role, payload) \/ UNCHANGED store
  PROVE  claims' = claims /\ \A t \in Task : tasks'[t] = tasks[t]
  <1>1. tasks \in Seq(TaskRow) /\ NewRow(role, payload) \in TaskRow
    BY DEF StoreInv, StoreTypeOK, NewRow, TaskRow
  <1>2. CASE AddTask(role, payload)
    <2>1. tasks' = Append(tasks, NewRow(role, payload)) /\ claims' = claims
      BY <1>2 DEF AddTask
    <2>2. Task = 1..Len(tasks)
      BY TaskFacts DEF StoreInv
    <2>3. QED
      BY <1>1, <2>1, <2>2, AppendProperties
  <1>3. CASE UNCHANGED store
    BY <1>3 DEF store
  <1>4. QED
    BY <1>2, <1>3 DEF AddTaskIfAbsent

LEMMA ClaimKeepsExclusive ==
  ASSUME LeaseInv, ExclusiveInv, lapses = 0, NEW a \in Agent, NEW t \in Task, Claim(a, t)
  PROVE  OneOwner' /\ \A b \in Agent : KeepsClaim(b)' /\ StaysClosed(b)'
  <1> DEFINE n == tasks[t].attempts + 1
             new == NewClaim(a, t)
  <1>1. /\ holding \in [Agent -> [task : Nat, attempt : Nat]]
        /\ phase \in [Agent -> {"idle", "run", "closed"}]
    BY DEF LeaseInv, TypeOK
  <1>2. /\ holding'[a] = [task |-> t, attempt |-> n] /\ phase'[a] = "run"
        /\ \A b \in Agent \ {a} : holding'[b] = holding[b] /\ phase'[b] = phase[b]
    BY <1>1 DEF Claim
  <1>3. /\ tasks[t].state = "open"
        /\ tasks' = [tasks EXCEPT ![t] = Claimed(@)] /\ claims' = claims \cup {new}
    BY DEF Claim, ClaimTask, NextOpen, TasksIn
  <1>4. \A b \in Agent : phase[b] # "idle" => holding[b].task \in Task /\ holding[b].task # t
    BY <1>3, BusyTask
  <1>5. new.agent = a /\ new.fresh /\ IdOf(new) = holding'[a]
    BY <1>2 DEF NewClaim, IdOf
  <1>6. OneOwner'
    BY <1>2, <1>4 DEF ExclusiveInv, OneOwner
  <1>7. KeepsClaim(a)' /\ StaysClosed(a)'
    BY <1>2, <1>3, <1>5 DEF KeepsClaim, StaysClosed, IdOf
  <1>8. \A b \in Agent \ {a} : KeepsClaim(b)' /\ StaysClosed(b)'
    <2>1. \A b \in Agent : phase[b] # "idle" => tasks'[holding[b].task] = tasks[holding[b].task]
      BY <1>3, <1>4 DEF Task
    <2>2. claims \subseteq claims'
      BY <1>3
    <2>3. \A c \in claims : c.fresh => \E d \in claims' : /\ d.agent = c.agent /\ d.fresh
                                                       /\ IdOf(d) = IdOf(c)
      BY <2>2
    <2> HIDE DEF n, new
    <2>4. QED
      BY <1>2, <2>1, <2>3, OthersKeepExclusive DEF ClaimsOn
  <1>9. QED
    BY <1>6, <1>7, <1>8

\* Finish, Advance and GiveUp: the other workers are on other tasks.
LEMMA WorkerKeepsExclusive ==
  ASSUME LeaseInv, ExclusiveInv, lapses = 0, NEW a \in Agent,
         Finish(a) \/ Advance(a) \/ GiveUp(a)
  PROVE  OneOwner' /\ \A b \in Agent : KeepsClaim(b)' /\ StaysClosed(b)'
  <1> DEFINE u == holding[a].task
  <1>1. /\ holding \in [Agent -> [task : Nat, attempt : Nat]]
        /\ phase \in [Agent -> {"idle", "run", "closed"}]
        /\ StoreInv
    BY DEF LeaseInv, TypeOK
  <1>2. phase[a] # "idle" /\ u \in Task
    BY BusyTask DEF Finish, Advance, GiveUp
  <1>3. /\ \A b \in Agent \ {a} : holding'[b] = holding[b] /\ phase'[b] = phase[b]
        /\ phase'[a] # "idle" => holding'[a] = holding[a]
    BY <1>1 DEF Finish, Advance, GiveUp, LayDown
  <1>4. OneOwner'
    BY <1>2, <1>3, OwnersStayOne
  <1>5. /\ \A t \in Task : t # u => tasks'[t] = tasks[t]
        /\ \A c \in claims : c.task # u => c \in claims'
    <2>1. CASE UNCHANGED store
      BY <2>1 DEF store
    <2>2. CASE CompleteTask(u) \/ ReleaseTask(u)
      BY <2>2 DEF CompleteTask, ReleaseTask, ClaimsOn, Task
    <2>3. CASE Advance(a)
      BY <1>1, <2>1, <2>3, AddTaskKeepsStates DEF Advance
    <2>4. QED
      BY <2>1, <2>2, <2>3 DEF Finish, GiveUp
  <1>6. KeepsClaim(a)' /\ StaysClosed(a)'
    <2>1. CASE Finish(a)
      <3>1. phase'[a] = "closed" /\ holding'[a] = holding[a]
        BY <1>1, <2>1 DEF Finish
      <3>2. tasks'[u].state = "closed"
        <4>1. tasks[u] \in TaskRow
          BY <1>1, <1>2, TaskFacts DEF StoreInv
        <4>2. Closed(tasks[u]).state = "closed"
          BY <4>1 DEF Closed, TaskRow
        <4>3. tasks' = [tasks EXCEPT ![u] = Closed(tasks[u])]
          BY <2>1 DEF Finish, CompleteTask
        <4>4. QED
          BY <1>2, <4>2, <4>3 DEF Task
      <3>3. QED
        BY <3>1, <3>2 DEF KeepsClaim, StaysClosed
    <2>2. CASE Advance(a) \/ GiveUp(a)
      BY <1>1, <2>2 DEF Advance, GiveUp, LayDown, KeepsClaim, StaysClosed
    <2>3. QED
      BY <2>1, <2>2
  <1>7. \A b \in Agent \ {a} : KeepsClaim(b)' /\ StaysClosed(b)'
    <2>1. \A b \in Agent \ {a} : phase[b] # "idle" => holding[b].task \in Task \ {u}
      BY <1>2, BusyTask DEF ExclusiveInv, OneOwner
    <2> HIDE DEF u
    <2>2. \A b \in Agent \ {a} : phase[b] # "idle" =>
            /\ tasks'[holding[b].task].state = tasks[holding[b].task].state
            /\ \A c \in ClaimsOn(holding[b].task) :
                 c.fresh => \E d \in claims' : d.agent = c.agent /\ IdOf(d) = IdOf(c) /\ d.fresh
      BY <1>5, <2>1 DEF ClaimsOn
    <2>3. QED
      BY <1>3, <2>2, OthersKeepExclusive
  <1>8. QED
    BY <1>4, <1>6, <1>7

LEMMA BeatKeepsExclusive ==
  ASSUME LeaseInv, ExclusiveInv, lapses = 0, NEW a \in Agent, Beat(a)
  PROVE  OneOwner' /\ \A b \in Agent : KeepsClaim(b)' /\ StaysClosed(b)'
  <1> DEFINE Beaten(c) == IF c.task = holding[a].task /\ c.attempt = holding[a].attempt
                          THEN [c EXCEPT !.fresh = TRUE] ELSE c
  <1>1. claims' = {Beaten(c) : c \in claims} /\ UNCHANGED <<tasks, holding, phase>>
    BY DEF Beat, Heartbeat
  <1>2. ASSUME NEW c \in claims, c.fresh
        PROVE  \E d \in claims' : d.agent = c.agent /\ IdOf(d) = IdOf(c) /\ d.fresh
    <2>1. c \in ClaimRow
      BY DEF LeaseInv, TypeOK, StoreTypeOK
    <2>2. Beaten(c).agent = c.agent /\ IdOf(Beaten(c)) = IdOf(c) /\ Beaten(c).fresh
      BY <1>2, <2>1 DEF ClaimRow, IdOf
    <2>3. Beaten(c) \in claims'
      BY <1>1
    <2> HIDE DEF Beaten
    <2>4. QED
      BY <2>2, <2>3
  <1>3. OneOwner'
    BY <1>1, OwnersStayOne
  <1>4. QED
    BY <1>1, <1>2, <1>3, OthersKeepExclusive DEF ClaimsOn

\* A claim that lapses without being counted is nobody's.
LEMMA LapseKeepsExclusive ==
  ASSUME LeaseInv, ExclusiveInv, lapses = 0, NEW c \in claims, Lapse(c), lapses' = 0
  PROVE  OneOwner' /\ \A b \in Agent : KeepsClaim(b)' /\ StaysClosed(b)'
  <1>1. /\ ~Held(c) /\ UNCHANGED <<tasks, holding, phase>>
        /\ \A d \in claims : d # c => d \in claims'
    BY DEF Lapse
  <1>2. \A b \in Agent : phase[b] # "idle" => \A d \in ClaimsOn(holding[b].task) : d # c
    BY <1>1, BusyTask
  <1>3. \A b \in Agent : phase[b] # "idle" =>
          \A d \in ClaimsOn(holding[b].task) : d \in claims'
    BY <1>1, <1>2 DEF ClaimsOn
  <1>4. OneOwner'
    BY <1>1, OwnersStayOne
  <1>5. QED
    BY <1>1, <1>3, <1>4, OthersKeepExclusive

LEMMA ReapKeepsExclusive ==
  ASSUME LeaseInv, ExclusiveInv, lapses = 0, Reap
  PROVE  OneOwner' /\ \A b \in Agent : KeepsClaim(b)' /\ StaysClosed(b)'
  <1>1. /\ UNCHANGED <<holding, phase>>
        /\ claims' = claims \ StaleClaims
        /\ \A t \in Task : (\A c \in StaleClaims : c.task # t) => tasks'[t] = tasks[t]
    BY DEF Reap, ReclaimStaleClaims
  <1>2. \A c \in StaleClaims : c \in claims /\ ~c.fresh
    BY DEF StaleClaims
  <1>3. \A b \in Agent : phase[b] # "idle" =>
          /\ holding[b].task \in Task
          /\ \A c \in StaleClaims : c.task # holding[b].task
    BY <1>2, BusyTask DEF ClaimsOn
  <1>4. \A b \in Agent : phase[b] # "idle" =>
          /\ tasks'[holding[b].task] = tasks[holding[b].task]
          /\ \A c \in ClaimsOn(holding[b].task) : c.fresh => c \in claims'
    BY <1>1, <1>2, <1>3 DEF ClaimsOn
  <1>5. OneOwner'
    BY <1>1, OwnersStayOne
  <1>6. QED
    BY <1>1, <1>4, <1>5, OthersKeepExclusive

LEMMA LapsesStay ==
  ASSUME LeaseInv, [Next]_vars, lapses' = 0
  PROVE  lapses = 0
  BY DEF LeaseInv, TypeOK, Next, Enqueue, Claim, Beat, Finish, Advance, GiveUp, Lapse, Reap,
         LayDown, vars

\* ExclusiveInv is inductive, given LeaseInv.
LEMMA NextExclusiveInv ==
  ASSUME LeaseInv, ExclusiveInv, [Next]_vars
  PROVE  ExclusiveInv'
  <1> SUFFICES ASSUME lapses' = 0
               PROVE  OneOwner' /\ \A b \in Agent : KeepsClaim(b)' /\ StaysClosed(b)'
    BY DEF ExclusiveInv
  <1>1. lapses = 0
    BY LapsesStay
  <1>2. CASE UNCHANGED vars \/ \E role \in Role, payload \in Payload : Enqueue(role, payload)
    <2>1. UNCHANGED <<claims, holding, phase>> /\ \A t \in Task : tasks'[t] = tasks[t]
      BY <1>2, AddTaskKeepsStates DEF Enqueue, vars, LeaseInv
    <2>2. \A b \in Agent : phase[b] # "idle" => holding[b].task \in Task
      BY DEF LeaseInv, HoldingIsReal
    <2>3. OneOwner'
      BY <1>1, <2>1, OwnersStayOne
    <2>4. \A b \in Agent : phase[b] # "idle" =>
            /\ tasks'[holding[b].task] = tasks[holding[b].task]
            /\ \A c \in ClaimsOn(holding[b].task) : c \in claims'
      BY <2>1, <2>2 DEF ClaimsOn
    <2>5. QED
      BY <1>1, <2>1, <2>3, <2>4, OthersKeepExclusive
  <1>3. ASSUME NEW a \in Agent, NEW t \in Task, Claim(a, t)
        PROVE  OneOwner' /\ \A b \in Agent : KeepsClaim(b)' /\ StaysClosed(b)'
    BY <1>1, <1>3, ClaimKeepsExclusive
  <1>4. ASSUME NEW a \in Agent, Finish(a) \/ Advance(a) \/ GiveUp(a)
        PROVE  OneOwner' /\ \A b \in Agent : KeepsClaim(b)' /\ StaysClosed(b)'
    BY <1>1, <1>4, WorkerKeepsExclusive
  <1>5. ASSUME NEW a \in Agent, Beat(a)
        PROVE  OneOwner' /\ \A b \in Agent : KeepsClaim(b)' /\ StaysClosed(b)'
    BY <1>1, <1>5, BeatKeepsExclusive
  <1>6. ASSUME NEW c \in claims, Lapse(c)
        PROVE  OneOwner' /\ \A b \in Agent : KeepsClaim(b)' /\ StaysClosed(b)'
    BY <1>1, <1>6, LapseKeepsExclusive
  <1>7. CASE Reap
    BY <1>1, <1>7, ReapKeepsExclusive
  <1>8. QED
    BY <1>2, <1>3, <1>4, <1>5, <1>6, <1>7 DEF Next

\* While no held claim has lapsed, a busy worker is alone on its task and its
\* claim is there and fresh until it completes the task.
THEOREM WorkIsExclusive == Spec => []ExclusiveInv
  <1>1. Init => ExclusiveInv
    BY DEF Init, ExclusiveInv, OneOwner, KeepsClaim, StaysClosed
  <1>2. QED
    BY <1>1, NextExclusiveInv, LeaseInvariant, PTL DEF Spec

\* Principle III: while no held claim has lapsed, a fresh claim that is held goes
\* only in a step of the worker that holds it.
THEOREM HeldClaimsStay == Spec => OnlyStaleStripped
  <1>1. ASSUME LeaseInv, ExclusiveInv, [Next]_vars, lapses' = 0, NEW c \in claims,
               c.fresh, Held(c), \A d \in claims' : IdOf(d) # IdOf(c)
        PROVE  ~Held(c)'
    <2>1. PICK a \in Agent : Working(a, c.task) /\ phase'[a] # phase[a]
      BY <1>1, FreshClaimEnds
    <2>2. OneOwner
      BY <1>1, LapsesStay DEF ExclusiveInv
    <2>3. c.agent \in Agent /\ phase[c.agent] = "run" /\ holding[c.agent].task = c.task
      BY <1>1 DEF LeaseInv, TypeOK, StoreTypeOK, ClaimRow, Held, IdOf
    <2>4. a = c.agent
      BY <2>1, <2>2, <2>3 DEF OneOwner, Working
    <2>5. QED
      BY <2>1, <2>3, <2>4 DEF Held
  <1>2. LeaseInv /\ ExclusiveInv /\ [Next]_vars =>
          [lapses' = 0 => \A c \in claims :
             c.fresh /\ Held(c) /\ (\A d \in claims' : IdOf(d) # IdOf(c)) => ~Held(c)']_vars
    BY <1>1
  <1>3. QED
    BY <1>2, LeaseInvariant, WorkIsExclusive, PTL DEF Spec, OnlyStaleStripped

----------------------------------------------------------------------------
(* While no held claim has lapsed, WorkerLease implements ExclusiveWork. *)

UnitRow == [status : {"held", "waiting", "dropped", "over"}, owner : Agent \cup {NoTask},
            tries : Nat]

LEMMA UnitsTyped ==
  ASSUME StoreTypeOK
  PROVE  Units \in Seq(UnitRow) /\ Len(Units) = Len(tasks) /\ DOMAIN Units = Task
  <1>1. Task = 1..Len(tasks) /\ Len(tasks) \in Nat
    BY TaskFacts
  <1>2. ASSUME NEW t \in Task
        PROVE  Unit(Owners(t), tasks[t]) \in UnitRow
    <2>1. tasks[t] \in TaskRow
      BY TaskFacts
    <2>2. Status(tasks[t].state) \in {"waiting", "dropped", "over"} /\ tasks[t].attempts \in Nat
      BY <2>1 DEF TaskRow, Status
    <2>3. Owners(t) # {} => (CHOOSE a \in Owners(t) : TRUE) \in Agent
      BY DEF Owners
    <2>4. QED
      BY <2>2, <2>3 DEF Unit, UnitRow
  <1>3. Units \in [1..Len(tasks) -> UnitRow]
    BY <1>1, <1>2 DEF Units
  <1>4. QED
    BY <1>1, <1>3, IsASeq, LenProperties

NewUnit == [status |-> "waiting", owner |-> NoTask, tries |-> 0]

\* A worker that is on a task is the only one.
LEMMA OwnersAre ==
  ASSUME LeaseInv, ExclusiveInv, lapses = 0, NEW a \in Agent, NEW t, Working(a, t)
  PROVE  Owners(t) = {a} /\ t \in Task
  BY DEF ExclusiveInv, OneOwner, Working, Owners, LeaseInv, HoldingIsReal

\* Nobody is on a row that is not there, or open.
LEMMA NoOwner ==
  ASSUME LeaseInv, ExclusiveInv, lapses = 0, NEW t,
         t \in Task => tasks[t].state \notin {"claimed", "closed"}
  PROVE  Owners(t) = {}
  BY BusyTask DEF Owners, Working

\* The units that an insertion leaves.
LEMMA UnitsFollow ==
  ASSUME LeaseInv, NEW role \in Role, NEW payload \in Payload, AddTask(role, payload),
         NEW n \in Nat, n = Len(tasks),
         NEW mid \in Seq(UnitRow), Len(mid) = n,
         \A t \in Task : mid[t] = Unit(Owners(t)', tasks[t]),
         Owners(n + 1)' = {}
  PROVE  Units' = Append(mid, NewUnit)
  <1> DEFINE row == NewRow(role, payload)
  <1>1. /\ tasks \in Seq(TaskRow) /\ n \in Nat /\ Task = 1..n
        /\ row \in TaskRow /\ tasks' = Append(tasks, row)
    BY TaskFacts DEF LeaseInv, TypeOK, StoreTypeOK, AddTask, NewRow, TaskRow
  <1>2. /\ Task' = 1..(n + 1)
        /\ \A t \in 1..n : tasks'[t] = tasks[t]
        /\ tasks'[n + 1] = row
    BY <1>1, AppendProperties, LenProperties DEF Task
  <1>3. NewUnit \in UnitRow /\ Unit({}, row) = NewUnit
    BY DEF NewUnit, UnitRow, NewRow, Unit, Status
  <1>4. /\ Append(mid, NewUnit) \in [1..(n + 1) -> UnitRow]
        /\ \A t \in 1..n : Append(mid, NewUnit)[t] = mid[t]
        /\ Append(mid, NewUnit)[n + 1] = NewUnit
    <2>1. NewUnit \in UnitRow
      BY <1>3
    <2>2. /\ Append(mid, NewUnit) \in Seq(UnitRow)
          /\ Len(Append(mid, NewUnit)) = n + 1
          /\ \A t \in 1..n : Append(mid, NewUnit)[t] = mid[t]
          /\ Append(mid, NewUnit)[n + 1] = NewUnit
      BY <2>1, AppendProperties
    <2>3. QED
      BY <2>2, LenProperties
  <1>5. Units' = [t \in 1..(n + 1) |-> Unit(Owners(t)', tasks'[t])]
    BY <1>2 DEF Units
  <1> HIDE DEF row, NewUnit
  <1>6. \A t \in 1..(n + 1) : Unit(Owners(t)', tasks'[t]) = Append(mid, NewUnit)[t]
    <2>1. \A t \in 1..(n + 1) : t \in 1..n \/ t = n + 1
      BY <1>1
    <2>2. \A t \in 1..n : Unit(Owners(t)', tasks'[t]) = Append(mid, NewUnit)[t]
      BY <1>1, <1>2, <1>4
    <2>3. Unit(Owners(n + 1)', tasks'[n + 1]) = Append(mid, NewUnit)[n + 1]
      BY <1>2, <1>3, <1>4
    <2>4. QED
      BY <2>1, <2>2, <2>3
  <1>7. QED
    BY <1>4, <1>5, <1>6

LEMMA EnqueueIsNew ==
  ASSUME LeaseInv, ExclusiveInv, lapses = 0,
         NEW role \in Role, NEW payload \in Payload, Enqueue(role, payload)
  PROVE  Work!New
  <1>1. \A t : Owners(t)' = Owners(t)
    BY DEF Enqueue, Owners, Working
  <1>2. PICK n \in Nat : n = Len(tasks) /\ Owners(n + 1) = {}
    BY NoOwner, TaskFacts DEF LeaseInv, TypeOK
  <1>3. Units \in Seq(UnitRow) /\ Len(Units) = n
    BY <1>2, UnitsTyped DEF LeaseInv, TypeOK
  <1>4. Units' = Append(Units, NewUnit)
    <2>1. \A t \in Task : Units[t] = Unit(Owners(t)', tasks[t])
      BY <1>1 DEF Units
    <2>2. Owners(n + 1)' = {}
      BY <1>1, <1>2
    <2>3. QED
      BY <1>2, <1>3, <2>1, <2>2, UnitsFollow DEF Enqueue
  <1>5. QED
    BY <1>4 DEF Work!New, NewUnit

LEMMA ClaimIsStart ==
  ASSUME LeaseInv, ExclusiveInv, lapses = 0, NEW a \in Agent, NEW t \in Task, Claim(a, t)
  PROVE  Work!Start(a, t)
  <1>1. /\ holding \in [Agent -> [task : Nat, attempt : Nat]]
        /\ phase \in [Agent -> {"idle", "run", "closed"}]
        /\ tasks[t] \in TaskRow
    BY TaskFacts DEF LeaseInv, TypeOK
  <1>2. /\ tasks[t].state = "open" /\ phase[a] = "idle"
        /\ tasks' = [tasks EXCEPT ![t] = Claimed(tasks[t])]
    BY DEF Claim, ClaimTask, NextOpen, TasksIn
  <1>3. /\ Owners(t)' = {a}
        /\ \A u : u # t => Owners(u)' = Owners(u)
    <2>1. Owners(t) = {} /\ \A u : a \notin Owners(u)
      BY <1>2, NoOwner DEF Owners, Working
    <2>2. \A b \in Agent : \A u : Working(b, u)' <=> Working(b, u) \/ (b = a /\ u = t)
      BY <1>1, <1>2 DEF Claim, Working
    <2>3. QED
      BY <2>1, <2>2 DEF Owners
  <1>4. /\ Task' = Task
        /\ tasks'[t].attempts = tasks[t].attempts + 1
        /\ \A u \in Task : u # t => tasks'[u] = tasks[u]
    BY <1>1, <1>2, RowUpdates DEF Task
  <1>5. /\ Units[t] = [status |-> "waiting", owner |-> NoTask, tries |-> tasks[t].attempts]
        /\ Units'[t] = [status |-> "held", owner |-> a, tries |-> tasks[t].attempts + 1]
        /\ \A u \in Task : u # t => Units'[u] = Units[u]
    <2>1. Owners(t) = {}
      BY <1>2, NoOwner
    <2>2. /\ Units[t] = Unit({}, tasks[t]) /\ Units'[t] = Unit({a}, tasks'[t])
          /\ \A u \in Task : u # t => Units'[u] = Units[u]
      BY <1>3, <1>4, <2>1 DEF Units
    <2>3. QED
      BY <1>2, <1>4, <2>2 DEF Unit, Status
  <1>6. Units' = [Units EXCEPT ![t] = [status |-> "held", owner |-> a,
                                       tries |-> Units[t].tries + 1]]
    <2>1. /\ Units = [u \in Task |-> Units[u]] /\ Units' = [u \in Task |-> Units'[u]]
      BY <1>4 DEF Units
    <2>2. Units[t].tries = tasks[t].attempts
      BY <1>5
    <2>3. QED
      BY <1>5, <2>1, <2>2
  <1>7. Units[t].tries < ReleaseLimit
    BY <1>2, <1>5 DEF LeaseInv, StoreInv, HandedOutThrice
  <1>8. \A u \in Task : ~(Units[u].status = "held" /\ Units[u].owner = a)
    <2> SUFFICES ASSUME NEW u \in Task, Units[u].status = "held" PROVE Units[u].owner # a
      OBVIOUS
    <2>1. Owners(u) # {}
      <3>1. tasks[u] \in TaskRow
        BY TaskFacts DEF LeaseInv, TypeOK
      <3>2. QED
        BY <3>1 DEF Units, Unit, Status, TaskRow
    <2>2. Units[u].owner \in Owners(u)
      BY <2>1 DEF Units, Unit
    <2>3. QED
      BY <1>2, <2>2 DEF Owners, Working
  <1>9. DOMAIN Units = Task
    BY DEF Units
  <1>10. QED
    BY <1>5, <1>6, <1>7, <1>8, <1>9
    DEF Work!Start, Work!EmptyHanded, Work!HeldBy, Work!Waiting

\* A step that hands nothing over and puts nothing down.
LEMMA QuietStep ==
  ASSUME Task' = Task, \A t : Owners(t)' = Owners(t),
         \A t \in Task : /\ tasks'[t].attempts = tasks[t].attempts
                         /\ Owners(t) # {} \/ tasks'[t].state = tasks[t].state
  PROVE  UNCHANGED Units
  <1>1. \A t \in Task : Unit(Owners(t)', tasks'[t]) = Unit(Owners(t), tasks[t])
    BY DEF Unit
  <1>2. QED
    BY <1>1 DEF Units

LEMMA FinishIsQuiet ==
  ASSUME LeaseInv, ExclusiveInv, lapses = 0, NEW a \in Agent, Finish(a)
  PROVE  UNCHANGED Units
  <1> DEFINE u == holding[a].task
  <1>1. phase \in [Agent -> {"idle", "run", "closed"}]
    BY DEF LeaseInv, TypeOK
  <1>2. u \in Task /\ tasks[u] \in TaskRow /\ Owners(u) = {a}
    BY BusyTask, OwnersAre, TaskFacts DEF Finish, LeaseInv, TypeOK, Working
  <1>3. tasks' = [tasks EXCEPT ![u] = Closed(tasks[u])]
    BY DEF Finish, CompleteTask
  <1>4. /\ Task' = Task
        /\ tasks'[u].attempts = tasks[u].attempts
        /\ \A t \in Task : t # u => tasks'[t] = tasks[t]
    BY <1>2, <1>3, RowUpdates DEF Task
  <1>5. \A t : Owners(t)' = Owners(t)
    BY <1>1 DEF Finish, Owners, Working
  <1> HIDE DEF u
  <1>6. QED
    BY <1>2, <1>4, <1>5, QuietStep

\* Its worker puts a task down: what becomes of the units if no row is added.
LEMMA LaidDown ==
  ASSUME LeaseInv, ExclusiveInv, lapses = 0, NEW a \in Agent, NEW u,
         phase[a] # "idle", u = holding[a].task, LayDown(a)
  PROVE  /\ u \in Task
         /\ \A t : Owners(t)' = IF t = u THEN {} ELSE Owners(t)
         /\ Work!HeldBy(a, u)
         /\ Units[u].tries = tasks[u].attempts
  <1>1. /\ holding \in [Agent -> [task : Nat, attempt : Nat]]
        /\ phase \in [Agent -> {"idle", "run", "closed"}]
    BY DEF LeaseInv, TypeOK
  <1>2. Owners(u) = {a} /\ u \in Task
    BY OwnersAre DEF Working
  <1>3. \A b \in Agent : \A t : Working(b, t)' <=> Working(b, t) /\ b # a
    BY <1>1 DEF LayDown, Working
  <1>4. \A t : t # u => a \notin Owners(t)
    BY DEF Owners, Working
  <1>5. \A t : Owners(t)' = IF t = u THEN {} ELSE Owners(t)
    <2>1. \A t : Owners(t)' = Owners(t) \ {a}
      BY <1>3 DEF Owners
    <2>2. QED
      BY <1>2, <1>4, <2>1
  <1>6. Units[u] = Unit({a}, tasks[u])
    BY <1>2 DEF Units
  <1>7. QED
    BY <1>2, <1>5, <1>6 DEF Work!HeldBy, Unit

PutAside(unit, status) == [unit EXCEPT !.status = status, !.owner = NoTask]

LEMMA PutRow ==
  ASSUME NEW unit \in UnitRow, NEW status \in {"waiting", "dropped", "over"}
  PROVE  /\ PutAside(unit, status)
              = [status |-> status, owner |-> NoTask, tries |-> unit.tries]
         /\ PutAside(unit, status) \in UnitRow
  <1>1. PutAside(unit, status)
          = [status |-> status, owner |-> NoTask, tries |-> unit.tries]
    <2>1. PICK was, whose, tries : unit = [status |-> was, owner |-> whose, tries |-> tries]
      BY DEF UnitRow
    <2>2. [unit EXCEPT !.status = status] = [status |-> status, owner |-> whose, tries |-> tries]
      BY <2>1
    <2>3. [[status |-> status, owner |-> whose, tries |-> tries] EXCEPT !.owner = NoTask]
            = [status |-> status, owner |-> NoTask, tries |-> tries]
      OBVIOUS
    <2>4. [unit EXCEPT !.status = status, !.owner = NoTask]
            = [status |-> status, owner |-> NoTask, tries |-> tries]
      BY <2>2, <2>3
    <2>5. QED
      BY <2>1, <2>4 DEF PutAside
  <1>2. status \in {"held", "waiting", "dropped", "over"} /\ NoTask \in Agent \cup {NoTask}
    OBVIOUS
  <1>3. unit.tries \in Nat
    BY DEF UnitRow
  <1>4. [status |-> status, owner |-> NoTask, tries |-> unit.tries] \in UnitRow
    BY <1>2, <1>3 DEF UnitRow
  <1>5. QED
    BY <1>1, <1>4

LEMMA PutDownUnits ==
  ASSUME LeaseInv, ExclusiveInv, lapses = 0, NEW a \in Agent, NEW u,
         phase[a] # "idle", u = holding[a].task, LayDown(a),
         NEW status \in {"waiting", "dropped", "over"}, Status(tasks'[u].state) = status,
         Task' = Task, tasks'[u].attempts = tasks[u].attempts,
         \A t \in Task : t # u => tasks'[t] = tasks[t]
  PROVE  Units' = [Units EXCEPT ![u].status = status, ![u].owner = NoTask]
  <1>1. /\ u \in Task
        /\ \A t : Owners(t)' = IF t = u THEN {} ELSE Owners(t)
        /\ Units[u].tries = tasks[u].attempts
    BY LaidDown
  <1>2. Units' = [t \in Task |-> Unit(Owners(t)', tasks'[t])]
    BY DEF Units
  <1>3. Units'[u] = [status |-> status, owner |-> NoTask, tries |-> Units[u].tries]
    <2>1. Units'[u] = Unit({}, tasks'[u])
      BY <1>1, <1>2
    <2>2. QED
      BY <1>1, <2>1 DEF Unit
  <1>4. \A t \in Task : t # u => Units'[t] = Units[t]
    BY <1>1, <1>2 DEF Units
  <1>5. [Units[u] EXCEPT !.status = status, !.owner = NoTask]
          = [status |-> status, owner |-> NoTask, tries |-> Units[u].tries]
    <2>1. Units[u] \in UnitRow
      BY <1>1, UnitsTyped, ElementOfSeq, TaskFacts DEF LeaseInv, TypeOK
    <2>2. PutAside(Units[u], status)
            = [status |-> status, owner |-> NoTask, tries |-> Units[u].tries]
      BY <2>1, PutRow
    <2>3. QED
      BY <2>2 DEF PutAside
  <1>6. DOMAIN Units = Task /\ Units = [t \in Task |-> Units[t]]
    BY DEF Units
  <1>7. DOMAIN Units' = Task /\ Units' = [t \in Task |-> Units'[t]]
    BY <1>2
  <1>8. QED
    BY <1>1, <1>3, <1>4, <1>5, <1>6, <1>7

LEMMA GiveUpPutsDown ==
  ASSUME LeaseInv, ExclusiveInv, lapses = 0, NEW a \in Agent, GiveUp(a)
  PROVE  \E u \in Task : Work!PutDown(a, u) \/ Work!Drop(a, u)
  <1>1. PICK u : u = holding[a].task
    OBVIOUS
  <1>2. /\ u \in Task /\ Work!HeldBy(a, u) /\ LayDown(a) /\ phase[a] # "idle"
        /\ tasks[u] \in TaskRow /\ tasks[u].state \in {"claimed", "closed"}
    BY <1>1, LaidDown, BusyTask, TaskFacts DEF GiveUp, LeaseInv, TypeOK
  <1>3. CASE ReleaseTask(u)
    <2>1. tasks' = [tasks EXCEPT ![u] = Released(tasks[u])]
      BY <1>3 DEF ReleaseTask
    <2>2. /\ Task' = Task /\ tasks'[u].attempts = tasks[u].attempts
          /\ tasks'[u].state \in {"open", "blocked"}
          /\ \A t \in Task : t # u => tasks'[t] = tasks[t]
      <3>1. /\ Released(tasks[u]).attempts = tasks[u].attempts
            /\ Released(tasks[u]).state \in {"open", "blocked"}
        BY <1>2, RowUpdates
      <3>2. Task' = Task
        BY <2>1 DEF Task
      <3>3. \A t \in Task : tasks'[t] = IF t = u THEN Released(tasks[u]) ELSE tasks[t]
        BY <2>1 DEF Task
      <3>4. QED
        BY <1>2, <3>1, <3>2, <3>3
    <2>3. PICK status \in {"waiting", "over"} : Status(tasks'[u].state) = status
      BY <2>2 DEF Status
    <2>4. Units' = [Units EXCEPT ![u].status = status, ![u].owner = NoTask]
      BY <1>1, <1>2, <2>2, <2>3, PutDownUnits
    <2>5. QED
      BY <1>2, <2>4 DEF Work!PutDown
  <1>4. CASE UNCHANGED store
    <2>1. tasks' = tasks /\ Task' = Task
      BY <1>4 DEF store, Task
    <2>2. PICK status \in {"dropped", "over"} : Status(tasks'[u].state) = status
      BY <1>2, <2>1 DEF Status
    <2>3. Units' = [Units EXCEPT ![u].status = status, ![u].owner = NoTask]
      BY <1>1, <1>2, <2>1, <2>2, PutDownUnits
    <2>4. QED
      BY <1>2, <2>2, <2>3 DEF Work!PutDown, Work!Drop
  <1>5. QED
    BY <1>1, <1>3, <1>4 DEF GiveUp

LEMMA AdvancePutsDown ==
  ASSUME LeaseInv, ExclusiveInv, lapses = 0, NEW a \in Agent, Advance(a)
  PROVE  \E u \in Task : Work!PutDown(a, u) \/ Work!PutDownAndFollowUp(a, u)
  <1>1. PICK u : u = holding[a].task
    OBVIOUS
  <1>2. /\ u \in Task /\ Work!HeldBy(a, u) /\ LayDown(a) /\ phase[a] # "idle"
        /\ tasks[u].state = "closed"
        /\ \A t : Owners(t)' = IF t = u THEN {} ELSE Owners(t)
    BY <1>1, LaidDown, BusyTask DEF Advance
  <1>3. Status("closed") = "over"
    BY DEF Status
  <1>4. CASE UNCHANGED store
    <2>1. tasks' = tasks /\ Task' = Task
      BY <1>4 DEF store, Task
    <2>2. Units' = [Units EXCEPT ![u].status = "over", ![u].owner = NoTask]
      BY <1>1, <1>2, <1>3, <2>1, PutDownUnits
    <2>3. QED
      BY <1>2, <2>2 DEF Work!PutDown
  <1>5. ASSUME NEW role \in Role, NEW payload \in Payload, AddTask(role, payload)
        PROVE  \E t \in Task : Work!PutDownAndFollowUp(a, t)
    <2> DEFINE mid == [Units EXCEPT ![u].status = "over", ![u].owner = NoTask]
    <2>1. PICK n \in Nat : n = Len(tasks) /\ Task = 1..n /\ Owners(n + 1) = {} /\ u # n + 1
      <3>1. PICK n \in Nat : n = Len(tasks) /\ Task = 1..n
        BY TaskFacts DEF LeaseInv, TypeOK
      <3>2. n + 1 \notin Task
        BY <3>1
      <3>3. QED
        BY <1>2, <3>1, <3>2, NoOwner
    <2>2. Units \in Seq(UnitRow) /\ Len(Units) = n /\ DOMAIN Units = Task
      BY <2>1, UnitsTyped DEF LeaseInv, TypeOK
    <2>3. PICK old \in UnitRow :
            /\ old = [Units[u] EXCEPT !.status = "over", !.owner = NoTask]
            /\ old = [status |-> "over", owner |-> NoTask, tries |-> Units[u].tries]
      <3>1. Units[u] \in UnitRow
        BY <1>2, <2>1, <2>2, ElementOfSeq
      <3>2. PICK old \in UnitRow :
              /\ old = PutAside(Units[u], "over")
              /\ old = [status |-> "over", owner |-> NoTask, tries |-> Units[u].tries]
        BY <3>1, PutRow
      <3>3. QED
        BY <3>2 DEF PutAside
    <2>4. mid = [Units EXCEPT ![u] = old]
      BY <1>2, <2>2, <2>3
    <2>5. mid \in Seq(UnitRow) /\ Len(mid) = n
      BY <1>2, <2>1, <2>2, <2>4, ExceptSeq
    <2>6. \A t \in Task : mid[t] = Unit(Owners(t)', tasks[t])
      <3>1. old = Unit({}, tasks[u])
        <4>1. Units[u].tries = tasks[u].attempts
          BY <1>2 DEF Units, Unit
        <4>2. QED
          BY <1>2, <1>3, <2>3, <4>1 DEF Unit
      <3>2. \A t \in Task : t # u => mid[t] = Unit(Owners(t), tasks[t])
        BY <2>4 DEF Units
      <3>3. mid[u] = old
        BY <1>2, <2>2, <2>4
      <3> HIDE DEF mid
      <3>4. QED
        BY <1>2, <3>1, <3>2, <3>3
    <2>7. Owners(n + 1)' = {}
      BY <1>2, <2>1
    <2> HIDE DEF mid
    <2>8. Units' = Append(mid, NewUnit)
      BY <1>5, <2>1, <2>5, <2>6, <2>7, UnitsFollow
    <2>9. QED
      BY <1>2, <2>8 DEF Work!PutDownAndFollowUp, NewUnit, mid
  <1>6. QED
    BY <1>4, <1>5 DEF Advance, AddTaskIfAbsent

\* Nobody is on a task with a stale claim, so the reaper recovers what was dropped.
LEMMA ReapIsRecover ==
  ASSUME LeaseInv, ExclusiveInv, lapses = 0, Reap
  PROVE  Work!Recover
  <1> DEFINE some == {c.task : c \in StaleClaims}
             status == [t \in some |-> Status(tasks'[t].state)]
  <1>1. /\ \A t : Owners(t)' = Owners(t)
        /\ tasks' = [t \in Task |-> IF t \in some THEN Released(tasks[t]) ELSE tasks[t]]
        /\ StaleClaims # {}
    BY DEF Reap, ReclaimStaleClaims, Owners, Working
  <1>2. \A t \in some : t \in Task /\ Owners(t) = {} /\ tasks[t].state = "claimed"
    <2> SUFFICES ASSUME NEW c \in StaleClaims
                 PROVE  c.task \in Task /\ Owners(c.task) = {} /\ tasks[c.task].state = "claimed"
      OBVIOUS
    <2>1. c \in claims /\ ~c.fresh /\ tasks[c.task].state = "claimed"
      BY DEF StaleClaims
    <2>2. c.task \in Task
      BY <2>1 DEF LeaseInv, StoreInv, ClaimedIffClaimRow
    <2>3. \A a \in Agent : phase[a] # "idle" => holding[a].task # c.task
      BY <2>1, BusyTask DEF ClaimsOn
    <2>4. QED
      BY <2>1, <2>2, <2>3 DEF Owners, Working
  <1>3. some # {}
    BY <1>1
  <1>4. /\ Task' = Task
        /\ \A t \in some : /\ tasks'[t].attempts = tasks[t].attempts
                           /\ tasks'[t].state \in {"open", "blocked"}
        /\ \A t \in Task \ some : tasks'[t] = tasks[t]
    <2>1. \A t \in Task : tasks[t] \in TaskRow
      BY TaskFacts DEF LeaseInv, TypeOK
    <2> HIDE DEF some
    <2>2. Task' = Task
      BY <1>1 DEF Task
    <2>3. QED
      BY <1>1, <1>2, <2>1, <2>2, RowUpdates
  <1> HIDE DEF some
  <1>5. \A t \in some : Units[t].status = "dropped"
    BY <1>2 DEF Units, Unit, Status
  <1>6. status \in [some -> {"waiting", "over"}]
    BY <1>4 DEF Status
  <1>7. \A t \in some : Units'[t] = [Units[t] EXCEPT !.status = status[t]]
    <2> SUFFICES ASSUME NEW t \in some
                 PROVE  Units'[t] = [Units[t] EXCEPT !.status = status[t]]
      OBVIOUS
    <2>1. Units[t] = Unit({}, tasks[t]) /\ Units'[t] = Unit({}, tasks'[t])
      BY <1>1, <1>2, <1>4 DEF Units
    <2>2. QED
      BY <1>4, <2>1 DEF Unit
  <1>8. \A t \in Task \ some : Units'[t] = Units[t]
    BY <1>1, <1>4 DEF Units
  <1>9. some \in SUBSET {t \in DOMAIN Units : Units[t].status = "dropped"} /\ DOMAIN Units = Task
    BY <1>2, <1>5 DEF Units
  <1>10. Units' = [t \in Task |-> IF t \in some THEN [Units[t] EXCEPT !.status = status[t]]
                                  ELSE Units[t]]
    <2>1. Units' = [t \in Task |-> Units'[t]]
      BY <1>4 DEF Units
    <2> HIDE DEF status
    <2>2. QED
      BY <1>7, <1>8, <2>1
  <1> HIDE DEF status
  <1>11. QED
    <2>1. some \in (SUBSET Work!Dropped) \ {{}}
      <3>1. some \subseteq Work!Dropped
        BY <1>9 DEF Work!Dropped
      <3>2. QED
        BY <1>3, <3>1
    <2>2. QED
      BY <1>6, <1>9, <1>10, <2>1 DEF Work!Recover

LEMMA StepImplementsWork ==
  ASSUME LeaseInv, ExclusiveInv, [Next]_vars, lapses' = 0
  PROVE  Work!Next \/ UNCHANGED Units
  <1>0. lapses = 0 /\ DOMAIN Units = Task
    BY LapsesStay DEF Units
  <1>1. ASSUME NEW role \in Role, NEW payload \in Payload, Enqueue(role, payload)
        PROVE  Work!Next
    BY <1>0, <1>1, EnqueueIsNew DEF Work!Next
  <1>2. ASSUME NEW a \in Agent, NEW t \in Task, Claim(a, t)
        PROVE  Work!Next
    BY <1>0, <1>2, ClaimIsStart DEF Work!Next
  <1>3. ASSUME NEW a \in Agent, Finish(a)
        PROVE  UNCHANGED Units
    BY <1>0, <1>3, FinishIsQuiet
  <1>4. ASSUME NEW a \in Agent, Advance(a) \/ GiveUp(a)
        PROVE  Work!Next
    BY <1>0, <1>4, AdvancePutsDown, GiveUpPutsDown DEF Work!Next
  <1>5. CASE \/ \E a \in Agent : Beat(a)
             \/ \E c \in claims : Lapse(c)
             \/ UNCHANGED vars
    <2>1. UNCHANGED <<tasks, holding, phase>>
      BY <1>5 DEF Beat, Heartbeat, Lapse, vars
    <2>2. QED
      BY <2>1, QuietStep DEF Task, Owners, Working
  <1>6. CASE Reap
    BY <1>0, <1>6, ReapIsRecover DEF Work!Next
  <1>7. QED
    BY <1>1, <1>2, <1>3, <1>4, <1>5, <1>6 DEF Next

\* Principle IV, as ExclusiveWork has it without tables, claims and heartbeats:
\* the queue starts as it does and, while no held claim has lapsed, each step of
\* a worker, of a heartbeat or of the reaper is a step of it or changes no unit.
THEOREM ImplementsWork == Spec => ImplementsExclusiveWork
  <1>1. Init => Work!Init
    BY DEF Init, StoreInit, Work!Init, Units, Task
  <1>2. LeaseInv /\ ExclusiveInv /\ [Next]_vars
          => [lapses' = 0 => Work!Next \/ UNCHANGED Units]_vars
    BY StepImplementsWork
  <1>3. QED
    BY <1>1, <1>2, LeaseInvariant, WorkIsExclusive, PTL DEF Spec, ImplementsExclusiveWork
=============================================================================
