-------------------------- MODULE TaskStoreProofs --------------------------
(***************************************************************************)
(* Every operation of the task queue preserves StoreInv.  The lemmas say   *)
(* nothing of who calls the operation: a stale worker's late completion,   *)
(* release or heartbeat is covered.  They also state what an operation     *)
(* does to the number of rows and of attempts, which the proofs about the  *)
(* modules above the store need.                                           *)
(***************************************************************************)
EXTENDS TaskStore, TLAPS, SequenceTheorems

\* The rows that were there stay there and no attempt is forgotten.
KeepsRows ==
  /\ Task \subseteq Task'
  /\ \A t \in Task : tasks'[t].attempts = tasks[t].attempts

\* The positions of `tasks` are 1..Len(tasks) and hold task rows.
LEMMA TaskFacts ==
  ASSUME StoreTypeOK
  PROVE  /\ Len(tasks) \in Nat
         /\ Task = 1..Len(tasks)
         /\ \A t \in Task : tasks[t] \in TaskRow
  BY LenProperties, ElementOfSeq DEF StoreTypeOK, Task

\* Replacing one row of `tasks` by another row.
LEMMA RowReplaced ==
  ASSUME StoreTypeOK, NEW t \in Task, NEW row \in TaskRow,
         tasks' = [tasks EXCEPT ![t] = row]
  PROVE  /\ tasks' \in Seq(TaskRow)
         /\ Task' = Task
         /\ \A u \in Task : tasks'[u] = IF u = t THEN row ELSE tasks[u]
  <1>1. t \in 1..Len(tasks)
    BY TaskFacts
  <1>2. /\ tasks' \in Seq(TaskRow)
        /\ Len(tasks') = Len(tasks)
        /\ \A u \in 1..Len(tasks) : tasks'[u] = IF u = t THEN row ELSE tasks[u]
    BY <1>1, ExceptSeq DEF StoreTypeOK
  <1>3. DOMAIN tasks' = 1..Len(tasks')
    BY <1>2, LenProperties
  <1>4. QED
    BY <1>2, <1>3, TaskFacts DEF Task

\* The updates of one row keep its type, and what they do to its counters.
LEMMA RowUpdates ==
  ASSUME NEW row \in TaskRow
  PROVE  /\ Claimed(row) \in TaskRow
         /\ Claimed(row).state = "claimed"
         /\ Claimed(row).attempts = row.attempts + 1
         /\ Claimed(row).releases = row.releases
         /\ Closed(row) \in TaskRow
         /\ Closed(row).state = "closed"
         /\ Closed(row).attempts = row.attempts
         /\ Closed(row).releases = row.releases
         /\ Released(row) \in TaskRow
         /\ Released(row).state =
              IF row.releases + 1 >= 3 THEN "blocked" ELSE "open"
         /\ Released(row).attempts = row.attempts
         /\ Released(row).releases = row.releases + 1
  <1>1. /\ row.attempts \in Nat /\ row.attempts + 1 \in Nat
        /\ row.releases \in Nat /\ row.releases + 1 \in Nat
    BY DEF TaskRow
  <1>2. \A q \in TaskRow, n \in Nat : /\ [q EXCEPT !.attempts = n] \in TaskRow
                                    /\ [q EXCEPT !.releases = n] \in TaskRow
    BY DEF TaskRow
  <1>3. \A q \in TaskRow, st \in {"open", "claimed", "closed", "blocked"} :
          [q EXCEPT !.state = st] \in TaskRow
    BY DEF TaskRow
  <1>4. Claimed(row) \in TaskRow
    <2>1. PICK q \in TaskRow : q = [row EXCEPT !.state = "claimed"]
      BY <1>3
    <2>2. q.attempts = row.attempts
      BY <2>1 DEF TaskRow
    <2>3. Claimed(row) = [q EXCEPT !.attempts = row.attempts + 1]
      BY <2>1 DEF Claimed
    <2>4. QED
      BY <1>1, <1>2, <2>3, Zenon
  <1>5. Released(row) \in TaskRow
    <2>1. PICK q \in TaskRow : q = [row EXCEPT !.releases = row.releases + 1]
      BY <1>1, <1>2, Zenon
    <2>2. Released(row) = [q EXCEPT !.state = IF row.releases + 1 >= ReleaseLimit
                                              THEN "blocked" ELSE "open"]
      BY <2>1 DEF Released
    <2>3. QED
      BY <1>3, <2>2
  <1>6. Closed(row) \in TaskRow
    BY <1>3 DEF Closed
  <1>7. QED
    BY <1>1, <1>4, <1>5, <1>6 DEF Claimed, Closed, Released, ReleaseLimit, TaskRow

\* add_task.
LEMMA AddTaskKeepsInv ==
  ASSUME StoreInv, NEW role \in Role, NEW payload \in Payload,
         AddTask(role, payload)
  PROVE  StoreInv' /\ KeepsRows
  <1> DEFINE row == NewRow(role, payload)
             n == Len(tasks)
  <1>1. row \in TaskRow
    BY DEF NewRow, TaskRow
  <1>2. /\ tasks' \in Seq(TaskRow)
        /\ Len(tasks') = n + 1
        /\ \A t \in Task : tasks'[t] = tasks[t]
        /\ tasks'[n + 1] = row
        /\ n \in Nat
    BY <1>1, TaskFacts DEF AddTask, StoreInv, StoreTypeOK, Task
  <1>3. Task' = Task \cup {n + 1}
    BY <1>2, TaskFacts, LenProperties DEF Task, StoreInv
  <1>4. n + 1 \notin Task
    BY <1>2, TaskFacts DEF StoreInv
  <1>5. claims' = claims
    BY DEF AddTask
  <1>6. StoreTypeOK'
    BY <1>2, <1>5 DEF StoreTypeOK, StoreInv
  <1>7. ClaimedIffClaimRow'
    BY <1>2, <1>3, <1>4, <1>5 DEF StoreInv, ClaimedIffClaimRow, ClaimsOn, NewRow
  <1>8. AttemptsFollowReleases' /\ HandedOutThrice'
    BY <1>2, <1>3, <1>4
       DEF StoreInv, AttemptsFollowReleases, HandedOutThrice, NewRow, ReleaseLimit
  <1>9. KeepsRows
    BY <1>2, <1>3 DEF KeepsRows
  <1>10. QED
    BY <1>6, <1>7, <1>8, <1>9 DEF StoreInv

\* add_task_if_absent.
LEMMA AddTaskIfAbsentKeepsInv ==
  ASSUME StoreInv, NEW role \in Role, NEW payload \in Payload,
         AddTaskIfAbsent(role, payload)
  PROVE  StoreInv' /\ KeepsRows
  <1>1. CASE AddTask(role, payload)
    BY <1>1, AddTaskKeepsInv
  <1>2. CASE UNCHANGED store
    BY <1>2 DEF store, StoreInv, StoreTypeOK, ClaimedIffClaimRow, ClaimsOn, Task,
                AttemptsFollowReleases, HandedOutThrice, KeepsRows
  <1>3. QED
    BY <1>1, <1>2 DEF AddTaskIfAbsent

\* claim_task, when it returns a task.
LEMMA ClaimTaskKeepsInv ==
  ASSUME StoreInv, NEW a \in Agent, NEW roles, NEW t \in Task,
         ClaimTask(a, roles, t)
  PROVE  /\ StoreInv'
         /\ Task' = Task
         /\ \A u \in Task : tasks'[u].attempts =
              IF u = t THEN tasks[t].attempts + 1 ELSE tasks[u].attempts
  <1>1. tasks[t] \in TaskRow /\ tasks[t].state = "open"
    BY TaskFacts DEF StoreInv, ClaimTask, NextOpen, TasksIn
  <1>2. /\ Claimed(tasks[t]) \in TaskRow
        /\ Claimed(tasks[t]).state = "claimed"
        /\ Claimed(tasks[t]).attempts = tasks[t].attempts + 1
        /\ Claimed(tasks[t]).releases = tasks[t].releases
    BY <1>1, RowUpdates
  <1>3. /\ tasks' \in Seq(TaskRow)
        /\ Task' = Task
        /\ \A u \in Task : tasks'[u] = IF u = t THEN Claimed(tasks[t]) ELSE tasks[u]
    BY <1>2, RowReplaced DEF ClaimTask, StoreInv
  <1>4. NewClaim(a, t) \in ClaimRow /\ NewClaim(a, t).task = t
    BY <1>1, TaskFacts DEF NewClaim, ClaimRow, TaskRow, StoreInv
  <1>5. claims' = claims \cup {NewClaim(a, t)} /\ ClaimsOn(t) = {}
    BY DEF ClaimTask
  <1>6. StoreTypeOK'
    BY <1>3, <1>4, <1>5 DEF StoreTypeOK, StoreInv
  <1>7. ClaimedIffClaimRow'
    BY <1>2, <1>3, <1>4, <1>5 DEF StoreInv, ClaimedIffClaimRow, ClaimsOn
  <1>8. AttemptsFollowReleases' /\ HandedOutThrice'
    <2>1. \A u \in Task : tasks[u] \in TaskRow
      BY TaskFacts DEF StoreInv
    <2>2. \A u \in Task : tasks[u].attempts \in Nat /\ tasks[u].releases \in Nat
      BY <2>1 DEF TaskRow
    <2>3. \A u \in Task : u # t => tasks'[u] = tasks[u]
      BY <1>3
    <2>4. /\ tasks'[t].state = "claimed"
          /\ tasks'[t].attempts = tasks[t].attempts + 1
          /\ tasks'[t].releases = tasks[t].releases
      BY <1>2, <1>3
    <2>5. /\ tasks[t].attempts <= tasks[t].releases
          /\ tasks[t].releases < 3
      BY <1>1 DEF StoreInv, AttemptsFollowReleases, ReleaseLimit
    <2>6. AttemptsFollowReleases'
      BY <1>3, <2>2, <2>3, <2>4, <2>5, SMTT(30)
         DEF StoreInv, AttemptsFollowReleases, ReleaseLimit
    <2>7. HandedOutThrice'
      BY <1>3, <2>2, <2>3, <2>4, <2>5 DEF StoreInv, HandedOutThrice, ReleaseLimit
    <2>8. QED
      BY <2>6, <2>7
  <1>9. QED
    BY <1>2, <1>3, <1>6, <1>7, <1>8 DEF StoreInv

\* heartbeat, whether or not its claim is still there.
LEMMA HeartbeatKeepsInv ==
  ASSUME StoreInv, NEW t, NEW attempt, Heartbeat(t, attempt)
  PROVE  StoreInv'
  <1> DEFINE Beaten(c) == IF c.task = t /\ c.attempt = attempt
                          THEN [c EXCEPT !.fresh = TRUE] ELSE c
  <1>1. claims' = {Beaten(c) : c \in claims} /\ tasks' = tasks
    BY DEF Heartbeat
  <1>2. \A c \in claims : Beaten(c) \in ClaimRow /\ Beaten(c).task = c.task
    BY DEF StoreInv, StoreTypeOK, ClaimRow
  <1>3. StoreTypeOK'
    BY <1>1, <1>2 DEF StoreInv, StoreTypeOK
  <1>4. ClaimedIffClaimRow'
    <2>1. \A c \in claims' : \E d \in claims : c = Beaten(d) /\ c.task = d.task
      BY <1>1, <1>2
    <2>2. \A d \in claims : Beaten(d) \in claims' /\ Beaten(d).task = d.task
      BY <1>1, <1>2
    <2>3. Task' = Task
      BY <1>1 DEF Task
    <2> HIDE DEF Beaten
    <2>4. \A c \in claims' : c.task \in Task' /\ tasks'[c.task].state = "claimed"
      BY <1>1, <2>1, <2>3 DEF StoreInv, ClaimedIffClaimRow
    <2>5. \A u \in Task' : tasks'[u].state = "claimed" => ClaimsOn(u)' # {}
      BY <1>1, <2>2, <2>3 DEF StoreInv, ClaimedIffClaimRow, ClaimsOn
    <2>6. \A c, d \in claims' : c.task = d.task => c = d
      BY <2>1 DEF StoreInv, ClaimedIffClaimRow
    <2>7. QED
      BY <2>4, <2>5, <2>6 DEF ClaimedIffClaimRow
  <1>5. QED
    BY <1>1, <1>3, <1>4
       DEF StoreInv, AttemptsFollowReleases, HandedOutThrice, Task

\* Any operation that closes or releases a claimed, open, closed or blocked
\* task and deletes every claim on it: complete_task and release_task.
LEMMA EndTaskKeepsInv ==
  ASSUME StoreInv, NEW t \in Task, NEW row \in TaskRow,
         tasks' = [tasks EXCEPT ![t] = row],
         claims' = claims \ ClaimsOn(t),
         row.attempts = tasks[t].attempts,
         \/ row.state = "closed" /\ row.releases = tasks[t].releases
         \/ /\ row.releases = tasks[t].releases + 1
            /\ row.state = IF row.releases >= 3 THEN "blocked" ELSE "open"
  PROVE  StoreInv' /\ Task' = Task /\ KeepsRows
  <1>1. /\ tasks' \in Seq(TaskRow)
        /\ Task' = Task
        /\ \A u \in Task : tasks'[u] = IF u = t THEN row ELSE tasks[u]
    BY RowReplaced DEF StoreInv
  <1>2. \A u \in Task : tasks[u].attempts \in Nat /\ tasks[u].releases \in Nat
    BY TaskFacts DEF StoreInv, TaskRow
  <1>3. row.state # "claimed"
    OBVIOUS
  <1>4. \A u \in Task : u # t => tasks'[u] = tasks[u]
    BY <1>1
  <1>5. tasks'[t] = row
    BY <1>1
  <1>6. StoreTypeOK'
    BY <1>1 DEF StoreInv, StoreTypeOK
  <1>7. ClaimedIffClaimRow'
    BY <1>1, <1>3 DEF StoreInv, ClaimedIffClaimRow, ClaimsOn
  <1>8. tasks[t].attempts <= tasks[t].releases + 1 /\ tasks[t].attempts <= 3
    BY DEF StoreInv, AttemptsFollowReleases, HandedOutThrice, ReleaseLimit
  <1>9. AttemptsFollowReleases'
    BY <1>1, <1>2, <1>4, <1>5, <1>8
       DEF StoreInv, AttemptsFollowReleases, ReleaseLimit
  <1>10. HandedOutThrice'
    BY <1>1, <1>2, <1>4, <1>5, <1>8 DEF StoreInv, HandedOutThrice, ReleaseLimit
  <1>11. KeepsRows
    BY <1>1 DEF KeepsRows
  <1>12. QED
    BY <1>1, <1>6, <1>7, <1>9, <1>10, <1>11 DEF StoreInv

\* complete_task, by the holder of the claim or by anyone else.
LEMMA CompleteTaskKeepsInv ==
  ASSUME StoreInv, NEW t \in Task, CompleteTask(t)
  PROVE  StoreInv' /\ Task' = Task /\ KeepsRows
  <1>1. tasks[t] \in TaskRow
    BY TaskFacts DEF StoreInv
  <1>2. QED
    BY <1>1, RowUpdates, EndTaskKeepsInv DEF CompleteTask

\* release_task, by the holder of the claim or by anyone else.
LEMMA ReleaseTaskKeepsInv ==
  ASSUME StoreInv, NEW t \in Task, ReleaseTask(t)
  PROVE  StoreInv' /\ Task' = Task /\ KeepsRows
  <1>1. tasks[t] \in TaskRow
    BY TaskFacts DEF StoreInv
  <1>2. QED
    BY <1>1, RowUpdates, EndTaskKeepsInv DEF ReleaseTask

\* reclaim_stale_claims: all stale claims of the run in one transaction.
LEMMA ReclaimKeepsInv ==
  ASSUME StoreInv, ReclaimStaleClaims
  PROVE  StoreInv' /\ Task' = Task /\ KeepsRows
  <1> DEFINE Hit(t) == \E c \in StaleClaims : c.task = t
  <1>1. /\ Task = 1..Len(tasks) /\ Len(tasks) \in Nat
        /\ \A t \in Task : tasks[t] \in TaskRow
    BY TaskFacts DEF StoreInv
  <1>2. \A t \in Task :
          /\ Released(tasks[t]) \in TaskRow
          /\ Released(tasks[t]).state =
               IF tasks[t].releases + 1 >= 3 THEN "blocked" ELSE "open"
          /\ Released(tasks[t]).attempts = tasks[t].attempts
          /\ Released(tasks[t]).releases = tasks[t].releases + 1
          /\ tasks[t].attempts \in Nat /\ tasks[t].releases \in Nat
    BY <1>1, RowUpdates DEF TaskRow
  <1>3. /\ tasks' = [t \in Task |-> IF Hit(t) THEN Released(tasks[t]) ELSE tasks[t]]
        /\ claims' = claims \ StaleClaims
    BY DEF ReclaimStaleClaims
  <1>4. /\ Task' = Task
        /\ \A t \in Task : tasks'[t] = IF Hit(t) THEN Released(tasks[t]) ELSE tasks[t]
    BY <1>3 DEF Task
  <1>5. tasks' \in Seq(TaskRow)
    BY <1>1, <1>2, <1>3
  <1>6. StoreTypeOK'
    BY <1>3, <1>5 DEF StoreInv, StoreTypeOK
  <1>7. \A c \in claims : Hit(c.task) => c \in StaleClaims
    BY DEF StoreInv, ClaimedIffClaimRow, StaleClaims
  <1>8. ClaimedIffClaimRow'
    BY <1>2, <1>3, <1>4, <1>7 DEF StoreInv, ClaimedIffClaimRow, ClaimsOn
  <1>9. \A t \in Task : Hit(t) => tasks[t].state = "claimed"
    BY DEF StaleClaims
  <1>10. AttemptsFollowReleases'
    BY <1>2, <1>4, <1>9 DEF StoreInv, AttemptsFollowReleases, ReleaseLimit
  <1>11. HandedOutThrice'
    BY <1>2, <1>4, <1>9
       DEF StoreInv, HandedOutThrice, AttemptsFollowReleases, ReleaseLimit
  <1>12. KeepsRows
    BY <1>2, <1>4 DEF KeepsRows
  <1>13. QED
    BY <1>4, <1>6, <1>8, <1>10, <1>11, <1>12 DEF StoreInv
=============================================================================
