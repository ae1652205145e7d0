----------------------------- MODULE TaskStore -----------------------------
(***************************************************************************)
(* The task queue of one run: the tables `tasks` and `claims` of           *)
(* substrate/schema.sql and the operations on them of substrate/db.py.     *)
(* Every method of Store runs under its lock inside one SQLite             *)
(* transaction (Store.tx), so each is one atomic operator here.  The       *)
(* modules that EXTEND this one say who calls which operation when.        *)
(*                                                                         *)
(* Abstractions.  A task is named by its position in `tasks`, in the order *)
(* of insertion.  created_at has a resolution of one second, so rows that  *)
(* are inserted together are not ordered by it: ClaimTask may take any     *)
(* open row of the smallest priority.  Time is reduced to what the reaper  *)
(* tells apart: a claim is fresh or its last heartbeat is at least         *)
(* STALE_CLAIM_SECONDS old.  A claim id (a new uuid per claim) is the pair *)
(* of the task and the number of claims made on it so far, which the       *)
(* history field `attempts` counts.                                        *)
(***************************************************************************)
EXTENDS Integers, Sequences, FiniteSets

CONSTANTS
  Agent,      \* agent ids: one per worker thread
  Role,       \* values of tasks.role
  Payload,    \* what the properties tell apart of tasks.payload_json
  Priority    \* a smaller value is claimed sooner (orchestrator/config.py)

ASSUME StoreAssumption == Priority \in [Role -> Int]

VARIABLES
  tasks,      \* the rows of `tasks`, in the order of insertion
  claims      \* the rows of `claims`

store == <<tasks, claims>>

----------------------------------------------------------------------------
(* The two tables. *)

\* A task that was released this many times is blocked.
ReleaseLimit == 3

TaskRow == [role : Role, payload : Payload,
            state : {"open", "claimed", "closed", "blocked"},
            releases : Nat,     \* release_count
            attempts : Nat]     \* history: rows of `claims` ever made for it

ClaimRow == [task : Nat, attempt : Nat, agent : Agent, fresh : BOOLEAN]

Task == DOMAIN tasks

StoreInit == tasks = << >> /\ claims = {}

StoreTypeOK == tasks \in Seq(TaskRow) /\ claims \in SUBSET ClaimRow

ClaimsOn(t) == {c \in claims : c.task = t}

TasksIn(state, roles) ==
  {t \in Task : tasks[t].state = state /\ tasks[t].role \in roles}

----------------------------------------------------------------------------
(* Enqueueing. *)

NewRow(role, payload) ==
  [role |-> role, payload |-> payload, state |-> "open",
   releases |-> 0, attempts |-> 0]

AddTask(role, payload) ==
  /\ tasks' = Append(tasks, NewRow(role, payload))
  /\ UNCHANGED claims

RoleEnqueued(role) == \E t \in Task : tasks[t].role = role

\* Mutant of AddTaskIfAbsent: the insertion without the look-up.
AddTaskUnchecked(role, payload) == AddTask(role, payload)

\* The look-up and the insertion are in one transaction.
AddTaskIfAbsent(role, payload) ==
  IF RoleEnqueued(role) THEN UNCHANGED store ELSE AddTask(role, payload)

----------------------------------------------------------------------------
(* Claiming. *)

\* The rows ORDER BY priority, created_at LIMIT 1 may select.
NextOpen(roles) ==
  {t \in TasksIn("open", roles) :
     \A u \in TasksIn("open", roles) :
        Priority[tasks[t].role] <= Priority[tasks[u].role]}

NewClaim(agent, t) ==
  [task |-> t, attempt |-> tasks[t].attempts + 1, agent |-> agent, fresh |-> TRUE]

\* Mutant of Claimed: a claim id that is the same for every claim on a task.
ClaimedWithOneId(row) == [row EXCEPT !.state = "claimed"]

Claimed(row) == [row EXCEPT !.state = "claimed", !.attempts = @ + 1]

\* Mutant of ClaimTask: the UPDATE of the task is lost and UNIQUE is gone.
ClaimTaskKeepingOpen(agent, roles, t) ==
  /\ t \in NextOpen(roles)
  /\ tasks' = [tasks EXCEPT ![t].attempts = @ + 1]
  /\ claims' = claims \cup {NewClaim(agent, t)}

\* A successful claim of row t.  With a claim on t the INSERT breaks
\* UNIQUE(task_id), claim_task returns None and nothing changes.
ClaimTask(agent, roles, t) ==
  /\ t \in NextOpen(roles)
  /\ ClaimsOn(t) = {}
  /\ tasks' = [tasks EXCEPT ![t] = Claimed(@)]
  /\ claims' = claims \cup {NewClaim(agent, t)}

\* UPDATE claims ... WHERE id = claim_id: no row, no effect.
Heartbeat(t, attempt) ==
  /\ claims' = {IF c.task = t /\ c.attempt = attempt
                THEN [c EXCEPT !.fresh = TRUE] ELSE c : c \in claims}
  /\ UNCHANGED tasks

Closed(row) == [row EXCEPT !.state = "closed"]

\* Mutant of CompleteTask: the task's claims are not deleted.
CompleteKeepingClaims(t) ==
  /\ tasks' = [tasks EXCEPT ![t] = Closed(@)]
  /\ UNCHANGED claims

\* By task id: whoever completes the task, all claims on it go.
CompleteTask(t) ==
  /\ tasks' = [tasks EXCEPT ![t] = Closed(@)]
  /\ claims' = claims \ ClaimsOn(t)

\* Mutant of Released: the release that reaches the limit is let through.
ReleasedOnceMore(row) ==
  [row EXCEPT !.releases = @ + 1,
              !.state = IF row.releases >= ReleaseLimit THEN "blocked" ELSE "open"]

\* Mutant of Released: a state that no query of the store asks for.
ReleasedAsFailed(row) ==
  [row EXCEPT !.releases = @ + 1,
              !.state = IF row.releases + 1 >= ReleaseLimit THEN "failed" ELSE "open"]

\* Mutant of Released: the second release blocks already.
ReleasedTwice(row) ==
  [row EXCEPT !.releases = @ + 1,
              !.state = IF row.releases + 2 >= ReleaseLimit THEN "blocked" ELSE "open"]

Released(row) ==
  [row EXCEPT !.releases = @ + 1,
              !.state = IF row.releases + 1 >= ReleaseLimit
                        THEN "blocked" ELSE "open"]

ReleaseTask(t) ==
  /\ tasks' = [tasks EXCEPT ![t] = Released(@)]
  /\ claims' = claims \ ClaimsOn(t)

\* Mutant of StaleClaims: the age of the heartbeat is not looked at.
AllClaims == {c \in claims : tasks[c.task].state = "claimed"}

StaleClaims == {c \in claims : ~c.fresh /\ tasks[c.task].state = "claimed"}

\* One transaction over every stale claim.
ReclaimStaleClaims ==
  /\ tasks' = [t \in Task |-> IF \E c \in StaleClaims : c.task = t
                              THEN Released(tasks[t]) ELSE tasks[t]]
  /\ claims' = claims \ StaleClaims

----------------------------------------------------------------------------
(* Reading the queue. *)

\* Mutant of HasIncompleteTasks: a task someone works on is not counted.
HasWaitingTasks(roles) ==
  \E t \in Task : /\ tasks[t].role \in roles
                  /\ tasks[t].state \in {"open", "blocked"}

HasIncompleteTasks(roles) ==
  \E t \in Task : /\ tasks[t].role \in roles
                  /\ tasks[t].state \in {"open", "claimed", "blocked"}

\* Mutant of RunTerminalTaskState: done when no task is left, reporter or not.
TerminalWhenIdle ==
  IF \E t \in Task : tasks[t].state = "blocked" THEN "blocked"
  ELSE IF \A t \in Task : tasks[t].state = "closed" THEN "done" ELSE "none"

RunTerminalTaskState ==
  CASE \E t \in Task : tasks[t].state = "blocked" -> "blocked"
    [] /\ \A t \in Task : tasks[t].state # "blocked"
       /\ RoleEnqueued("reporter")
       /\ \A t \in Task : tasks[t].role = "reporter" => tasks[t].state = "closed"
       -> "done"
    [] OTHER -> "none"

----------------------------------------------------------------------------
(* Invariants of the two tables. *)

\* The two tables agree: a task is `claimed` exactly while one row of
\* `claims` is for it, whatever stale workers complete, release and beat.
\* claim_task, complete_task, release_task and the reaper each change both.
ClaimedIffClaimRow ==
  /\ \A c \in claims : c.task \in Task /\ tasks[c.task].state = "claimed"
  /\ \A t \in Task : tasks[t].state = "claimed" => ClaimsOn(t) # {}
  /\ \A c, d \in claims : c.task = d.task => c = d

\* A task is handed out at most three times, and never again once it is
\* blocked, however releases, reclaims and late completions interleave.
HandedOutThrice ==
  \A t \in Task :
    /\ tasks[t].attempts <= ReleaseLimit
    /\ tasks[t].state = "open" => tasks[t].attempts < ReleaseLimit

\* Why HandedOutThrice holds: every hand-out but the first follows a release.
AttemptsFollowReleases ==
  \A t \in Task :
    /\ tasks[t].attempts <= tasks[t].releases + 1
    /\ tasks[t].state = "open" => tasks[t].attempts <= tasks[t].releases
    /\ tasks[t].state \in {"open", "claimed"} => tasks[t].releases < ReleaseLimit

StoreInv ==
  /\ StoreTypeOK
  /\ ClaimedIffClaimRow
  /\ AttemptsFollowReleases
  /\ HandedOutThrice
=============================================================================
