# Verification of acyl

acyl scans a source tree for security weaknesses: a pipeline of agents (an
indexer, a cartographer, detectors, a triager, a reporter) takes tasks from a
queue in an SQLite database, and a dashboard starts, stops and deletes scans.
This directory holds TLA+ models of the parts in which threads, processes and
files meet, TLC configurations that check them on small instances, and TLAPS
proofs of all their safety properties and refinements for every value of the constants. All
paths below are relative to the repository.

## 1. Inventory

| Component | Code | State | Operations | Interacts with |
|---|---|---|---|---|
| Task queue | `src/acyl/substrate/db.py`, `schema.sql` | tables `tasks`, `claims` | `add_task`, `add_task_if_absent`, `claim_task`, `heartbeat`, `complete_task`, `release_task`, `reclaim_stale_claims`, `has_incomplete_tasks`, `run_terminal_task_state` | every thread of a scan, one transaction per call |
| Worker pool | `orchestrator/workers.py` | worker, heartbeat and reaper threads, `stop` | `_worker_loop`, `_heartbeat`, `_reaper_loop`, `run_worker_pool` | queue, `run_task_safely`, `cancel_check` |
| Scan pipeline | `orchestrator/pipeline.py`, `config.py`, `scan.py`, `scan_control.py` | the rows of the queue, `cancel_event`, `runs.state` | `seed_pipeline`, `handle_task`, `advance_after`, `_enqueue_detectors`, `run_task_safely`, `run_scan` | queue, detectors, triager, reporter, the job of the dashboard |
| Finding store | `substrate/db.py`, `fingerprint.py` | tables `findings`, `evidence`, `coverage`, `rule_gaps` | `upsert_finding`, `add_evidence`, `set_verdict`, `set_coverage`, `add_rule_gap` | detectors write, triager judges, reporter and dashboard read, autofix publishes |
| Triager | `triager/triage.py` | none of its own | `triage_run`, `llm_codeguard_sweep` | finding store |
| Detectors | `detectors/secrets.py`, `sca.py`, `codeguard.py`, `sca_goals.py` | none of their own | one function each over the files of the target; SCA also makes goals | finding store, OSV, queue |
| Antares | `detectors/antares.py` | transcript and turn counter of one localization | the turn loop, ranked submission, coverage | sandbox, model, finding store, `cancel_check` |
| Reporter | `reporter/report.py`, `evidence_table.py` | report files | `write_reports` | finding store |
| Autofix | `autofix/fix.py` | working tree, patch files | `autofix_finding` | finding store, git, outside of any scan |
| Dashboard service | `dashboard/app.py` | `_JOBS` under `_JOBS_LOCK` | submit, stop a job or a run, delete, read requests, `_execute_scan` | `run_scan` in background threads, the run directories, `runs/_tmp.db` |
| Agent status | `dashboard/agents.py` | none | `build_agent_status` | queue (reads) |
| Target | `target.py` | the clones in the data directory | `prepare_target`, `resolve_revision`, `load_scope`, `load_goals` | git, every scan of the same repository |
| The rest | `indexer/`, `cartographer/`, `sandbox/`, `model/`, `scope.py`, `paths.py`, `cli.py`, the browser's `static/` | files, subprocesses | I/O and text | pipeline |

What is hard, and what makes each part correct:

* **Task queue and pool.** Workers are threads that claim, beat and end tasks
  while a reaper takes stale claims away, and a worker is not told. The tables
  must agree, a task is handed out a bounded number of times, no two workers
  hold one attempt, a claim that is left behind is recovered, and only stale
  claims are stripped.
* **Pipeline.** The next stage is enqueued by whichever detector ends last,
  while other threads still enqueue, fail, are retried or are stopped. No stage
  may run twice, none may start before what it reads is complete, a scan that
  says `done` has reported everything, and every scan ends.
* **Dashboard.** A job's status is written by the request that stops it, by the
  request that deletes its run and by its own thread, and all scans of the
  process start on the same file. A status that is final stays, a stop is
  honoured, runs do not get into each other's database, and what is deleted
  stays away.
* **Findings.** Detectors are run again and overlap, a finding and each of its
  evidence rows are transactions of their own, the triager works on a list that it
  read before, autofix reads a finding, works in a tree that it shares and writes
  the finding without looking again. Nothing may be confirmed or published without
  the evidence of the gate, no verdict may be turned back, what is reported must
  stay true, and a retry must neither lose nor repeat a record.
* **Target.** All scans of one repository read one clone, which is made once and
  then fetched. A scan must read the commit that it is pinned to.

`PROJECT.json` lists the components with their status, and every hazard with its
line and the properties that are about it.

## 2. Modules

| Module | Role |
|---|---|
| `TaskStore` | the two tables and each operation of `Store` on them as an operator; the invariants of the tables |
| `WorkerLease` (extends `TaskStore`) | any number of workers, heartbeats and the reaper over the queue; handlers take any time and may fail |
| `ExclusiveWork` | abstract: units of work that one agent has in its hands at a time, a bounded number of times, and that are recovered when dropped |
| `Pipeline` (extends `TaskStore`) | one scan: the stages, the barrier, retries, stop, the main thread |
| `Dashboard` | jobs, stop and delete around `run_scan`, with the files both work on |
| `FindingStore` | the tables `findings`, `evidence`, `coverage` and `rule_gaps` and each operation on them |
| `Findings` (extends `FindingStore`) | the detectors, the triager, the reporter and requests to fix, transaction by transaction |
| `Target` | scans that share a clone, against developers who push |
| `TaskStoreProofs`, `WorkerLeaseProofs` | lemmas about the operations of the queue, its inductive invariant and theorems |
| `PipelineProofs` | inductive invariant of `Pipeline` and the theorems about its stages |
| `PipelineLeaseProofs` | `Pipeline` implements `WorkerLease`, and what it inherits from it |
| `BarrierProofs` | the barrier, the report, the board and the end of a scan |
| `DashboardProofs` | inductive invariants and theorems of `Dashboard` |
| `FindingsProofs` | inductive invariants and theorems of `Findings` |
| `TargetProofs` | inductive invariant and theorems of `Target` |
| `MCWorkerLease`, `MCPipeline`, `MCDashboard`, `MCFindings`, `MCTarget` | the instances that TLC checks |

`Pipeline` implements `WorkerLease`, and `WorkerLease` implements
`ExclusiveWork` while no held claim lapses. `Dashboard` is beside them: what
lies between `seed_pipeline` and the end of `run_worker_pool` is two labels there
(`pool`, `report`) and a module of its own here. `Findings` is inside of
`Pipeline`: it opens up the handlers of the detectors, the triager and the
reporter, which are one step each there, and keeps of the queue what `Pipeline`
shows of it (a job may be run again, by two workers at once, and is completed and
released by its id). `Target` comes before both.

### TaskStore and WorkerLease

`tasks` is the sequence of rows in the order of insertion, `claims` the set of
claim rows. Every method of `Store` holds the store's lock and one transaction, so
it is one atomic operator. `created_at` has a resolution of a second, so
`ClaimTask` may take any open row of the smallest priority. Time is reduced to
what the reaper tells apart: a claim is `fresh`, or older than
`STALE_CLAIM_SECONDS`. A claim's uuid is the task with a count of the claims made
on it, the history field `attempts`.

In `WorkerLease`, `holding[a]` is the local variable `task` of `_worker_loop`, and
`phase[a]` tells whether `complete_task` has been called. `Claim`, `Beat`,
`Finish`, `Advance`, `GiveUp` and `Reap` are the calls of the loop, of the
heartbeat thread, of `run_task_safely` and of the reaper. `Lapse` is 90 seconds
without a heartbeat. For a claim that nobody holds any more that just happens;
for one that is held it needs a reason, a heartbeat thread that returned on an
exception (workers.py:61) or a suspended host, and is counted in `lapses`.

### Pipeline

`pc` says where a worker is in `_worker_loop`, `handle_task` and
`advance_after`: every transaction is a step, so the rows of
`_enqueue_detectors` are inserted one by one while workers already take them,
and `has_incomplete_tasks` and the insertion of the triager are two steps.
`finding` is the state of what a job (role and goal) has found: nothing, a
candidate, or triaged. What lies behind that, and whether a job finds all that it should, is in
`Findings`. `main` is the main thread of `run_worker_pool` and
`run_scan`; `stopping` lasts until the joins have given up, and after `closed`
every call of the store raises. `Fail` is an exception anywhere in
`run_task_safely`, the release in its handler included; `Die` is one of
`claim_task`, which the loop does not catch. `Board` is what `build_agent_status`
makes of the rows for the dashboard.

### Dashboard

Each locked section of a handler and of `_execute_scan` is a step, and so is each
call of `run_scan` on the file system or a database. A file is named by who
created it, `tmp` and `db` say which file a path leads to, `handle` which file a
job is connected to. `logged` and `rows` separate what SQLite has in the
write-ahead log from what is in the file: the log belongs to the name, so a file
that is renamed under another connection loses it. `overlapped` records that
two scans have had a part in `runs/_tmp.db` at once; from then on a log may be
lost and a call may raise, because logs and their index are shared by name.

### FindingStore and Findings

A finding is named by its fingerprint, which is unique in a run. Of a row of
`evidence` is kept its kind and whether its path and line resolve in the target.
`Upserted` has the rule that everything rests on: a fingerprint that is known
keeps state and verdict and takes over severity and rule.

In `Findings` a worker's `attempt` is the stack of its thread: the job, the hits that
are left and the evidence row that is next, so an exception or a stale claim can come
between any two transactions. What CodeGuard, and the fallbacks that stand in for a tool
that is not installed, find is fixed (`HitsOf`); what Antares and the sweep find is any
part of that, since a model answers differently when it is asked again. Jobs in
`Reporting` run gitleaks or osv-scanner, which write a report into the target at a name
that is always the same (`output`): the tool makes or truncates the file, writes it, and
`run_gitleaks` or `run_osv` reads it and unlinks it, each a step (`RunTool`). Attempts
at one job share the file. A report that another attempt has unlinked, or one that the
tool never wrote, says to the reader that there is nothing to find; an empty one too.
`FailReport` is a tool that ends without its report, `Tamper` another scan of the same
target. `Judgement` is the gate of `triage_run`, with its presence classes, the Antares
exception and the citations; `triager` holds the list that was read at the start and the
verdict between `list_evidence` and `set_verdict`. `Synthesize` is the selection of SCA
goals: sorted by severity, cut at `ScaCap`, the rest of the order left open. `fix[r]` is
the stack of one call of `autofix_finding`, by `api_fix` or the command line; `tree` is
the work tree of the target as the set of fixes that are uncommitted in it, and `edits`
counts how often a finding's fix was written. `patch` is the patch file: what `git diff`
shows, or no fix at all when it is the manual note that is written when git fails or
shows nothing. `Unseen` are the findings that git may not show (no git work tree, an
ignored or untracked file). `RaiseFix` is an exception after the fix was written. All
detectors are enqueued when `Findings` starts: what may go wrong with that is in
`Pipeline`.

### Target

`clone[n]` is the directory for all URLs with last segment `n`: whose repository it is,
and the commits that it has fetched, that its local `main` is at and that is
checked out. `seen[s]` collects what scan `s` has read, the goals first. A clone
takes two steps, between which the directory exists without a commit. `shared`
records scans for which another scan prepared the same directory meanwhile.

## 3. Runs

Passing runs:

| Run | Instance | Shows |
|---|---|---|
| `lease` | 3 workers (one for one role only), 2 roles, 2 tasks, 2 lapses | tables agree, three attempts at most, attempts are distinct, the reaper takes stale claims only, claims left behind are recovered; while no held claim lapses, refinement of `ExclusiveWork`, its liveness included, and nobody loses a claim that is held |
| `pipeline_safety` | one goal, one SCA goal, 2 detector threads, no fault | barrier, `done` means reported, the board does not take back that the detectors are done |
| `pipeline_stop` | a stop and one exception anywhere | one row per stage, report after triage, what blocks a scan, what a stop leaves in `runs` |
| `pipeline_ends` | 2 detector threads, one exception anywhere, which may be one of `claim_task` that ends a thread | every scan ends, on one detector thread too, unless a whole family died |
| `pipeline_stop_ends` | one detector thread, the same exceptions, a stop | a stop ends a scan, even one with a dead family |
| `pipeline_lapse` | one lapse of a held claim | a task that runs twice at once; refinement of `WorkerLease` |
| `dashboard` | 2 jobs, 1 run that is shown and deleted, 1 exception | runs apart, stop honoured, final statuses stay, a stop settles |
| `findings` | SCA and a rule detector with a tool, or Antares and the LLM sweep; 2 detector threads, 2 requests to fix, 1 trouble: an exception, a lapse, or a report that fails or is tampered with | the ten properties of `Findings` below |
| `target` | 3 scans, 2 repositories of one name, 2 commits each | a scan reads the commit that it is pinned to; a commit of the remote is found in an old clone |

Runs that TLC finds violated, each a disagreement between a text of the
repository and its code (`findings` in `PROJECT.json` quotes both):

* `early_triage`: a detector that ends before the next row of
  `_enqueue_detectors` is inserted sees no incomplete detector and enqueues the
  triager. `BarrierHolds` and `DoneMeansReported` are stated for the other
  behaviours, those in which the history variable `early` is not set: no detector
  passed the barrier while a row of `_enqueue_detectors` was missing, because it was
  still to come or, after an exception, lost for good.
* `deleted_is_gone`: after a successful `DELETE` the run's directory comes back,
  made by the scan that goes on or by a read request.
* `advisories`: the fingerprint of an SCA finding has no advisory in it, so of two
  advisories for one dependency only the last is left, and the goals, "one per
  advisory", are made of what is left.

**Properties of `Findings`.** `EvidenceGate`: nothing is confirmed or published without
the evidence in the store. `VerdictsStay`: no step turns a confirmed, recorded or
published finding back. `ReportStays`: what is reported is not judged again.
`ClosedMeansRecorded`: a closed rule or SCA detector has written everything, whatever
its attempts did; for one with a tool it takes that nothing happened to the report.
`JudgedOnEvidence`: after triage every finding has the verdict that the evidence then in
the store calls for. `CoverageSettles`: coverage does not say `running` of a goal that
nobody works on. `GapOnce`: a confirmed Antares finding has one rule gap.
`WorstGetGoals`: the cut of the SCA goals leaves out nothing that is graver than what it
keeps, retried or not. `PatchCarriesFix`: the patch of a published finding has its fix
in it, when git can show it.

**Exceptions that properties state.** Each is a behaviour of the code that TLC
showed when the property was stated without it.

* `OnlyStaleStripped` (and the refinement of `ExclusiveWork`) hold while no held claim
  lapses. `complete_task` and `release_task` delete the claims on a task by the
  task's id: a worker whose claim went stale ends the attempt of the worker that
  the task was handed to next, although that one beats, which
  `specs/001-foundry/constitution.md` (principle III) rules out.
* `JudgedOnEvidence` leaves out findings that an attempt which outlived its claim writes
  to after the triager has listed them: they stay candidates in a scan that is done, or
  keep a verdict on half of their evidence.
* `CoverageSettles` leaves out runs with both an exception and a lapse: one attempt raises
  and releases the task with the goal `running`, and the other, which had outlived its
  claim, completes it.
* `GapOnce`: an exception between the verdict and the gap loses the gap for good, since
  the next `triage_run` passes over confirmed findings.
* `ClosedMeansRecorded`, for jobs that run gitleaks or osv-scanner, leaves out runs with
  a lapse, and runs in which the tool ended without a report or another scan was at the
  target. Attempts at one job share the report file, the reader unlinks it, and a
  missing report is read as no hits (sca.py:222, secrets.py:85): an attempt that
  outlived its claim makes the other one find nothing, set its coverage to `done` and
  close the task with nothing recorded. Exceptions do no harm: the next attempt's tool
  writes the report anew.
* `PatchCarriesFix` leaves out requests at work at the same time (one commits the
  other's fix with `git add -A` before it is in a patch); fixes that change nothing, as of
  dependencies of a `package.json` other than lodash (fix.py:187 writes the old version back and
  reports a change); files whose change git does not show, where the patch file is a
  `# Manual note` and the finding is published all the same (fix.py:75, 139); and a fix that
  is written a second time, after a request that raised: when the first one's change
  is committed already the diff is empty, and the note replaces the patch.
* `ReadsWhatItPinned` leaves out scans whose directory another one prepares meanwhile, and
  `RevisionIsFound` a clone of another URL with the same last segment, which is never
  replaced. A scan without a revision reads the commit that the last scan checked out; it
  says so in its pinned revision.
* `WorstGetGoals` has the same exception. Two advisories for one dependency are one finding.
  The attempt that will raise may put the graver one into the store after the attempt that
  outlived its claim has made goals of the milder one; the latter then completes the task that
  the former released, and nobody is left to make a goal of the graver one. The attempt to
  prove the property without the exception led to this behaviour, and TLC shows it with two
  troubles.
* `BarrierHolds`, but for rows that are missing, and the findings of language models in
  `DoneMeansReported` leave out runs with an exception or a lapse: a task that was
  followed up may be open again, and a model that is asked again may find something new
  behind the triager's back. Unless `early` is set, what the rule detectors and SCA find
  is judged and reported whatever fails.
* `DetectorsStayDone` leaves out steps while `_enqueue_detectors` inserts its rows, and runs with
  an exception or a lapse.
* Beyond any property: after the two seconds of a join the store is closed under a worker that
  is still busy, and its claim stays in the database of the run, against principle IV.

**Bounds.** `Room`, `MaxLapses`, `MaxFaults`, `MaxDeaths`, `MaxErrors` and `Requested`,
`MaxTroubles`, `Request`, `Scan` and `MaxCommits` are the only bounds, and each is a
guard or a set of one-shot requests. Two tasks and two lapses let a task go through all
its releases while another is worked on; the limit of three attempts is reached in
`lease`, with a claim left behind. Two detector threads are `MAX_WORKERS["detector"]`,
so the families of `Pipeline` have their real sizes (but for `pipeline_stop_ends`, where
every family is one thread and a death is that of a family). `MaxFaults` bounds the
exceptions together with the deaths. One goal of each kind makes the set of detector
rows grow while detectors run; more goals repeat the same steps. Two jobs have every
overlap of two scans. A run is deleted and shown by itself: such requests work on their
own directory only, so one run with and one run without them has every pair. In
`findings` a scan has SCA and the secrets job, or Antares and the sweep, which leaves
every pair of writers of one finding: two attempts of one job, a job and the triager, a
job and a request, two requests. Four jobs at once only add jobs that share no finding.
The secrets job runs its tool, SCA the fallback, so both forms are there; the steps of
the tools are the same. `ScaCap` is 1 with two grave findings, so the cut happens; one
dependency is under a documentation path, the fix of another changes nothing, and that
of the Antares finding may be hidden from git. One trouble is enough for a retry or for
two attempts at once; that two are needed for the exceptions of `CoverageSettles` and
`WorstGetGoals` was found with `MaxTroubles = 2` on smaller instances; the theorems are
for any number. Three scans and two commits let an old clone be read, fetched and
checked out back and forth.

Symmetry is used for the detector threads, requests and scans in runs without liveness
properties or refinement (`pipeline_safety`, `pipeline_stop`, `findings`, `target`).
Deadlock is not checked: a queue whose tasks are closed, a scan that has ended,
jobs that are over and requests that are answered do stop.

**Fairness.** Only what the code's own loops bring about is fair.
`WorkerLease!FairSpec`: the reaper's turn every 10 s, and the ageing of a claim that
nobody holds. `Pipeline!FairSpec`: these, each worker's next step (polls of half a
second, handlers that end) and the main thread's. That handlers end is justified in
part: model calls have a timeout of 120 s, commands in the sandbox one of 30 s, and the
turns of Antares are limited. gitleaks, osv-scanner and the start of a container have no
timeout; that they end is an assumption. `Dashboard!FairSpec`: the next step of each
background task, under the same assumption and the one that git, which prepares the
target without a timeout, ends. No operator, exception, lapse or heartbeat is fair.
`Findings` and `Target` state safety only: that handlers end and stages follow each
other is the liveness of `Pipeline`.

## 4. Proofs

Every safety property and both refinements are theorems, for every value of the
constants that the assumptions below allow: any threads, roles, goals, findings, scans,
exceptions, lapses and requests.

**The queue** (`TaskStoreProofs`, `WorkerLeaseProofs`)

| Theorem | States |
|---|---|
| `LeaseInvariant` | `LeaseInv` holds in every reachable state |
| `TypeCorrect` | `TypeOK` |
| `TablesAgree` | `ClaimedIffClaimRow` |
| `AtMostThreeAttempts` | `HandedOutThrice` |
| `AttemptsAreDistinct` | `DistinctAttempts` |
| `ReaperTakesStaleOnly` | `ReaperSparesFresh`, an action property |
| `WorkIsExclusive` | `ExclusiveInv`: while no held claim has lapsed, one worker per task |
| `HeldClaimsStay` | `OnlyStaleStripped`, an action property |
| `ImplementsWork` | `ImplementsExclusiveWork`, the refinement of `ExclusiveWork` |

The inductive invariant is `LeaseInv == TypeOK /\ StoreInv /\ HoldingIsReal /\
DistinctAttempts`. Neither of the first two properties is inductive alone.
`HandedOutThrice` counts claims, but a task is blocked by its count of
releases: `AttemptsFollowReleases`, a part of `StoreInv`, ties the one to the
other, and needs in turn that a claim is only made on a row that is open. That a
late completion or release by a worker that lost its claim keeps the tables
together needs `HoldingIsReal`: what a worker holds is a row that exists, with
an attempt that was really made, so the next claim on the row has a larger one.
`TaskStoreProofs` has one lemma for each operation: it preserves `StoreInv`, and
what it does to the counts. The proof of a step then has one lemma for each
action.

`ExclusiveInv` says what is true until a held claim lapses: a task has one busy worker
(`OneOwner`), whose claim is there and fresh until it calls `complete_task`
(`KeepsClaim`), and whose task is closed after that (`StaysClosed`). The last part is
what makes the other two inductive: `release_task` after a failed follow-up reopens a
task by its id, which takes nobody's claim only because the task is closed and its
worker alone. The refinement maps a task and its owners to a unit of work; each action
then changes one unit as a step of `ExclusiveWork` does, or none.

**A scan** (`PipelineProofs`, `PipelineLeaseProofs`, `BarrierProofs`)

| Theorem | States |
|---|---|
| `PipelineInvariant` | `PipeInv` holds in every reachable state |
| `PipelineTypes` | `TypeOK` |
| `StagesOnce` | `OneRowPerStage` |
| `ReporterAfterTriage` | `ReportAfterTriage` |
| `ScanImplementsWorkerLease` | `ImplementsWorkerLease`, the refinement of `WorkerLease` |
| `ScanWorkIsExclusive`, `ScanSparesFresh`, `ScanHandsOutThrice` | what the threads of a scan inherit by it |
| `BarrierInvariant` | `BarrierInv` |
| `TriagerWaits` | `BarrierHolds` |
| `DoneIsReported` | `DoneMeansReported` |
| `BoardStaysDone` | `DetectorsStayDone`, an action property |
| `GiveUpInvariant` | `GiveUpInv` |
| `BlockedIsPaidFor` | `BlockedAfterThree` |
| `StopsAreRecorded` | `StopIsRecorded`, when there are at most two detector threads |

`OneRowPerStage` is not inductive: two handlers could be on their way to insert the same
row. Most stages are safe by `add_task_if_absent`, one transaction. The detectors are
not, since `_enqueue_detectors` looks once and then inserts row by row. What saves them is
that only the cartographer's thread inserts them (`HoldsOwn`: a thread works on rows of
its own family), that the secrets row, which it looks for, goes in first
(`SentinelFirst`), and that the rows still to insert are not there yet (`ToCome`), so an
exception in between leaves the sentinel behind and the next attempt inserts nothing.
`ReportAfterTriage` needs that the triager's thread enqueues the reporter after it has
closed its row and has no second row to take (`TriageInv`), which holds because triage
has one row. `PipeInv` joins these with `TypeOK` and with `StoreInv` of the queue, whose lemmas in
`TaskStoreProofs` are used again: a worker whose claim went stale completes and releases by the
task's id here too.

A scan is a run of `WorkerLease`: each step of a handler, of the main thread or of the
operator is there an enqueueing, a part of the life of one task, or nothing. So the
theorems of `WorkerLeaseProofs` hold of its threads, and `WorkIsExclusive` is what the
barrier needs.

The barrier is a chain. A detector's row that is closed, or past its handler, has a
finding (`ClosedHaveRun`), the SCA row its goals as well (`GoalsFirst`); this is
`JobInv`. So when `has_incomplete_tasks` says that no detector is left, everything has
been found that has a row (`BehindBarrier`), and nothing adds a row any more unless
`early` is set. From then on findings only move forward: in the triager's list or
judged, judged when it is through, reported when the reporter is (`JudgedThenReported`).
The chain is kept for the jobs of `Sure`, whose findings cannot fall back: the secrets
job always (its row is there before any detector can be), the rule detectors and SCA
unless `early`, the jobs of a model as long as nothing has failed or lapsed, since a
model that is asked again may find something new.

`BlockedAfterThree` counts: the releases of a task, plus one when a claim on it will be
taken away (`Owed`), are at most the exceptions, the lapses, and, after a stop, the
threads of the task's family that have ended (`ReleasesCounted`). A stop releases a task
once for each such thread, so with three of them it could block a scan that nothing went
wrong in; `StopsAreRecorded` has the hypothesis `Cardinality(DetectorWorker) <
ReleaseLimit`, which `MAX_WORKERS["detector"] = 2` meets, and every other family is one
thread.

**The dashboard** (`DashboardProofs`)

| Theorem | States |
|---|---|
| `DashboardTypes` | `TypeOK` |
| `StopsAreHonoured` | `StopIsHonoured` |
| `FinalStatusStays` | `TerminalStays`, an action property |
| `ScansApart` | `RunsApart` |
| `ScansAlone` | `RunAlone` |

`TerminalStays` is about two writers that do not look at each other: the deletion sets
`cancelled` while the job's task runs, and the task sets its own outcome later. They
agree because the deletion has stopped the job before (`DeletionStops`), and it always
finds the job, because nothing of a run is on disk before its id is published
(`PublishedFirst`). With `StartedJobs`, `EarlyEndIsStop` and `StopIsHonoured` this makes
`JobInv`, which is inductive. `RunsApart` rests on `FilesInv`: rows never leave a file
once they are in it (`LogHasRows`), a scan opens a database that no other scan is
connected to (`OpenedApart`), and goes on only when the foreign key finds its run
(`OwnRow`). `RunAlone` rests on `AloneInv`: without overlap one scan at a time has a
part in `runs/_tmp.db`, what it finds there after its look is its own, and files and
logs have one job's rows.

**The findings** (`FindingsProofs`)

| Theorem | States |
|---|---|
| `FindingsTypes` | `TypeOK` |
| `EvidenceBeforeVerdict` | `EvidenceGate` |
| `VerdictsAreFinal` | `VerdictsStay`, an action property |
| `ReportsStay` | `ReportStays` |
| `ClosedIsRecorded` | `ClosedMeansRecorded` |
| `PatchesCarryFixes` | `PatchCarriesFix` |
| `GapsOnce` | `GapOnce` |
| `JudgedByEvidence` | `JudgedOnEvidence` |
| `GoalsAreSettled` | `CoverageSettles` |
| `WorstAdvisoriesFirst` | `WorstGetGoals` |

`EvidenceGate` is not inductive: between `list_evidence` and `set_verdict` the triager
holds a judgement of evidence that others may add to meanwhile, and a request holds a
finding that it has read as confirmed. `GateInv` adds both (`TriagerInv`, `FixInv`):
rows are only ever added, so a finding that passed the gate still does, and while the
triager has a finding in hand no other step gives it a verdict. `VerdictsStay` follows
from it step by step. `ReportInv` adds what makes the report last: once the reporter is
enqueued triage is closed, the triager has nothing in hand and cannot be run again,
because the only step that opens it needs a triager at work; so after the listing only a
fix changes a state. `RecordInv` is about attempts: what an attempt has passed is
written (`Wrote`), whoever else is at the job, and findings and evidence only grow
(`Grows`), so whichever attempt completes the job has everything in the store.
Overlapping attempts are why the invariant is about each worker and not about the job.
That an attempt with a tool has read its report (`OutputInv`) needs more: without a
lapse it is alone at its job (`SerialInv`), so the report is as its own steps left it.
`PatchInv` follows a request from the edit of the work tree to the patch: without
overlap a fix stays in the tree until `git diff` has read it; `EditsInv` says that a
finding whose fix was never written is not published, so one write means one request
that edited the file. `GapInv` needs of `GateInv` that a finding in the triager's hands
is undecided, so a verdict meets a finding without a gap, and only a fault keeps the
triager from going on to `NoteGap`.

`JudgedInv`: a finding that nobody wrote to since the last listing has the state that
`triage_run` gives to its evidence, or still waits for the triager, and what the triager
is about to say of it is still what its evidence calls for (`Right`). The context row
that the triager adds itself changes no judgement.

The last two are about attempts that follow each other or overlap. `SerialInv`: without
a lapse a job has one attempt at a time and its task is in the state that goes with it.
`Pending(j, labels)`: an attempt at `j` has not got past these points, or one has raised
and the job will be run again; one lemma, `PendingStays`, keeps this when attempts only
get past the points by raising. `CoverInv` (a goal that is `running` has a pending
attempt before its coverage) and `WorstInv` (the goals are those of the gravest
findings, or an attempt of the SCA job is pending before its goals) are then two uses of
it. With both an exception and a lapse `Pending` can be lost: the attempt that raised
leaves the job open, and the one that had outlived its claim completes it.

**The target** (`TargetProofs`)

| Theorem | States |
|---|---|
| `TargetInvariant` | `TargetInv` holds in every reachable state |
| `TargetTypes` | `TypeOK` |
| `ScanReadsItsCommit` | `ReadsWhatItPinned` |
| `CommitsAreFound` | `RevisionIsFound`, an action property |

`TargetInv` joins what all scans keep (one scan clones into a directory, and what a scan
was asked for is fetched before it checks out) with what a scan keeps that nobody meets
in its directory: from the checkout on it has what it checked out (`HasItsOwn`).

**Assumptions.** `StoreAssumption` (every role has an integer priority) and
`LeaseAssumption` (each worker serves a set of roles, bounds are natural numbers) are
those of the queue; `PipelineAssumption` fixes the roles, their priorities and the
families of threads, of which the detectors are finitely many and at least one, and
makes `Goals` and `ScaGoals` sequences of payloads. `DashboardAssumption`: bounds are a
set of jobs and a natural number, and `NoFile` is no file. `FindingStoreAssumption` and
`FindingsAssumption`: classes, hits and goals have their types, there is a job and a
finding, and a hit that a detector writes is a candidate with evidence.
`ClassesAssumption`, which only `WorstAdvisoriesFirst` uses: there is one SCA job (its
row is one of the stages of `OneRowPerStage`), the class `vulnerable-dependency` is
written by `detectors/sca.py` only, and since the class is part of the fingerprint no
other detector writes to its findings; the finding of a model that does not answer is
`recorded` and of class `tooling` (`detectors/antares.py`). `TargetAssumption`: there is
a URL, and each has a name. TLC evaluates all of them in the runs.

**Only model-checked.** Liveness under fairness is beyond the proof system: `MortalClaims`,
`ScanEnds`, `StopEnds` and `StopSettles`.

## 5. Not modelled

* What is matched and parsed: the patterns of the detectors, OSV reports, the index, the security
  map, the layout of reports and the grouping of their evidence, the text of a fix, the
  grammar of goals and scope. They are functions without state.
* The artifacts of a run (`index.json`, `security-map.md`, the manifest), which are
  written in place by a handler that is one step in `Pipeline`.
* The turns of an Antares conversation: they change the transcript only, and
  end with one of the answers of `Answer` and `ModelDown`.
* Exceptions out of `set_run_state` in the handlers of `run_scan`, and the
  ends of subprocesses and model calls, which `Fail` stands for.
* A crash of the whole process: nothing resumes a run (`_JOBS` is in memory and
  `run_scan` always creates a new run).
* In the dashboard: progress texts and the report request; `rmtree` is one
  step that succeeds or removes the database only.
* Local targets in `Target`: no step of acyl changes their files but a fix, and the
  reports of the tools, which are in `Findings`.
* The fixes of other scans in the same work tree: a patch may hold them too, and a fix
  that another scan has made already is one that changes nothing.
* Pure I/O: Docker, the model client and server, the command line, the browser.

## 6. What is left

1. Artifacts of a run written in place, with a retry that reads them; the detectors
   that an exception in `_enqueue_detectors` loses.
2. Pure algorithms against reference definitions: severities and CVSS (`sca.py`), the
grouping of evidence (`evidence_table.py`). 3. Proofs: that a detector passes the
barrier early only while `_enqueue_detectors` inserts or has lost rows (what `early`
means), and that `Findings` is what the handlers of `Pipeline` do to the store, as a
refinement.
