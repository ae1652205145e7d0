----------------------------- MODULE Dashboard -----------------------------
(***************************************************************************)
(* Scan jobs of the dashboard (dashboard/app.py) around run_scan           *)
(* (orchestrator/scan.py), with the files both work on.                    *)
(*                                                                         *)
(* The handlers and _execute_scan change _JOBS under _JOBS_LOCK: each      *)
(* locked section is a step.  So is each call of run_scan on the file      *)
(* system or on a database, and each step of api_delete_run and of the     *)
(* read requests, which open a Store too.  What happens between            *)
(* seed_pipeline and the end of run_worker_pool is Pipeline's; here it is  *)
(* the report and the outcome.                                             *)
(*                                                                         *)
(* A run is named by the job it is made for.  Database files are named by  *)
(* who created them.  A Store opened on a missing file creates it, its     *)
(* directory included.  In WAL mode what a connection commits is in the    *)
(* write-ahead log until the last connection closes, provided that the     *)
(* file still has its name then.  The log and its index have names of      *)
(* their own: scans that overlap on runs/_tmp.db may share them although   *)
(* the file was unlinked or renamed between, so from then on a log may not *)
(* get into its file and any call of SQLite may raise.                     *)
(***************************************************************************)
EXTENDS Integers

CONSTANTS
  Job,
  NoFile,
  Requested,  \* bound: the runs that are shown and deleted
  MaxErrors   \* bound: exceptions out of run_scan and rmtree that nobody else caused

ASSUME DashboardAssumption ==
  /\ Requested \subseteq Job /\ MaxErrors \in Nat
  /\ \A j \in Job, by \in {"tmp", "run", "read"} : <<j, by>> # NoFile

VARIABLES
  status,     \* job["status"]
  runId,      \* jobs whose run_id is set
  cancel,     \* jobs whose cancel_event is set
  pc,         \* per job: where its background task is
  result,     \* per job: how run_scan ended
  tmp,        \* the file at runs/_tmp.db
  db,         \* per run: the file at <run>/acyl.db
  dirs,       \* runs whose directory exists
  handle,     \* per job: the file its Store is connected to
  logged,     \* per file: the rows of `runs`, those in the log included
  rows,       \* per file: the rows of `runs` that are in the file itself
  deleter,    \* per run: where its api_delete_run is
  reader,     \* per run: whether a read request has seen the database
  errors,     \* history: what MaxErrors bounds
  overlapped  \* whether two scans have had a part in runs/_tmp.db at once

jobs == <<status, runId, cancel>>
files == <<tmp, db, dirs, handle, logged, rows>>
requests == <<deleter, reader>>
vars == <<jobs, pc, result, files, requests, errors, overlapped>>

----------------------------------------------------------------------------

File == Job \X {"tmp", "run", "read"}

Active == {"queued", "running", "stopping"}

Terminal == {"completed", "failed", "cancelled"}

\* Where a scan has a part in runs/_tmp.db.
Starting == {"look", "unlink", "open", "create", "publish", "mkdirs", "close",
             "replace"}

\* Where an exception out of run_scan leads to its last handler.
Scanning == Starting \cup {"prepare", "reopen", "seed", "pool", "report"}

Connected(f, j) == \E i \in Job \ {j} : handle[i] = f

HasTmp(j) ==
  \/ pc[j] \in Starting
  \/ pc[j] = "settle" /\ handle[j] \notin {NoFile, db[j]}

Goto(j, label) == pc' = [pc EXCEPT ![j] = label]

Init ==
  /\ status = [j \in Job |-> "none"]
  /\ runId = {} /\ cancel = {}
  /\ pc = [j \in Job |-> "idle"]
  /\ result = [j \in Job |-> "none"]
  /\ tmp = NoFile
  /\ db = [j \in Job |-> NoFile]
  /\ dirs = {}
  /\ handle = [j \in Job |-> NoFile]
  /\ logged = [f \in File |-> {}]
  /\ rows = [f \in File |-> {}]
  /\ deleter = [j \in Job |-> "idle"]
  /\ reader = [j \in Job |-> "idle"]
  /\ errors = 0
  /\ overlapped = FALSE

----------------------------------------------------------------------------
(* Requests on jobs. *)

\* api_scan: the job, and a background task for it.
Submit(j) ==
  /\ status[j] = "none"
  /\ status' = [status EXCEPT ![j] = "queued"]
  /\ Goto(j, "begin")
  /\ UNCHANGED <<runId, cancel, result, files, requests, errors, overlapped>>

\* _stop_job_locked.
StopJob(j) ==
  /\ cancel' = cancel \cup {j}
  /\ status' = [status EXCEPT ![j] = "stopping"]
  /\ UNCHANGED runId

\* api_stop_job, and api_stop_run, which finds the job by its run.
Stop(j) ==
  /\ status[j] \in Active
  /\ StopJob(j)
  /\ UNCHANGED <<pc, result, files, requests, errors, overlapped>>

----------------------------------------------------------------------------
(* _execute_scan and run_scan up to the pool. *)

\* Mutant of Begin: the early return leaves the status as it is.
BeginWithoutStatus(j) ==
  /\ pc[j] = "begin"
  /\ IF j \in cancel THEN Goto(j, "over") /\ UNCHANGED status
     ELSE Goto(j, "prepare") /\ status' = [status EXCEPT ![j] = "running"]
  /\ UNCHANGED <<runId, cancel, result, files, requests, errors, overlapped>>

Begin(j) ==
  /\ pc[j] = "begin"
  /\ IF j \in cancel
     THEN Goto(j, "over") /\ status' = [status EXCEPT ![j] = "cancelled"]
     ELSE Goto(j, "prepare") /\ status' = [status EXCEPT ![j] = "running"]
  /\ UNCHANGED <<runId, cancel, result, files, requests, errors, overlapped>>

\* run_scan ends without having got to its try.
Leave(j, how) ==
  /\ Goto(j, "settle")
  /\ result' = [result EXCEPT ![j] = how]

\* prepare_target and check().
Prepare(j) ==
  /\ pc[j] = "prepare"
  /\ IF j \in cancel
     THEN Leave(j, "cancelled") /\ UNCHANGED overlapped
     ELSE /\ Goto(j, "look")
          /\ overlapped' = (overlapped \/ \E i \in Job : HasTmp(i))
          /\ UNCHANGED result
  /\ UNCHANGED <<jobs, files, requests, errors>>

\* Mutant of Look: a file that an earlier scan left behind is used again.
LookNoMore(j) ==
  /\ pc[j] = "look"
  /\ Goto(j, "open")
  /\ UNCHANGED <<jobs, result, files, requests, errors, overlapped>>

\* tmp_store_path.exists()
Look(j) ==
  /\ pc[j] = "look"
  /\ Goto(j, IF tmp = NoFile THEN "open" ELSE "unlink")
  /\ UNCHANGED <<jobs, result, files, requests, errors, overlapped>>

\* tmp_store_path.unlink(): FileNotFoundError when it is gone meanwhile.
Unlink(j) ==
  /\ pc[j] = "unlink"
  /\ tmp' = NoFile
  /\ IF tmp = NoFile THEN Leave(j, "error") ELSE Goto(j, "open") /\ UNCHANGED result
  /\ UNCHANGED <<jobs, db, dirs, handle, logged, rows, requests, errors, overlapped>>

\* Store(tmp_store_path).
OpenTmp(j) ==
  /\ pc[j] = "open"
  /\ tmp' = IF tmp = NoFile THEN <<j, "tmp">> ELSE tmp
  /\ handle' = [handle EXCEPT ![j] = tmp']
  /\ Goto(j, "create")
  /\ UNCHANGED <<jobs, result, db, dirs, logged, rows, requests, errors, overlapped>>

\* store.create_run
CreateRun(j) ==
  /\ pc[j] = "create"
  /\ logged' = [logged EXCEPT ![handle[j]] = @ \cup {j}]
  /\ Goto(j, "publish")
  /\ UNCHANGED <<jobs, result, tmp, db, dirs, handle, rows, requests, errors, overlapped>>

\* Mutant of Publish: the run's id becomes known when the pool is running.
PublishLate(j) ==
  /\ pc[j] \in {"publish", "pool"}
  /\ runId' = IF pc[j] = "pool" THEN runId \cup {j} ELSE runId
  /\ IF pc[j] = "pool" THEN UNCHANGED pc ELSE Goto(j, "mkdirs")
  /\ UNCHANGED <<status, cancel, result, files, requests, errors, overlapped>>

\* on_run_created
Publish(j) ==
  /\ pc[j] = "publish"
  /\ runId' = runId \cup {j}
  /\ Goto(j, "mkdirs")
  /\ UNCHANGED <<status, cancel, result, files, requests, errors, overlapped>>

\* The mkdir calls before store.close().
Mkdirs(j) ==
  /\ pc[j] = "mkdirs"
  /\ dirs' = dirs \cup {j}
  /\ Goto(j, "close")
  /\ UNCHANGED <<jobs, result, tmp, db, handle, logged, rows, requests, errors, overlapped>>

\* A connection ends; the last one moves the log into the file.
Disconnect(j) ==
  /\ handle' = [handle EXCEPT ![j] = NoFile]
  /\ LET complete == [f \in File |->
                         IF /\ f = handle[j] /\ ~Connected(f, j)
                            /\ f \in {tmp, db[j]}
                         THEN logged[f] ELSE rows[f]]
     IN rows' = complete \/ (overlapped /\ rows' = rows)

\* store.close() and the mkdir calls after it.
CloseTmp(j) ==
  /\ pc[j] = "close"
  /\ Disconnect(j)
  /\ dirs' = dirs \cup {j}
  /\ Goto(j, "replace")
  /\ UNCHANGED <<jobs, result, tmp, db, logged, requests, errors, overlapped>>

\* tmp_store_path.replace(db_path): FileNotFoundError without a file or without
\* the run's directory.
Replace(j) ==
  /\ pc[j] = "replace"
  /\ IF tmp = NoFile \/ j \notin dirs
     THEN Leave(j, "error") /\ UNCHANGED <<tmp, db>>
     ELSE /\ db' = [db EXCEPT ![j] = tmp]
          /\ tmp' = NoFile
          /\ Goto(j, "reopen") /\ UNCHANGED result
  /\ UNCHANGED <<jobs, dirs, handle, logged, rows, requests, errors, overlapped>>

\* A Store on <run>/acyl.db.
OpenDb(j, by) ==
  /\ dirs' = dirs \cup {j}
  /\ db' = [db EXCEPT ![j] = IF db[j] = NoFile THEN <<j, by>> ELSE db[j]]

\* Store(db_path): with another scan on the file, its log is missing.
Reopen(j) ==
  /\ pc[j] = "reopen"
  /\ OpenDb(j, "run")
  /\ IF Connected(db'[j], j)
     THEN Leave(j, "error") /\ UNCHANGED <<handle, logged>>
     ELSE /\ handle' = [handle EXCEPT ![j] = db'[j]]
          /\ logged' = [logged EXCEPT ![db'[j]] = rows[db'[j]]]
          /\ Goto(j, "seed") /\ UNCHANGED result
  /\ UNCHANGED <<jobs, tmp, rows, requests, errors, overlapped>>

\* Mutant of Seed: PRAGMA foreign_keys is left out.
SeedAnyway(j) ==
  /\ pc[j] = "seed"
  /\ IF j \in cancel THEN Leave(j, "cancelled") ELSE Goto(j, "pool") /\ UNCHANGED result
  /\ UNCHANGED <<jobs, files, requests, errors, overlapped>>

\* check() and seed_pipeline: the indexer task REFERENCES the run's row.
Seed(j) ==
  /\ pc[j] = "seed"
  /\ IF j \in cancel THEN Leave(j, "cancelled")
     ELSE IF j \in rows[handle[j]] THEN Goto(j, "pool") /\ UNCHANGED result
     ELSE Leave(j, "error")
  /\ UNCHANGED <<jobs, files, requests, errors, overlapped>>

----------------------------------------------------------------------------
(* The pool, and the end. *)

\* write_reports makes its directory.
Report(j) ==
  /\ pc[j] = "pool"
  /\ dirs' = dirs \cup {j}
  /\ Goto(j, "report")
  /\ UNCHANGED <<jobs, result, tmp, db, handle, logged, rows, requests, errors, overlapped>>

\* run_worker_pool returns after the report, or raises ScanCancelled; the
\* poll for the one may miss the other.
PoolEnds(j) ==
  /\ \/ pc[j] = "report" /\ Leave(j, "done")
     \/ pc[j] \in {"pool", "report"} /\ j \in cancel /\ Leave(j, "cancelled")
  /\ UNCHANGED <<jobs, files, requests, errors, overlapped>>

\* Any other exception out of run_scan.  One that finds the run's directory
\* gone is the deletion's, one of SQLite may be the other scan's.
ScanFails(j) ==
  /\ pc[j] \in Scanning
  /\ \/ errors < MaxErrors /\ errors' = errors + 1
     \/ pc[j] \in {"pool", "report"} /\ j \notin dirs /\ UNCHANGED errors
     \/ pc[j] \in Starting \cup {"seed"} /\ overlapped /\ UNCHANGED errors
  /\ Leave(j, "error")
  /\ UNCHANGED <<jobs, files, requests, overlapped>>

\* The branch for a result, and the two handlers of exceptions.
FinalStatus(j) ==
  IF result[j] = "cancelled" \/ j \in cancel THEN "cancelled"
  ELSE IF result[j] = "done" THEN "completed" ELSE "failed"

\* Mutant of Settle: the event is not looked at any more.
SettleByResult(j) ==
  /\ pc[j] = "settle"
  /\ Disconnect(j)
  /\ status' = [status EXCEPT ![j] =
       CASE result[j] = "cancelled" -> "cancelled"
         [] result[j] = "done" -> "completed"
         [] result[j] = "error" -> "failed"]
  /\ Goto(j, "over")
  /\ UNCHANGED <<runId, cancel, result, tmp, db, dirs, logged, requests, errors, overlapped>>

\* The store is closed, and the last locked section of _execute_scan.
Settle(j) ==
  /\ pc[j] = "settle"
  /\ Disconnect(j)
  /\ status' = [status EXCEPT ![j] = FinalStatus(j)]
  /\ Goto(j, "over")
  /\ UNCHANGED <<runId, cancel, result, tmp, db, dirs, logged, requests, errors, overlapped>>

----------------------------------------------------------------------------
(* api_delete_run(r). *)

Step(r, from, to) == deleter[r] = from /\ deleter' = [deleter EXCEPT ![r] = to]

\* The run's directory exists.
Delete(r) ==
  /\ r \in Requested /\ r \in dirs
  /\ Step(r, "idle", "stop")
  /\ UNCHANGED <<jobs, pc, result, files, reader, errors, overlapped>>

DeleteStops(r) ==
  /\ Step(r, "stop", "remove")
  /\ IF r \in runId /\ status[r] \in Active THEN StopJob(r) ELSE UNCHANGED jobs
  /\ UNCHANGED <<pc, result, files, reader, errors, overlapped>>

\* The wait for the job ends with it or after two seconds, which is any time;
\* then shutil.rmtree, which raises when the scan makes a file meanwhile.
DeleteRemoves(r) ==
  /\ db' = [db EXCEPT ![r] = NoFile]
  /\ \/ /\ r \in dirs /\ dirs' = dirs \ {r}
        /\ Step(r, "remove", "mark") /\ UNCHANGED errors
     \/ /\ r \notin dirs /\ UNCHANGED dirs
        /\ Step(r, "remove", "idle") /\ UNCHANGED errors
     \/ /\ r \in dirs /\ pc[r] \in Scanning /\ UNCHANGED dirs
        /\ Step(r, "remove", "idle")
        /\ errors < MaxErrors /\ errors' = errors + 1
  /\ UNCHANGED <<jobs, pc, result, tmp, handle, logged, rows, reader, overlapped>>

\* Mutant of DeleteMarks: a status that the other handlers do not know.
DeleteMarksDeleted(r) ==
  /\ Step(r, "mark", "deleted")
  /\ status' = IF r \in runId /\ status[r] \notin Terminal
               THEN [status EXCEPT ![r] = "deleted"] ELSE status
  /\ UNCHANGED <<runId, cancel, pc, result, files, reader, errors, overlapped>>

\* The last locked section of api_delete_run.
DeleteMarks(r) ==
  /\ Step(r, "mark", "deleted")
  /\ status' = IF r \in runId /\ status[r] \notin Terminal
               THEN [status EXCEPT ![r] = "cancelled"] ELSE status
  /\ UNCHANGED <<runId, cancel, pc, result, files, reader, errors, overlapped>>

----------------------------------------------------------------------------
(* A request that shows the run: is_file(), then a Store. *)

Show(r) ==
  /\ r \in Requested /\ reader[r] = "idle" /\ db[r] # NoFile
  /\ reader' = [reader EXCEPT ![r] = "open"]
  /\ UNCHANGED <<jobs, pc, result, files, deleter, errors, overlapped>>

ShowOpens(r) ==
  /\ reader[r] = "open"
  /\ reader' = [reader EXCEPT ![r] = "idle"]
  /\ OpenDb(r, "read")
  /\ UNCHANGED <<jobs, pc, result, tmp, handle, logged, rows, deleter, errors, overlapped>>

----------------------------------------------------------------------------

ScanStep(j) ==
  \/ Begin(j) \/ Prepare(j) \/ Look(j) \/ Unlink(j) \/ OpenTmp(j) \/ CreateRun(j)
  \/ Publish(j) \/ Mkdirs(j) \/ CloseTmp(j) \/ Replace(j) \/ Reopen(j) \/ Seed(j)
  \/ Report(j) \/ PoolEnds(j) \/ Settle(j)

DeleteStep(r) ==
  DeleteStops(r) \/ DeleteRemoves(r) \/ DeleteMarks(r)

Next ==
  \E j \in Job :
    \/ Submit(j) \/ Stop(j)
    \/ ScanStep(j) \/ ScanFails(j)
    \/ Delete(j) \/ DeleteStep(j)
    \/ Show(j) \/ ShowOpens(j)

Spec == Init /\ [][Next]_vars

\* Background tasks go on by themselves.  No operator has to do anything.
FairSpec == Spec /\ \A j \in Job : WF_vars(ScanStep(j))

----------------------------------------------------------------------------
(* Properties. *)

TypeOK ==
  /\ status \in [Job -> {"none"} \cup Active \cup Terminal]
  /\ runId \subseteq Job /\ cancel \subseteq Job /\ dirs \subseteq Job
  /\ pc \in [Job -> {"idle", "begin", "settle", "over"} \cup Scanning]
  /\ result \in [Job -> {"none", "done", "cancelled", "error"}]
  /\ tmp \in File \cup {NoFile}
  /\ db \in [Job -> File \cup {NoFile}] /\ handle \in [Job -> File \cup {NoFile}]
  /\ logged \in [File -> SUBSET Job] /\ rows \in [File -> SUBSET Job]
  /\ deleter \in [Job -> {"idle", "stop", "remove", "mark", "deleted"}]
  /\ reader \in [Job -> {"idle", "open"}]
  /\ errors \in 0..MaxErrors /\ overlapped \in BOOLEAN

InPool(j) == pc[j] \in {"pool", "report"}

\* However the starts of two scans interleave over the one runs/_tmp.db, and
\* whatever is deleted meanwhile, a scan that gets to its worker pool works on
\* a database with its own run in it, and on one that no other scan works on.
RunsApart ==
  \A j \in Job : InPool(j) =>
    /\ j \in rows[handle[j]]
    /\ \A i \in Job \ {j} : InPool(i) => handle[i] # handle[j]

\* Scans that start one after the other do not find each other's run, nor what
\* a scan that failed on its way has left in runs/_tmp.db.
RunAlone ==
  ~overlapped => \A j \in Job : InPool(j) => rows[handle[j]] = {j}

\* A job that was stopped never counts as completed, failed or running again.
StopIsHonoured ==
  \A j \in cancel : status[j] \in {"stopping", "cancelled"}

\* A job that is over stays what it is, whatever deletion and the background
\* task still write.
TerminalStays ==
  [][\A j \in Job : status[j] \in Terminal => status'[j] = status[j]]_vars

\* A job that was stopped is cancelled in the end.
StopSettles ==
  \A j \in Job : j \in cancel ~> status[j] = "cancelled"

\* After a successful DELETE the run's directory is gone.
DeletedIsGone ==
  \A r \in Job : deleter[r] = "deleted" => r \notin dirs
=============================================================================
