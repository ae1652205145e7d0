-------------------------- MODULE DashboardProofs --------------------------
(***************************************************************************)
(* For any number of jobs and exceptions: what a stop and a deletion do to *)
(* a job (StopIsHonoured, TerminalStays), and that scans do not get into   *)
(* each other's database (RunsApart).  The first two rest on who knows of  *)
(* a run when: nothing can be deleted, shown or moved into place before    *)
(* the run's id is published, so a deletion finds the job and stops it     *)
(* before it overwrites the job's status.                                  *)
(***************************************************************************)
EXTENDS Dashboard, TLAPS

\* Where a scan is once it has published the id of its run.
AfterPublish == {"mkdirs", "close", "replace", "reopen", "seed", "pool", "report"}

\* Whatever there is of a run on disk, and whatever is requested of it, comes
\* after the publication of its id.
PublishedFirst ==
  \A j \in Job : j \notin runId =>
    /\ pc[j] \notin AfterPublish /\ j \notin dirs /\ db[j] = NoFile
    /\ reader[j] = "idle" /\ deleter[j] = "idle"

\* A job has a status as soon as it has a background task.
StartedJobs ==
  \A j \in Job :
    /\ status[j] = "none" => pc[j] = "idle" /\ j \notin runId
    /\ pc[j] = "idle" => status[j] = "none"

\* A deletion that is past its first section has stopped the job.
DeletionStops ==
  \A j \in Job : deleter[j] \in {"remove", "mark"} /\ status[j] \notin Terminal
                   => j \in cancel

\* Only a stopped job has its final status before its task is over.
EarlyEndIsStop ==
  \A j \in Job : status[j] \in Terminal /\ pc[j] # "over"
                   => j \in cancel /\ status[j] = "cancelled"

JobInv ==
  /\ TypeOK
  /\ PublishedFirst
  /\ StartedJobs
  /\ DeletionStops
  /\ EarlyEndIsStop
  /\ StopIsHonoured

USE DashboardAssumption DEF DashboardAssumption

----------------------------------------------------------------------------
(* Types. *)

\* The initial state has its types.
LEMMA InitTypeOK == Init => TypeOK
  <1> SUFFICES ASSUME Init PROVE TypeOK
    OBVIOUS
  <1>1. errors \in 0..MaxErrors
    BY DEF Init
  <1>2. /\ status \in [Job -> {"none"} \cup Active \cup Terminal]
        /\ pc \in [Job -> {"idle", "begin", "settle", "over"} \cup Scanning]
        /\ result \in [Job -> {"none", "done", "cancelled", "error"}]
    BY DEF Init
  <1>3. /\ db \in [Job -> File \cup {NoFile}] /\ handle \in [Job -> File \cup {NoFile}]
        /\ logged \in [File -> SUBSET Job] /\ rows \in [File -> SUBSET Job]
        /\ runId \subseteq Job /\ cancel \subseteq Job /\ dirs \subseteq Job
    BY DEF Init
  <1>4. overlapped \in BOOLEAN
    BY Zenon DEF Init
  <1>5. QED
    BY <1>1, <1>2, <1>3, <1>4 DEF Init, TypeOK

\* TypeOK is inductive by itself.
LEMMA NextTypeOK ==
  ASSUME TypeOK, [Next]_vars
  PROVE  TypeOK'
  <1>1. ASSUME NEW j \in Job, Submit(j) PROVE TypeOK'
    BY <1>1 DEF TypeOK, jobs, files, requests, Submit, Goto, Active
  <1>2. ASSUME NEW j \in Job, Stop(j) PROVE TypeOK'
    BY <1>2 DEF TypeOK, jobs, files, requests, Stop, StopJob, Active
  <1>3. ASSUME NEW j \in Job, Begin(j) PROVE TypeOK'
    BY <1>3 DEF TypeOK, jobs, files, requests, Begin, Goto, Active, Terminal, Scanning
  <1>4. ASSUME NEW j \in Job, Prepare(j) PROVE TypeOK'
    BY <1>4 DEF TypeOK, jobs, files, requests, Prepare, Goto, Leave, Scanning, Starting
  <1>5. ASSUME NEW j \in Job, Look(j) PROVE TypeOK'
    BY <1>5 DEF TypeOK, jobs, files, requests, Look, Goto, Scanning, Starting
  <1>6. ASSUME NEW j \in Job, Unlink(j) PROVE TypeOK'
    BY <1>6 DEF TypeOK, jobs, files, requests, Unlink, Goto, Leave, Scanning, Starting
  <1>7. ASSUME NEW j \in Job, OpenTmp(j) PROVE TypeOK'
    BY <1>7 DEF TypeOK, jobs, files, requests, OpenTmp, Goto, Scanning, Starting, File
  <1>8. ASSUME NEW j \in Job, CreateRun(j) PROVE TypeOK'
    BY <1>8 DEF TypeOK, jobs, files, requests, CreateRun, Goto, Scanning, Starting
  <1>9. ASSUME NEW j \in Job, Publish(j) PROVE TypeOK'
    BY <1>9 DEF TypeOK, jobs, files, requests, Publish, Goto, Scanning, Starting
  <1>10. ASSUME NEW j \in Job, Mkdirs(j) PROVE TypeOK'
    BY <1>10 DEF TypeOK, jobs, files, requests, Mkdirs, Goto, Scanning, Starting
  <1>11. ASSUME NEW j \in Job, CloseTmp(j) PROVE TypeOK'
    BY <1>11 DEF TypeOK, jobs, files, requests, CloseTmp, Goto, Disconnect, Scanning, Starting
  <1>12. ASSUME NEW j \in Job, Replace(j) PROVE TypeOK'
    BY <1>12 DEF TypeOK, jobs, files, requests, Replace, Goto, Leave, Scanning, Starting
  <1>13. ASSUME NEW j \in Job, Reopen(j) PROVE TypeOK'
    <2>1. db' \in [Job -> File \cup {NoFile}] /\ db'[j] \in File /\ dirs' \subseteq Job
      BY <1>13 DEF TypeOK, Reopen, OpenDb, File
    <2>2. /\ pc' \in [Job -> {"idle", "begin", "settle", "over"} \cup Scanning]
          /\ result' \in [Job -> {"none", "done", "cancelled", "error"}]
      BY <1>13 DEF TypeOK, Reopen, Leave, Goto, Scanning
    <2>3. handle' \in [Job -> File \cup {NoFile}] /\ logged' \in [File -> SUBSET Job]
      BY <1>13, <2>1 DEF TypeOK, Reopen
    <2>4. QED
      BY <1>13, <2>1, <2>2, <2>3 DEF TypeOK, Reopen, jobs, requests
  <1>14. ASSUME NEW j \in Job, Seed(j) PROVE TypeOK'
    BY <1>14 DEF TypeOK, jobs, files, requests, Seed, Goto, Leave, Scanning
  <1>15. ASSUME NEW j \in Job, Report(j) PROVE TypeOK'
    BY <1>15 DEF TypeOK, jobs, files, requests, Report, Goto, Scanning
  <1>16. ASSUME NEW j \in Job, PoolEnds(j) PROVE TypeOK'
    BY <1>16 DEF TypeOK, jobs, files, requests, PoolEnds, Leave, Goto
  <1>17. ASSUME NEW j \in Job, Settle(j) PROVE TypeOK'
    <2>1. FinalStatus(j) \in Terminal
      BY DEF FinalStatus, Terminal
    <2>2. /\ status' \in [Job -> {"none"} \cup Active \cup Terminal]
          /\ pc' \in [Job -> {"idle", "begin", "settle", "over"} \cup Scanning]
      BY <1>17, <2>1 DEF TypeOK, Settle, Goto
    <2>3. handle' \in [Job -> File \cup {NoFile}] /\ rows' \in [File -> SUBSET Job]
      BY <1>17 DEF TypeOK, Settle, Disconnect
    <2>4. QED
      BY <1>17, <2>2, <2>3 DEF TypeOK, Settle, requests
  <1>18. ASSUME NEW j \in Job, ScanFails(j) PROVE TypeOK'
    BY <1>18 DEF TypeOK, jobs, files, requests, ScanFails, Leave, Goto
  <1>19. ASSUME NEW j \in Job, Delete(j) PROVE TypeOK'
    BY <1>19 DEF TypeOK, jobs, files, requests, Delete, Step
  <1>20. ASSUME NEW j \in Job, DeleteStops(j) PROVE TypeOK'
    BY <1>20 DEF TypeOK, jobs, files, requests, DeleteStops, Step, StopJob, Active
  <1>21. ASSUME NEW j \in Job, DeleteRemoves(j) PROVE TypeOK'
    BY <1>21 DEF TypeOK, jobs, files, requests, DeleteRemoves, Step
  <1>22. ASSUME NEW j \in Job, DeleteMarks(j) PROVE TypeOK'
    BY <1>22 DEF TypeOK, jobs, files, requests, DeleteMarks, Step, Terminal
  <1>23. ASSUME NEW j \in Job, Show(j) PROVE TypeOK'
    BY <1>23 DEF TypeOK, jobs, files, requests, Show
  <1>24. ASSUME NEW j \in Job, ShowOpens(j) PROVE TypeOK'
    BY <1>24 DEF TypeOK, jobs, files, requests, ShowOpens, OpenDb, File
  <1>25. CASE UNCHANGED vars
    BY <1>25 DEF TypeOK, jobs, files, requests, vars
  <1>26. QED
    BY <1>1, <1>2, <1>3, <1>4, <1>5, <1>6, <1>7, <1>8, <1>9, <1>10, <1>11, <1>12,
       <1>13, <1>14, <1>15, <1>16, <1>17, <1>18, <1>19, <1>20, <1>21, <1>22, <1>23, <1>24, <1>25
       DEF Next, ScanStep, DeleteStep

\* Every job, file and request is in one of its states.
THEOREM DashboardTypes == Spec => []TypeOK
  BY InitTypeOK, NextTypeOK, PTL DEF Spec

----------------------------------------------------------------------------
(* JobInv. *)

\* JobInv holds at first.
LEMMA InitJobInv == Init => JobInv
  BY InitTypeOK DEF Init, JobInv, PublishedFirst, StartedJobs, DeletionStops,
                    EarlyEndIsStop, StopIsHonoured, AfterPublish, Terminal

\* A step of a scan: its label changes, an id may be published, and only
\* after that there is something on disk.
ScanStepOf(j) ==
  /\ pc[j] \notin {"idle", "over"}
  /\ Goto(j, pc'[j]) /\ pc'[j] \in Scanning \cup {"settle"}
  /\ pc'[j] \in AfterPublish => j \in runId'
  /\ UNCHANGED <<status, cancel, requests>>
  /\ runId' \in {runId, runId \cup {j}}
  /\ dirs' \subseteq dirs \cup runId
  /\ \A i \in Job : db'[i] # NoFile => db[i] # NoFile \/ i \in runId

\* Such a step keeps JobInv.
LEMMA ScanStepKeepsInv ==
  ASSUME JobInv, TypeOK', NEW j \in Job, ScanStepOf(j)
  PROVE  JobInv'
  <1> USE DEF JobInv, ScanStepOf, Goto, Scanning, Starting, requests
  <1>1. PublishedFirst'
    BY DEF TypeOK, PublishedFirst, AfterPublish
  <1>2. StartedJobs'
    BY DEF TypeOK, StartedJobs
  <1>3. DeletionStops' /\ EarlyEndIsStop' /\ StopIsHonoured'
    BY DEF TypeOK, DeletionStops, EarlyEndIsStop, StopIsHonoured
  <1>4. QED
    BY <1>1, <1>2, <1>3

\* The steps of run_scan are such steps.
LEMMA ScanStepsAreScanSteps ==
  ASSUME JobInv, NEW j \in Job,
         \/ Prepare(j) \/ Look(j) \/ Unlink(j) \/ OpenTmp(j) \/ CreateRun(j)
         \/ Publish(j) \/ Mkdirs(j) \/ CloseTmp(j) \/ Replace(j) \/ Reopen(j)
         \/ Seed(j) \/ Report(j) \/ PoolEnds(j) \/ ScanFails(j)
  PROVE  ScanStepOf(j)
  <1> USE DEF JobInv, TypeOK, PublishedFirst, AfterPublish, ScanStepOf, Goto, Leave,
              Scanning, Starting, jobs, files, requests
  <1>1. CASE Prepare(j)
    BY <1>1 DEF Prepare
  <1>2. CASE Look(j)
    BY <1>2 DEF Look
  <1>3. CASE Unlink(j)
    BY <1>3 DEF Unlink
  <1>4. CASE OpenTmp(j)
    BY <1>4 DEF OpenTmp
  <1>5. CASE CreateRun(j)
    BY <1>5 DEF CreateRun
  <1>6. CASE Publish(j)
    BY <1>6 DEF Publish
  <1>7. CASE Mkdirs(j)
    BY <1>7 DEF Mkdirs
  <1>8. CASE CloseTmp(j)
    BY <1>8 DEF CloseTmp
  <1>9. CASE Replace(j)
    BY <1>9 DEF Replace
  <1>10. CASE Reopen(j)
    BY <1>10 DEF Reopen, OpenDb
  <1>11. CASE Seed(j)
    BY <1>11 DEF Seed
  <1>12. CASE Report(j)
    BY <1>12 DEF Report
  <1>13. CASE PoolEnds(j)
    BY <1>13 DEF PoolEnds
  <1>14. CASE ScanFails(j)
    BY <1>14 DEF ScanFails
  <1>15. QED
    BY <1>1, <1>2, <1>3, <1>4, <1>5, <1>6, <1>7, <1>8, <1>9, <1>10, <1>11, <1>12, <1>13, <1>14

\* JobInv is inductive: the steps that write a status are taken one by one.
LEMMA NextJobInv ==
  ASSUME JobInv, [Next]_vars
  PROVE  JobInv'
  <1> TypeOK /\ TypeOK'
    BY NextTypeOK DEF JobInv
  <1> USE DEF JobInv, PublishedFirst, StartedJobs, DeletionStops, EarlyEndIsStop,
              StopIsHonoured, AfterPublish, Active, Terminal, jobs, files, requests
  <1>1. ASSUME NEW j \in Job, Submit(j) PROVE JobInv'
    BY <1>1 DEF TypeOK, Submit, Goto
  <1>2. ASSUME NEW j \in Job, Stop(j) PROVE JobInv'
    BY <1>2 DEF TypeOK, Stop, StopJob
  <1>3. ASSUME NEW j \in Job, Begin(j) PROVE JobInv'
    BY <1>3 DEF TypeOK, Begin, Goto
  <1>4. ASSUME NEW j \in Job, Settle(j) PROVE JobInv'
    BY <1>4 DEF TypeOK, Settle, Goto, FinalStatus
  <1>5. ASSUME NEW j \in Job, Delete(j) PROVE JobInv'
    BY <1>5 DEF TypeOK, Delete, Step
  <1>6. ASSUME NEW j \in Job, DeleteStops(j) PROVE JobInv'
    BY <1>6 DEF TypeOK, DeleteStops, Step, StopJob
  <1>7. ASSUME NEW j \in Job, DeleteRemoves(j) PROVE JobInv'
    BY <1>7 DEF TypeOK, DeleteRemoves, Step
  <1>8. ASSUME NEW j \in Job, DeleteMarks(j) PROVE JobInv'
    BY <1>8 DEF TypeOK, DeleteMarks, Step
  <1>9. ASSUME NEW j \in Job, Show(j) PROVE JobInv'
    BY <1>9 DEF TypeOK, Show
  <1>10. ASSUME NEW j \in Job, ShowOpens(j) PROVE JobInv'
    BY <1>10 DEF TypeOK, ShowOpens, OpenDb
  <1>11. ASSUME NEW j \in Job,
                \/ Prepare(j) \/ Look(j) \/ Unlink(j) \/ OpenTmp(j) \/ CreateRun(j)
                \/ Publish(j) \/ Mkdirs(j) \/ CloseTmp(j) \/ Replace(j) \/ Reopen(j)
                \/ Seed(j) \/ Report(j) \/ PoolEnds(j) \/ ScanFails(j)
         PROVE  JobInv'
    BY <1>11, ScanStepsAreScanSteps, ScanStepKeepsInv
  <1>12. CASE UNCHANGED vars
    BY <1>12 DEF vars
  <1>13. QED
    BY <1>1, <1>2, <1>3, <1>4, <1>5, <1>6, <1>7, <1>8, <1>9, <1>10, <1>11, <1>12
       DEF Next, ScanStep, DeleteStep

\* The inductive invariant of the jobs.
THEOREM JobInvariant == Spec => []JobInv
  BY InitJobInv, NextJobInv, PTL DEF Spec

\* No job that was stopped is ever completed, failed or running, for any
\* number of jobs: _execute_scan looks at the event in each locked section
\* that sets a status.
THEOREM StopsAreHonoured == Spec => []StopIsHonoured
  BY JobInvariant, PTL DEF JobInv

\* A final status is never changed, neither by the job's task after the run
\* was deleted under it nor by a deletion after the job has ended.
THEOREM FinalStatusStays == Spec => TerminalStays
  <1> DEFINE Stays == \A j \in Job : status[j] \in Terminal => status'[j] = status[j]
  <1>1. ASSUME JobInv, [Next]_vars
        PROVE  Stays
    <2> USE DEF JobInv, TypeOK, Active, Terminal
    <2>1. CASE UNCHANGED vars
      BY <2>1 DEF vars, jobs
    <2>2. ASSUME NEW i \in Job, Submit(i) \/ Stop(i) \/ DeleteStops(i) \/ DeleteMarks(i)
          PROVE  Stays
      BY <1>1, <2>2 DEF Submit, Stop, DeleteStops, DeleteMarks, StopJob, jobs
    <2>3. ASSUME NEW i \in Job, Begin(i) \/ Settle(i)
          PROVE  Stays
      BY <1>1, <2>3 DEF Begin, Settle, FinalStatus, EarlyEndIsStop
    <2>4. ASSUME NEW i \in Job,
                 \/ Prepare(i) \/ Look(i) \/ Unlink(i) \/ OpenTmp(i) \/ CreateRun(i)
                 \/ Publish(i) \/ Mkdirs(i) \/ CloseTmp(i) \/ Replace(i) \/ Reopen(i)
                 \/ Seed(i) \/ Report(i) \/ PoolEnds(i) \/ ScanFails(i)
                 \/ Delete(i) \/ DeleteRemoves(i) \/ Show(i) \/ ShowOpens(i)
          PROVE  Stays
      BY <2>4 DEF Prepare, Look, Unlink, OpenTmp, CreateRun, Publish, Mkdirs, CloseTmp,
                  Replace, Reopen, Seed, Report, PoolEnds, ScanFails, Delete,
                  DeleteRemoves, Show, ShowOpens, jobs
    <2> HIDE DEF Stays
    <2>5. QED
      BY <1>1, <2>1, <2>2, <2>3, <2>4 DEF Next, ScanStep, DeleteStep
  <1>2. QED
    BY <1>1, JobInvariant, PTL DEF Spec, TerminalStays

----------------------------------------------------------------------------
(* RunsApart. *)

\* What is in a file is also in its log, so no row is lost once it is there.
LogHasRows == \A f \in File : rows[f] \subseteq logged[f]

\* A scan that has opened its run's database.
Opened(j) == pc[j] \in {"seed", "pool", "report"}

OpenedApart ==
  \A j \in Job : Opened(j) =>
    /\ handle[j] \in File
    /\ \A i \in Job \ {j} : Opened(i) => handle[i] # handle[j]

OwnRow == \A j \in Job : InPool(j) => j \in rows[handle[j]]

FilesInv == TypeOK /\ LogHasRows /\ OpenedApart /\ OwnRow

\* A step of j that leaves every connection and every row alone.
QuietStep(j) ==
  /\ UNCHANGED <<handle, rows, logged>>
  /\ \/ UNCHANGED pc
     \/ /\ pc' = [pc EXCEPT ![j] = pc'[j]]
        /\ Opened(j)' => Opened(j)
        /\ InPool(j)' => InPool(j) \/ j \in rows[handle[j]]

\* Such a step keeps FilesInv.
LEMMA QuietStepKeepsFilesInv ==
  ASSUME FilesInv, TypeOK', NEW j \in Job, QuietStep(j)
  PROVE  FilesInv'
  BY DEF QuietStep, FilesInv, TypeOK, LogHasRows, OpenedApart, OwnRow, Opened, InPool

\* All steps but those that connect, commit or disconnect are quiet.
LEMMA QuietSteps ==
  ASSUME TypeOK, NEW j \in Job,
         \/ Submit(j) \/ Stop(j) \/ Begin(j) \/ Prepare(j) \/ Look(j) \/ Unlink(j)
         \/ Publish(j) \/ Mkdirs(j) \/ Replace(j) \/ Seed(j) \/ Report(j)
         \/ PoolEnds(j) \/ ScanFails(j) \/ Delete(j) \/ DeleteStep(j)
         \/ Show(j) \/ ShowOpens(j)
  PROVE  QuietStep(j)
  <1> pc = [i \in Job |-> pc[i]]
    BY DEF TypeOK
  <1> USE DEF QuietStep, Goto, Leave, jobs, files, requests, Opened, InPool
  <1>1. CASE Submit(j)
    BY <1>1 DEF Submit
  <1>2. CASE Stop(j)
    BY <1>2 DEF Stop
  <1>3. CASE Begin(j)
    BY <1>3 DEF Begin
  <1>4. CASE Prepare(j)
    BY <1>4 DEF Prepare
  <1>5. CASE Look(j)
    BY <1>5 DEF Look
  <1>6. CASE Unlink(j)
    BY <1>6 DEF Unlink
  <1>7. CASE Publish(j)
    BY <1>7 DEF Publish
  <1>8. CASE Mkdirs(j)
    BY <1>8 DEF Mkdirs
  <1>9. CASE Replace(j)
    BY <1>9 DEF Replace
  <1>10. CASE Seed(j)
    BY <1>10 DEF Seed
  <1>11. CASE Report(j)
    BY <1>11 DEF Report
  <1>12. CASE PoolEnds(j)
    BY <1>12 DEF PoolEnds
  <1>13. CASE ScanFails(j)
    BY <1>13 DEF ScanFails, Scanning, Starting
  <1>14. CASE Delete(j)
    BY <1>14 DEF Delete
  <1>15. CASE DeleteStep(j)
    BY <1>15 DEF DeleteStep, DeleteStops, DeleteRemoves, DeleteMarks
  <1>16. CASE Show(j)
    BY <1>16 DEF Show
  <1>17. CASE ShowOpens(j)
    BY <1>17 DEF ShowOpens
  <1>18. QED
    BY <1>1, <1>2, <1>3, <1>4, <1>5, <1>6, <1>7, <1>8, <1>9, <1>10, <1>11, <1>12,
       <1>13, <1>14, <1>15, <1>16, <1>17

\* FilesInv is inductive: Reopen connects to a file that no other scan is
\* connected to, and Seed finds the scan's own row in it.
LEMMA NextFilesInv ==
  ASSUME FilesInv, [Next]_vars
  PROVE  FilesInv'
  <1> TypeOK /\ TypeOK'
    BY NextTypeOK DEF FilesInv
  <1>1. ASSUME NEW j \in Job,
               \/ Submit(j) \/ Stop(j) \/ Begin(j) \/ Prepare(j) \/ Look(j) \/ Unlink(j)
               \/ Publish(j) \/ Mkdirs(j) \/ Replace(j) \/ Seed(j) \/ Report(j)
               \/ PoolEnds(j) \/ ScanFails(j) \/ Delete(j) \/ DeleteStep(j)
               \/ Show(j) \/ ShowOpens(j)
        PROVE  FilesInv'
    BY <1>1, QuietSteps, QuietStepKeepsFilesInv
  <1> USE DEF FilesInv, LogHasRows, OpenedApart, OwnRow, Opened, InPool, jobs, files, requests
  <1>2. ASSUME NEW j \in Job, OpenTmp(j) PROVE FilesInv'
    BY <1>2 DEF TypeOK, OpenTmp, Goto
  <1>3. ASSUME NEW j \in Job, CreateRun(j) PROVE FilesInv'
    BY <1>3 DEF TypeOK, CreateRun, Goto
  <1>4. ASSUME NEW j \in Job, CloseTmp(j) \/ Settle(j) PROVE FilesInv'
    BY <1>4 DEF TypeOK, CloseTmp, Settle, Disconnect, Goto
  <1>5. ASSUME NEW j \in Job, Reopen(j) PROVE FilesInv'
    <2>1. CASE Connected(db'[j], j)
      BY <1>5, <2>1 DEF TypeOK, Reopen, Leave, Goto
    <2>2. CASE ~Connected(db'[j], j)
      <3>1. /\ db'[j] \in File
            /\ handle' = [handle EXCEPT ![j] = db'[j]]
            /\ pc' = [pc EXCEPT ![j] = "seed"] /\ rows' = rows
        BY <1>5, <2>2 DEF TypeOK, Reopen, OpenDb, Goto, File
      <3>2. LogHasRows'
        BY <1>5, <2>2, <3>1 DEF TypeOK, Reopen
      <3>3. OpenedApart' /\ OwnRow'
        BY <2>2, <3>1 DEF TypeOK, Connected
      <3>4. QED
        BY <3>2, <3>3
    <2>3. QED
      BY <2>1, <2>2
  <1>6. CASE UNCHANGED vars
    BY <1>6 DEF vars
  <1>7. QED
    BY <1>1, <1>2, <1>3, <1>4, <1>5, <1>6 DEF Next, ScanStep

\* A scan that has got to its worker pool works on a database with its own run
\* in it that no other scan works on, however many scans start at once.
THEOREM ScansApart == Spec => []RunsApart
  <1>1. Init => FilesInv
    BY InitTypeOK DEF Init, FilesInv, LogHasRows, OpenedApart, OwnRow, Opened, InPool
  <1>2. FilesInv => RunsApart
    BY DEF FilesInv, OpenedApart, OwnRow, RunsApart, Opened, InPool
  <1>3. QED
    BY <1>1, <1>2, NextFilesInv, PTL DEF Spec

----------------------------------------------------------------------------
(* RunAlone. *)

\* The files a scan or the requests for its run create.
Of(j) == {<<j, "tmp">>, <<j, "run">>, <<j, "read">>}

\* One scan at a time has a part in runs/_tmp.db, and when it is past its look
\* at it the file there is none or its own.
OneStarting ==
  \A i, j \in Job : pc[i] \in Starting /\ pc[j] \in Starting => i = j

TmpIsOwn ==
  \A j \in Job :
    /\ pc[j] = "open" => tmp = NoFile
    /\ pc[j] \in {"create", "publish", "mkdirs", "close", "replace"} => tmp = <<j, "tmp">>

FilesAreOwn ==
  \A j \in Job : handle[j] \in Of(j) \cup {NoFile} /\ db[j] \in Of(j) \cup {NoFile}

LogsAreOwn == \A j \in Job : \A f \in Of(j) : logged[f] \subseteq {j}

AloneInv == ~overlapped => OneStarting /\ TmpIsOwn /\ FilesAreOwn /\ LogsAreOwn

LEMMA OwnFiles ==
  /\ \A j \in Job : Of(j) \subseteq File /\ NoFile \notin Of(j)
  /\ \A i, j \in Job : \A f \in Of(i) : f \in Of(j) => i = j
  BY DashboardAssumption DEF Of, File

\* A step of one scan that has no new part in runs/_tmp.db.
LEMMA StepsAlone ==
  ASSUME TypeOK, AloneInv, ~overlapped, NEW j \in Job,
         \A i \in Job : i # j => pc'[i] = pc[i],
         tmp' = tmp, UNCHANGED <<handle, logged>>,
         \A i \in Job : db'[i] \in Of(i) \cup {NoFile},
         pc'[j] \in Starting => pc[j] \in Starting,
         pc'[j] = "open" => tmp = NoFile,
         pc'[j] \in {"create", "publish", "mkdirs", "close", "replace"}
           => pc[j] \in {"create", "publish", "mkdirs", "close", "replace"}
  PROVE  AloneInv'
  <1>1. OneStarting'
    BY DEF AloneInv, OneStarting
  <1>2. TmpIsOwn'
    BY DEF AloneInv, TmpIsOwn
  <1>3. FilesAreOwn' /\ LogsAreOwn'
    BY DEF AloneInv, FilesAreOwn, LogsAreOwn
  <1>4. QED
    BY <1>1, <1>2, <1>3 DEF AloneInv

\* The steps that do nothing to the files in which RunAlone could go wrong.
LEMMA MostStepsAlone ==
  ASSUME TypeOK, AloneInv, ~overlapped, NEW j \in Job,
         \/ Submit(j) \/ Stop(j) \/ Begin(j) \/ Look(j) \/ Publish(j) \/ Mkdirs(j)
         \/ Seed(j) \/ Report(j) \/ PoolEnds(j) \/ ScanFails(j)
         \/ Delete(j) \/ DeleteStep(j) \/ Show(j) \/ ShowOpens(j)
  PROVE  AloneInv'
  <1>1. \A i \in Job : i # j => pc'[i] = pc[i]
    BY DEF TypeOK, Submit, Stop, Begin, Look, Publish, Mkdirs, Seed, Report, PoolEnds,
           ScanFails, Delete, DeleteStep, DeleteStops, DeleteRemoves, DeleteMarks, Show,
           ShowOpens, Goto, Leave
  <1>2. tmp' = tmp /\ UNCHANGED <<handle, logged>>
    BY DEF Submit, Stop, Begin, Look, Publish, Mkdirs, Seed, Report, PoolEnds,
           ScanFails, Delete, DeleteStep, DeleteStops, DeleteRemoves, DeleteMarks, Show,
           ShowOpens, files
  <1>3. \A i \in Job : db'[i] \in Of(i) \cup {NoFile}
    <2>1. CASE DeleteRemoves(j) \/ ShowOpens(j)
      BY <2>1 DEF TypeOK, AloneInv, FilesAreOwn, Of, DeleteRemoves, ShowOpens, OpenDb
    <2>2. CASE ~(DeleteRemoves(j) \/ ShowOpens(j))
      <3>1. db' = db
        BY <2>2 DEF Submit, Stop, Begin, Look, Publish, Mkdirs, Seed, Report, PoolEnds,
                    ScanFails, Delete, DeleteStep, DeleteStops, DeleteMarks, Show, files
      <3>2. QED
        BY <3>1 DEF AloneInv, FilesAreOwn
    <2>3. QED
      BY <2>1, <2>2
  <1>4. /\ pc'[j] \in Starting => pc[j] \in Starting
        /\ pc'[j] = "open" => tmp = NoFile
        /\ pc'[j] \in {"create", "publish", "mkdirs", "close", "replace"}
             => pc[j] \in {"create", "publish", "mkdirs", "close", "replace"}
    <2>1. CASE Submit(j) \/ Begin(j) \/ Seed(j) \/ Report(j) \/ PoolEnds(j) \/ ScanFails(j)
      <3>1. pc'[j] \in {"begin", "over", "prepare", "pool", "report", "settle"}
        BY <2>1 DEF TypeOK, Submit, Begin, Seed, Report, PoolEnds, ScanFails, Goto, Leave
      <3>2. QED
        BY <3>1 DEF Starting
    <2>2. CASE Look(j) \/ Publish(j) \/ Mkdirs(j)
      BY <2>2 DEF TypeOK, Look, Publish, Mkdirs, Goto, Starting
    <2>3. CASE Stop(j) \/ Delete(j) \/ DeleteStep(j) \/ Show(j) \/ ShowOpens(j)
      <3>1. pc' = pc
        BY <2>3 DEF Stop, Delete, DeleteStep, DeleteStops, DeleteRemoves, DeleteMarks,
                    Show, ShowOpens
      <3>2. QED
        BY <3>1 DEF AloneInv, TmpIsOwn
    <2>4. QED
      BY <2>1, <2>2, <2>3
  <1>5. QED
    BY <1>1, <1>2, <1>3, <1>4, StepsAlone

\* AloneInv is inductive, given the types and that what is in a file is in its log.
LEMMA NextAloneInv ==
  ASSUME FilesInv, AloneInv, [Next]_vars
  PROVE  AloneInv'
  <1> SUFFICES ASSUME ~overlapped' PROVE AloneInv'
    BY DEF AloneInv
  <1>1. TypeOK /\ LogHasRows
    BY DEF FilesInv
  <1>2. CASE UNCHANGED vars
    BY <1>2 DEF vars, files, AloneInv, OneStarting, TmpIsOwn, FilesAreOwn, LogsAreOwn
  <1>3. ~overlapped
    BY <1>1 DEF TypeOK, Next, Submit, Stop, ScanStep, Begin, Prepare, Look, Unlink, OpenTmp,
                CreateRun, Publish, Mkdirs, CloseTmp, Replace, Reopen, Seed, Report, PoolEnds,
                Settle, ScanFails, Delete, DeleteStep, DeleteStops, DeleteRemoves,
                DeleteMarks, Show, ShowOpens, vars
  <1> DEFINE Past == {"create", "publish", "mkdirs", "close", "replace"}
  <1>4. /\ OneStarting /\ TmpIsOwn /\ FilesAreOwn /\ LogsAreOwn
        /\ Past \subseteq Starting /\ {"look", "unlink", "open"} \subseteq Starting
    BY <1>3 DEF AloneInv, Starting
  <1>5. ASSUME NEW j \in Job,
               \/ Submit(j) \/ Stop(j) \/ Begin(j) \/ Look(j) \/ Publish(j) \/ Mkdirs(j)
               \/ Seed(j) \/ Report(j) \/ PoolEnds(j) \/ ScanFails(j)
               \/ Delete(j) \/ DeleteStep(j) \/ Show(j) \/ ShowOpens(j)
        PROVE  AloneInv'
    BY <1>1, <1>3, <1>5, MostStepsAlone
  <1>6. ASSUME NEW j \in Job, Prepare(j)
        PROVE  AloneInv'
    <2>1. UNCHANGED <<tmp, db, handle, logged>>
      BY <1>6 DEF Prepare, files
    <2>2. /\ \A i \in Job : i # j => pc'[i] = pc[i]
          /\ pc'[j] \in {"settle", "look"}
          /\ pc'[j] = "look" => \A i \in Job : pc[i] \notin Starting
      BY <1>1, <1>6 DEF TypeOK, Prepare, Leave, Goto, HasTmp
    <2>3. OneStarting'
      BY <1>4, <2>2 DEF OneStarting, Starting
    <2>4. TmpIsOwn' /\ FilesAreOwn' /\ LogsAreOwn'
      BY <1>4, <2>1, <2>2 DEF TmpIsOwn, FilesAreOwn, LogsAreOwn
    <2>5. QED
      BY <2>3, <2>4 DEF AloneInv
  <1>7. ASSUME NEW j \in Job, Unlink(j) \/ OpenTmp(j) \/ CreateRun(j) \/ CloseTmp(j) \/ Replace(j)
        PROVE  AloneInv'
    <2>1. pc[j] \in Starting /\ \A i \in Job : i # j => pc[i] \notin Starting /\ pc'[i] = pc[i]
      BY <1>1, <1>4, <1>7
      DEF TypeOK, Unlink, OpenTmp, CreateRun, CloseTmp, Replace, Leave, Goto, OneStarting
    <2>2. OneStarting'
      BY <2>1 DEF OneStarting
    <2>3. TmpIsOwn'
      <3> SUFFICES /\ pc'[j] = "open" => tmp' = NoFile
                   /\ pc'[j] \in Past => tmp' = <<j, "tmp">>
        BY <1>4, <2>1 DEF TmpIsOwn
      <3>1. CASE Unlink(j)
        BY <1>1, <3>1 DEF TypeOK, Unlink, Leave, Goto
      <3>2. CASE OpenTmp(j)
        BY <1>1, <1>4, <3>2 DEF TypeOK, OpenTmp, Goto, TmpIsOwn
      <3>3. CASE CreateRun(j) \/ CloseTmp(j)
        BY <1>1, <1>4, <3>3 DEF TypeOK, CreateRun, CloseTmp, Goto, TmpIsOwn
      <3>4. CASE Replace(j)
        BY <1>1, <3>4 DEF TypeOK, Replace, Leave, Goto
      <3>5. QED
        BY <1>7, <3>1, <3>2, <3>3, <3>4
    <2>4. FilesAreOwn'
      <3>1. CASE Unlink(j) \/ CreateRun(j)
        BY <1>4, <3>1 DEF Unlink, CreateRun, FilesAreOwn
      <3>2. CASE OpenTmp(j)
        BY <1>1, <1>4, <3>2 DEF TypeOK, OpenTmp, TmpIsOwn, FilesAreOwn, Of
      <3>3. CASE CloseTmp(j)
        BY <1>1, <1>4, <3>3 DEF TypeOK, CloseTmp, Disconnect, FilesAreOwn
      <3>4. CASE Replace(j)
        BY <1>1, <1>4, <3>4 DEF TypeOK, Replace, TmpIsOwn, FilesAreOwn, Of
      <3>5. QED
        BY <1>7, <3>1, <3>2, <3>3, <3>4
    <2>5. LogsAreOwn'
      <3>1. CASE CreateRun(j)
        <4>1. /\ logged' = [logged EXCEPT ![handle[j]] = logged[handle[j]] \cup {j}]
              /\ handle[j] \in Of(j) \cup {NoFile} /\ logged \in [File -> SUBSET Job]
          BY <1>1, <1>4, <3>1 DEF TypeOK, CreateRun, FilesAreOwn
        <4>2. \A i \in Job : \A f \in Of(i) :
                logged'[f] = IF f = handle[j] THEN logged[f] \cup {j} ELSE logged[f]
          BY <4>1, OwnFiles
        <4>3. \A i \in Job : \A f \in Of(i) : f = handle[j] => i = j
          BY <4>1, OwnFiles
        <4>4. QED
          BY <1>4, <4>2, <4>3 DEF LogsAreOwn
      <3>2. CASE ~CreateRun(j)
        BY <1>4, <1>7, <3>2 DEF Unlink, OpenTmp, CloseTmp, Replace, LogsAreOwn
      <3>3. QED
        BY <3>1, <3>2
    <2>6. QED
      BY <2>2, <2>3, <2>4, <2>5 DEF AloneInv
  <1>8. ASSUME NEW j \in Job, Reopen(j)
        PROVE  AloneInv'
    <2>1. /\ tmp' = tmp /\ rows' = rows /\ pc'[j] \in {"settle", "seed"}
          /\ \A i \in Job : i # j => pc'[i] = pc[i]
      BY <1>1, <1>8 DEF TypeOK, Reopen, Leave, Goto
    <2>2. OneStarting' /\ TmpIsOwn'
      BY <1>4, <2>1 DEF OneStarting, TmpIsOwn, Starting
    <2>3. /\ db'[j] \in Of(j)
          /\ \A i \in Job : i # j => db'[i] = db[i]
      BY <1>1, <1>4, <1>8 DEF TypeOK, Reopen, OpenDb, FilesAreOwn, Of
    <2>4. FilesAreOwn'
      BY <1>1, <1>4, <1>8, <2>3 DEF TypeOK, Reopen, FilesAreOwn
    <2>5. LogsAreOwn'
      <3>1. \A f \in File : logged'[f] = logged[f] \/ logged'[f] = rows[f]
        BY <1>1, <1>8 DEF TypeOK, Reopen
      <3>2. \A f \in File : logged'[f] \subseteq logged[f]
        BY <1>1, <3>1 DEF LogHasRows
      <3>3. QED
        BY <1>4, <3>2, OwnFiles DEF LogsAreOwn
    <2>6. QED
      BY <2>2, <2>4, <2>5 DEF AloneInv
  <1>9. ASSUME NEW j \in Job, Settle(j)
        PROVE  AloneInv'
    <2>1. /\ UNCHANGED <<tmp, db, logged>> /\ pc'[j] = "over"
          /\ \A i \in Job : i # j => pc'[i] = pc[i] /\ handle'[i] = handle[i]
          /\ handle'[j] = NoFile
      BY <1>1, <1>9 DEF TypeOK, Settle, Disconnect, Goto
    <2>2. OneStarting' /\ TmpIsOwn'
      BY <1>4, <2>1 DEF OneStarting, TmpIsOwn, Starting
    <2>3. FilesAreOwn' /\ LogsAreOwn'
      BY <1>4, <2>1 DEF FilesAreOwn, LogsAreOwn
    <2>4. QED
      BY <2>2, <2>3 DEF AloneInv
  <1>10. QED
    BY <1>2, <1>5, <1>6, <1>7, <1>8, <1>9 DEF Next, ScanStep

\* Scans that start one after the other do not find each other's run in their
\* databases, nor what a scan that failed on its way has left in runs/_tmp.db.
THEOREM ScansAlone == Spec => []RunAlone
  <1>1. Init => FilesInv /\ AloneInv
    <2> SUFFICES ASSUME Init PROVE FilesInv /\ AloneInv
      OBVIOUS
    <2>1. FilesInv
      BY InitTypeOK DEF Init, FilesInv, LogHasRows, OpenedApart, OwnRow, Opened, InPool
    <2>2. FilesAreOwn /\ LogsAreOwn
      BY OwnFiles DEF Init, FilesAreOwn, LogsAreOwn
    <2>3. OneStarting /\ TmpIsOwn
      BY DEF Init, OneStarting, TmpIsOwn, Starting
    <2>4. QED
      BY <2>1, <2>2, <2>3 DEF AloneInv
  <1>2. FilesInv /\ AloneInv => RunAlone
    <2> SUFFICES ASSUME FilesInv, AloneInv, ~overlapped, NEW j \in Job, InPool(j)
                 PROVE  rows[handle[j]] = {j}
      BY DEF RunAlone
    <2>1. handle[j] \in File /\ j \in rows[handle[j]] /\ rows[handle[j]] \subseteq logged[handle[j]]
      BY DEF FilesInv, LogHasRows, OpenedApart, OwnRow, Opened, InPool
    <2>2. handle[j] \in Of(j)
      BY <2>1, DashboardAssumption DEF AloneInv, FilesAreOwn, File
    <2>3. logged[handle[j]] \subseteq {j}
      BY <2>2 DEF AloneInv, LogsAreOwn
    <2>4. QED
      BY <2>1, <2>3
  <1>3. QED
    BY <1>1, <1>2, NextFilesInv, NextAloneInv, PTL DEF Spec
=============================================================================
