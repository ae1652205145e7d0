------------------------------ MODULE Findings ------------------------------
(***************************************************************************)
(* How the findings of one run come about and what becomes of them: the    *)
(* detectors (detectors/*.py and llm_codeguard_sweep) that write hits into *)
(* the FindingStore, sca_goals.synthesize_sca_antares_goals,               *)
(* triager/triage.py, the list that reporter/report.py reports, and the    *)
(* requests of operators to autofix/fix.py.                                *)
(*                                                                         *)
(* Every transaction is a step of its own.  Of the task queue is kept what *)
(* Pipeline shows of it: a job may be run again after an exception, a      *)
(* worker whose claim went stale goes on beside the next one, a worker     *)
(* completes and releases the job by its id, and the triager and reporter  *)
(* have one thread each.  That a job is blocked after three releases, and  *)
(* that the triager may be enqueued before the detectors are, is left to   *)
(* Pipeline: here all jobs are enqueued when the detectors start.          *)
(***************************************************************************)
EXTENDS FindingStore

CONSTANTS
  Job,          \* the detector tasks
  Enqueued,     \* the sets of them that a scan may have
  KindOf,       \* which detector: see DetectorKind
  Reporting,    \* jobs whose tool writes a report, into the target, at a name
                \* that does not change: gitleaks, osv-scanner when installed
  HitsOf,       \* what the job finds, in order; for a model: what it may name
  GoalOf,       \* the job's row of `coverage`
  DownOf,       \* the hit that says that the job's model does not answer
  InDocs,       \* findings with a documentation context (scope.py)
  Unbumped,     \* findings whose fix is reported as a change and leaves the
                \* version as it is: in a package.json, all but lodash
  Unseen,       \* findings whose fix git diff may not show: their file is
                \* ignored or untracked, the target is no git work tree, or
                \* git fails there
  Worker,       \* the detector threads
  Request,      \* bound: requests to fix a finding, of dashboard and command line
  ScaCap,       \* SCA_ANTARES_CAP
  MaxTroubles   \* bound: exceptions in handlers, claims that go stale while
                \* they are held, and reports that fail or are tampered with;
                \* once it is reached no request to fix raises either

\* rules: secrets and CodeGuard; llm: the CodeGuard LLM sweep.
DetectorKind == {"rules", "sca", "antares", "llm"}

Hit == [finding : Fingerprint, severity : Severity, rule : Rule,
        state : {"candidate", "recorded"}, kinds : Seq(EvidenceKind),
        cited : BOOLEAN]

ASSUME FindingsAssumption ==
  /\ Job # {} /\ Fingerprint # {}
  /\ Enqueued \subseteq SUBSET Job
  /\ KindOf \in [Job -> DetectorKind]
  /\ Reporting \subseteq {j \in Job : KindOf[j] \in {"rules", "sca"}}
  /\ HitsOf \in [Job -> Seq(Hit)]
  /\ \A j \in Job : \A i \in DOMAIN HitsOf[j] :
       HitsOf[j][i].state = "candidate" /\ HitsOf[j][i].kinds # << >>
  /\ GoalOf \in [Job -> Goal]
  /\ DownOf \in [Job -> Hit]
  /\ InDocs \subseteq Fingerprint
  /\ Unbumped \subseteq Fingerprint /\ Unseen \subseteq Fingerprint
  /\ {ScaCap, MaxTroubles} \subseteq Nat

\* There is one SCA job, and the class of its findings, which is part of their
\* fingerprints, is written by no other detector.
ASSUME ClassesAssumption ==
  /\ \A j, k \in Job : KindOf[j] = "sca" /\ KindOf[k] = "sca" => j = k
  /\ \A j \in Job : \A i \in DOMAIN HitsOf[j] :
       ClassOf[HitsOf[j][i].finding] = "vulnerable-dependency" <=> KindOf[j] = "sca"
  /\ \A j \in Job : /\ DownOf[j].state = "recorded"
                    /\ ClassOf[DownOf[j].finding] # "vulnerable-dependency"

VARIABLES
  job,        \* tasks.state of each job
  attempt,    \* per worker: the attempt it makes
  goals,      \* advisories that an Antares goal was enqueued for
  output,     \* per job: the report of its tool, in the target
  triage,     \* tasks.state of the triager task
  triager,    \* the locals of triage_run
  report,     \* tasks.state of the reporter task
  listing,    \* write_reports: the findings it has listed, by state
  reported,   \* the last report written
  fix,        \* per request: the locals of autofix_finding
  tree,       \* findings whose fix is a change in the target's work tree that
              \* is not in git's index
  patch,      \* per finding: the fixes in its patch file
  edits,      \* history: how often the finding's fix was written
  faults, lapses, spoiled,   \* history: what MaxTroubles bounds
  late,       \* history: findings written since triage_run last listed them
  overlap     \* history: two requests to fix were at work at once

detecting == <<job, attempt, goals, output>>
judging == <<triage, triager, late>>
reporting == <<report, listing, reported>>
fixing == <<fix, tree, patch, edits, overlap>>
budget == <<faults, lapses, spoiled>>
vars == <<results, detecting, judging, reporting, fixing, budget>>

----------------------------------------------------------------------------

Idle == [job |-> CHOOSE j \in Job : TRUE, pc |-> "idle", left |-> {}, row |-> 0,
         sent |-> FALSE]

Resting == [pc |-> "idle", todo |-> {}, cur |-> CHOOSE f \in Fingerprint : TRUE,
            says |-> "none"]

NotListed == [f \in Fingerprint |-> "absent"]

Init ==
  /\ ResultsInit
  /\ \E jobs \in Enqueued :
       job = [j \in Job |-> IF j \in jobs THEN "open" ELSE "none"]
  /\ attempt = [w \in Worker |-> Idle]
  /\ goals = {} /\ output = [j \in Job |-> "none"]
  /\ triage = "none" /\ triager = Resting /\ late = {}
  /\ report = "none" /\ listing = NotListed /\ reported = NotListed
  /\ fix = [r \in Request |-> [pc |-> "idle", finding |-> Resting.cur]]
  /\ tree = {} /\ patch = [f \in Fingerprint |-> {}]
  /\ edits = [f \in Fingerprint |-> 0] /\ overlap = FALSE
  /\ faults = 0 /\ lapses = 0 /\ spoiled = 0

JobOf(w) == attempt[w].job

At(w, label) == attempt[w].pc = label

Goto(w, label) == attempt' = [attempt EXCEPT ![w].pc = label]

Live(j) == \E w \in Worker : JobOf(w) = j /\ ~At(w, "idle")

----------------------------------------------------------------------------
(* Detectors. *)

\* A free worker claims the job.  CodeGuard, and the fallbacks for a tool that
\* is not installed, then know what they have found; a tool or the model has
\* yet to be asked.
Begin(w, j) ==
  /\ At(w, "idle")
  /\ job[j] = "open"
  /\ job' = [job EXCEPT ![j] = "claimed"]
  /\ attempt' = [attempt EXCEPT ![w] =
       [job |-> j, row |-> 0, sent |-> KindOf[j] \in {"rules", "sca"},
        left |-> IF KindOf[j] \in {"rules", "sca"} /\ j \notin Reporting
                 THEN DOMAIN HitsOf[j] ELSE {},
        pc |-> CASE j \in Reporting -> "tool"
                 [] KindOf[j] \in {"rules", "sca"} /\ j \notin Reporting -> "write"
                 [] KindOf[j] = "antares" -> "begin"
                 [] KindOf[j] = "llm" -> "ask"]]
  /\ UNCHANGED <<results, goals, output, judging, reporting, fixing, budget>>

\* The tool makes its report, or truncates the one that is there.
OpenReport(w) ==
  /\ At(w, "tool")
  /\ output' = [output EXCEPT ![JobOf(w)] = "part"]
  /\ Goto(w, "writing")
  /\ UNCHANGED <<results, job, goals, judging, reporting, fixing, budget>>

Beside(w) == \E v \in Worker \ {w} : JobOf(v) = JobOf(w) /\ ~At(v, "idle")

\* The tool has written its report to the file that it opened.  That may have
\* been removed by another attempt at the job, or truncated by its tool.
EndReport(w) ==
  /\ At(w, "writing")
  /\ \/ /\ output[JobOf(w)] # "none"
        /\ output' = [output EXCEPT ![JobOf(w)] = "full"]
     \/ /\ output[JobOf(w)] = "none" \/ Beside(w)
        /\ UNCHANGED output
  /\ Goto(w, "read")
  /\ UNCHANGED <<results, job, goals, judging, reporting, fixing, budget>>

\* The tool ends before it has written its report; its exit code is ignored.
FailReport(w) ==
  /\ At(w, "tool") \/ At(w, "writing")
  /\ faults + lapses + spoiled < MaxTroubles
  /\ spoiled' = spoiled + 1
  /\ Goto(w, "read")
  /\ UNCHANGED <<results, job, goals, output, judging, reporting, fixing, faults,
                 lapses>>

\* Another scan of this target runs the tool there.
Tamper(j) ==
  /\ j \in Reporting
  /\ faults + lapses + spoiled < MaxTroubles
  /\ spoiled' = spoiled + 1
  /\ \E left \in {"none", "part", "full"} : output' = [output EXCEPT ![j] = left]
  /\ UNCHANGED <<results, job, attempt, goals, judging, reporting, fixing, faults,
                 lapses>>

\* No report, or an empty one, says that there is nothing to find.  What is cut
\* short elsewhere is no JSON and raises.
ReadReport(w) ==
  /\ At(w, "read")
  /\ attempt' = [attempt EXCEPT
       ![w].pc = IF output[JobOf(w)] = "none" THEN "write" ELSE "unlink",
       ![w].left = IF output[JobOf(w)] = "full" THEN DOMAIN HitsOf[JobOf(w)] ELSE {}]
  /\ UNCHANGED <<results, job, goals, output, judging, reporting, fixing, budget>>

UnlinkReport(w) ==
  /\ At(w, "unlink")
  /\ output' = [output EXCEPT ![JobOf(w)] = "none"]
  /\ Goto(w, "write")
  /\ UNCHANGED <<results, job, goals, judging, reporting, fixing, budget>>

\* run_osv, run_gitleaks.
RunTool(w) ==
  \/ OpenReport(w) \/ EndReport(w) \/ FailReport(w)
  \/ ReadReport(w) \/ UnlinkReport(w)

\* run_antares_localization: the goal is being worked on.
CoverRunning(w) ==
  /\ At(w, "begin")
  /\ SetCoverage(GoalOf[JobOf(w)], "running")
  /\ Goto(w, "ask")
  /\ UNCHANGED <<job, goals, output, judging, reporting, fixing, budget>>

Told(w, found, sent) ==
  attempt' = [attempt EXCEPT ![w].pc = "write", ![w].left = found, ![w].sent = sent]

\* The turns of the Antares loop, none of which changes anything but the
\* conversation.  Antares submits files, of which those that exist in the
\* target are hits, or it submits none: ~sent.
Answer(w) ==
  /\ At(w, "ask") /\ KindOf[JobOf(w)] = "antares"
  /\ \E found \in SUBSET DOMAIN HitsOf[JobOf(w)], sent \in BOOLEAN :
       /\ found # {} => sent
       /\ Told(w, found, sent)
  /\ UNCHANGED <<results, job, goals, output, judging, reporting, fixing,
                 budget>>

\* The calls of the LLM sweep: it finds hits until it is through, or until the
\* model does not answer any more: ~sent.
Sweep(w) ==
  /\ At(w, "ask") /\ KindOf[JobOf(w)] = "llm"
  /\ \E found \in SUBSET DOMAIN HitsOf[JobOf(w)], sent \in BOOLEAN :
       Told(w, found, sent)
  /\ UNCHANGED <<results, job, goals, output, judging, reporting, fixing,
                 budget>>

\* client.chat raises in the Antares loop.
ModelDown(w) ==
  /\ At(w, "ask") /\ KindOf[JobOf(w)] = "antares"
  /\ SetCoverage(GoalOf[JobOf(w)], "error")
  /\ Goto(w, "down")
  /\ UNCHANGED <<job, goals, output, judging, reporting, fixing, budget>>

RecordDown(w) ==
  /\ At(w, "down")
  /\ UpsertFinding(DownOf[JobOf(w)])
  /\ Goto(w, "complete")
  /\ UNCHANGED <<job, goals, output, judging, reporting, fixing, budget>>

First(left) == CHOOSE i \in left : \A k \in left : i <= k

NextHit(w) == HitsOf[JobOf(w)][First(attempt[w].left)]

\* upsert_finding of the next hit.
WriteFinding(w) ==
  /\ At(w, "write") /\ attempt[w].left # {} /\ attempt[w].row = 0
  /\ UpsertFinding(NextHit(w))
  /\ attempt' = [attempt EXCEPT ![w].row = 1]
  /\ late' = late \cup {NextHit(w).finding}
  /\ UNCHANGED <<job, goals, output, triage, triager, reporting, fixing,
                 budget>>

\* Mutant of WriteEvidence: the last row of a hit's evidence is forgotten.
WriteEvidenceButLast(w) ==
  /\ At(w, "write") /\ attempt[w].row > 0
  /\ LET hit == NextHit(w)
         last == attempt[w].row = Len(hit.kinds)
     IN /\ IF last THEN UNCHANGED results
           ELSE AddEvidence(hit.finding, hit.kinds[attempt[w].row], hit.cited)
        /\ attempt' = [attempt EXCEPT
             ![w].row = IF last THEN 0 ELSE @ + 1,
             ![w].left = IF last THEN @ \ {First(attempt[w].left)} ELSE @]
        /\ late' = late \cup {hit.finding}
  /\ UNCHANGED <<job, goals, output, triage, triager, reporting, fixing,
                 budget>>

\* One add_evidence; after the last one comes the next hit.
WriteEvidence(w) ==
  /\ At(w, "write") /\ attempt[w].row > 0
  /\ LET hit == NextHit(w)
         last == attempt[w].row = Len(hit.kinds)
     IN /\ AddEvidence(hit.finding, hit.kinds[attempt[w].row], hit.cited)
        /\ attempt' = [attempt EXCEPT
             ![w].row = IF last THEN 0 ELSE @ + 1,
             ![w].left = IF last THEN @ \ {First(attempt[w].left)} ELSE @]
        /\ late' = late \cup {hit.finding}
  /\ UNCHANGED <<job, goals, output, triage, triager, reporting, fixing,
                 budget>>

\* Mutant of Cover: a goal for which nothing was submitted is left as it is.
CoverOnlyDone(w) ==
  /\ At(w, "write") /\ attempt[w].left = {}
  /\ IF ~attempt[w].sent THEN UNCHANGED results
     ELSE SetCoverage(GoalOf[JobOf(w)], "done")
  /\ Goto(w, IF KindOf[JobOf(w)] = "sca" THEN "goals" ELSE "complete")
  /\ UNCHANGED <<job, goals, output, judging, reporting, fixing, budget>>

\* All hits are written.  The sweep that was cut short has returned already.
Cover(w) ==
  /\ At(w, "write") /\ attempt[w].left = {}
  /\ IF KindOf[JobOf(w)] = "llm" /\ ~attempt[w].sent THEN UNCHANGED results
     ELSE SetCoverage(GoalOf[JobOf(w)],
                      IF attempt[w].sent THEN "done" ELSE "attempted")
  /\ Goto(w, IF KindOf[JobOf(w)] = "sca" THEN "goals" ELSE "complete")
  /\ UNCHANGED <<job, goals, output, judging, reporting, fixing, budget>>

ScaFindings ==
  {f \in Fingerprint : \E j \in Job : /\ KindOf[j] = "sca"
                                    /\ \E i \in DOMAIN HitsOf[j] : HitsOf[j][i].finding = f}

Grave(f) == findings[f].severity \in {"critical", "high"}

AsGraveAs(f, g) ==
  findings[f].severity = "critical" \/ findings[g].severity # "critical"

\* Mutant of WorstFew: cut without sorting.
AnyFew(fs) ==
  {some \in SUBSET fs :
     /\ Cardinality(some) <= ScaCap
     /\ some # fs => Cardinality(some) = ScaCap}

\* What sorting and cutting at the limit may leave.  The sort goes on by
\* advisory and package, of which the model has no order.
WorstFew(fs) ==
  {some \in SUBSET fs :
     /\ Cardinality(some) <= ScaCap
     /\ some # fs => Cardinality(some) = ScaCap
     /\ \A f \in some, g \in fs \ some : AsGraveAs(f, g)}

\* The SCA handler makes goals of the findings there are and enqueues them;
\* Pipeline has the single insertions.
Synthesize(w) ==
  /\ At(w, "goals")
  /\ \E some \in WorstFew({f \in ScaFindings : StateOf(f) # "absent" /\ Grave(f)}) :
       goals' = goals \cup {findings[f].rule : f \in some}
  /\ Goto(w, "complete")
  /\ UNCHANGED <<results, job, output, judging, reporting, fixing, budget>>

\* complete_task, by the task's id.
Complete(w) ==
  /\ At(w, "complete")
  /\ job' = [job EXCEPT ![JobOf(w)] = "closed"]
  /\ Goto(w, "advance")
  /\ UNCHANGED <<results, goals, output, judging, reporting, fixing, budget>>

\* advance_after: the triager when has_incomplete_tasks says that no detector
\* is left, with add_task_if_absent.
Advance(w) ==
  /\ At(w, "advance")
  /\ triage' = IF triage = "none" /\ \A j \in Job : job[j] \in {"none", "closed"}
               THEN "open" ELSE triage
  /\ attempt' = [attempt EXCEPT ![w] = Idle]
  /\ UNCHANGED <<results, job, goals, output, triager, late, reporting, fixing,
                 budget>>

\* An exception out of the handler, ScanCancelled, a failure of the sandbox and
\* a report that is no JSON among them, or out of advance_after when the task is
\* closed: release_task, by the task's id.  A report that was read is removed.
Raise(w) ==
  /\ ~At(w, "idle") /\ faults + lapses + spoiled < MaxTroubles
  /\ faults' = faults + 1
  /\ job' = [job EXCEPT ![JobOf(w)] = "open"]
  /\ output' = IF At(w, "read") \/ At(w, "unlink")
               THEN [output EXCEPT ![JobOf(w)] = "none"] ELSE output
  /\ attempt' = [attempt EXCEPT ![w] = Idle]
  /\ UNCHANGED <<results, goals, judging, reporting, fixing, lapses, spoiled>>

\* The claim on the job went stale and was reclaimed; its worker goes on.
Lapse(j) ==
  /\ job[j] = "claimed" /\ faults + lapses + spoiled < MaxTroubles
  /\ lapses' = lapses + 1
  /\ job' = [job EXCEPT ![j] = "open"]
  /\ UNCHANGED <<results, attempt, goals, output, judging, reporting, fixing,
                 faults, spoiled>>

----------------------------------------------------------------------------
(* The triager. *)

PresenceClasses == {"secret-exposure", "hardcoded-credentials", "weak-crypto",
                    "vulnerable-dependency"}

Kinds(rows) == {e.kind : e \in rows}

CitationsOk(rows) == \A e \in rows : e.cited

HasReach(rows) == Kinds(rows) \cap {"reachability", "presence"} # {}

HasTrust(f, rows) ==
  "trust-boundary" \in Kinds(rows) \/ ClassOf[f] = "antares-localization"

\* The kinds of evidence a confirmed finding has.
GateKinds(f, rows) ==
  /\ "impact" \in Kinds(rows)
  /\ IF ClassOf[f] \in PresenceClasses THEN "presence" \in Kinds(rows)
     ELSE HasReach(rows) /\ HasTrust(f, rows)

\* What triage_run makes of a finding with this evidence.
Judgement(f, rows) ==
  IF GateKinds(f, rows) /\ CitationsOk(rows) THEN "confirm"
  ELSE IF \/ ClassOf[f] \in PresenceClasses /\ "presence" \in Kinds(rows)
          \/ /\ ClassOf[f] \notin PresenceClasses
             /\ CitationsOk(rows)
             /\ HasReach(rows) \/ "impact" \in Kinds(rows)
       THEN "review"
  ELSE "reject"

Undecided == FindingsIn({"candidate", "needs-review"})

\* Mutant of ListFindings: every finding is judged, whatever its state.
ListAllFindings ==
  /\ triage = "open" /\ triager.pc = "idle"
  /\ triage' = "claimed"
  /\ triager' = [triager EXCEPT !.pc = "each",
                                !.todo = Fingerprint \ FindingsIn({"absent"})]
  /\ late' = late \ Undecided
  /\ UNCHANGED <<results, detecting, reporting, fixing, budget>>

\* The triager's thread claims its task and lists the findings.
ListFindings ==
  /\ triage = "open" /\ triager.pc = "idle"
  /\ triage' = "claimed"
  /\ triager' = [triager EXCEPT !.pc = "each", !.todo = Undecided]
  /\ late' = late \ Undecided
  /\ UNCHANGED <<results, detecting, reporting, fixing, budget>>

\* list_evidence of the next finding.  With a documentation context the
\* triager writes that down before the verdict, unless it rejects the finding.
ReadEvidence ==
  /\ triager.pc = "each"
  /\ \E f \in triager.todo :
       LET says == Judgement(f, EvidenceOf(f))
       IN triager' = [pc |-> IF f \in InDocs /\ says # "reject" THEN "context"
                             ELSE "verdict",
                      todo |-> triager.todo \ {f}, cur |-> f, says |-> says]
  /\ UNCHANGED <<results, detecting, triage, late, reporting, fixing, budget>>

\* The path of a context row resolves when those of the other rows do.
AddContext ==
  /\ triager.pc = "context"
  /\ AddEvidence(triager.cur, "context", TRUE)
  /\ triager' = [triager EXCEPT !.pc = "verdict"]
  /\ UNCHANGED <<detecting, triage, late, reporting, fixing, budget>>

NextFinding == triager' = [Resting EXCEPT !.pc = "each", !.todo = triager.todo]

\* Mutant of Confirmed: a documentation context does not matter.
ConfirmedAnywhere == triager.says = "confirm"

Confirmed == triager.says = "confirm" /\ triager.cur \notin InDocs

GiveVerdict ==
  /\ triager.pc = "verdict"
  /\ CASE Confirmed -> SetVerdict(triager.cur, "true-positive", "confirmed")
       [] ~Confirmed /\ triager.says # "reject"
            -> SetVerdict(triager.cur, "needs-review", "needs-review")
       [] triager.says = "reject"
            -> SetVerdict(triager.cur, "false-positive", "recorded")
  /\ IF Confirmed /\ ClassOf[triager.cur] = "antares-localization"
     THEN triager' = [triager EXCEPT !.pc = "gap"]
     ELSE NextFinding
  /\ UNCHANGED <<detecting, triage, late, reporting, fixing, budget>>

\* A confirmed Antares finding, whose rule_id is a CWE, gets a rule gap.
NoteGap ==
  /\ triager.pc = "gap"
  /\ AddRuleGap(triager.cur)
  /\ NextFinding
  /\ UNCHANGED <<detecting, triage, late, reporting, fixing, budget>>

CloseTriage ==
  /\ triager.pc = "each" /\ triager.todo = {}
  /\ triage' = "closed"
  /\ triager' = [triager EXCEPT !.pc = "advance"]
  /\ UNCHANGED <<results, detecting, late, reporting, fixing, budget>>

\* advance_after: add_task_if_absent of the reporter.
EnqueueReporter ==
  /\ triager.pc = "advance"
  /\ report' = IF report = "none" THEN "open" ELSE report
  /\ triager' = Resting
  /\ UNCHANGED <<results, detecting, triage, late, listing, reported, fixing,
                 budget>>

\* An exception in triage_run, or in advance_after when the task is closed.
TriageRaise ==
  /\ triager.pc # "idle" /\ faults + lapses + spoiled < MaxTroubles
  /\ faults' = faults + 1
  /\ triage' = "open"
  /\ triager' = Resting
  /\ UNCHANGED <<results, detecting, late, reporting, fixing, lapses, spoiled>>

----------------------------------------------------------------------------
(* The reporter. *)

Survivors == {"confirmed", "needs-review", "published"}

ListSurvivors ==
  /\ report = "open"
  /\ report' = "claimed"
  /\ listing' = [f \in Fingerprint |->
                   IF StateOf(f) \in Survivors THEN StateOf(f) ELSE "absent"]
  /\ UNCHANGED <<results, detecting, judging, reported, fixing, budget>>

\* summary.md and findings.sarif, from the one list.
WriteReport ==
  /\ report = "claimed"
  /\ report' = "closed"
  /\ reported' = listing
  /\ UNCHANGED <<results, detecting, judging, listing, fixing, budget>>

ReportRaise ==
  /\ report = "claimed" /\ faults + lapses + spoiled < MaxTroubles
  /\ faults' = faults + 1
  /\ report' = "open"
  /\ UNCHANGED <<results, detecting, judging, listing, reported, fixing, lapses,
                 spoiled>>

----------------------------------------------------------------------------
(* autofix_finding. *)

Fixing(r) == fix[r].pc \notin {"idle", "done"}

GotoFix(r, label) == fix' = [fix EXCEPT ![r].pc = label]

EndFix(r) == fix' = [fix EXCEPT ![r] = [pc |-> "done", finding |-> Resting.cur]]

\* Mutant of OpenFix: the gate asks for evidence-backed findings only.
OpenFixOfSurvivors(r, f) ==
  /\ fix[r].pc = "idle"
  /\ StateOf(f) \in Survivors
  /\ fix' = [fix EXCEPT ![r] = [pc |-> "apply", finding |-> f]]
  /\ overlap' = (overlap \/ \E q \in Request : Fixing(q))
  /\ UNCHANGED <<results, detecting, judging, reporting, tree, patch, edits, budget>>

\* get_finding and the gate.
OpenFix(r, f) ==
  /\ fix[r].pc = "idle"
  /\ StateOf(f) = "confirmed" /\ findings[f].verdict = "true-positive"
  /\ fix' = [fix EXCEPT ![r] = [pc |-> "apply", finding |-> f]]
  /\ overlap' = (overlap \/ \E q \in Request : Fixing(q))
  /\ UNCHANGED <<results, detecting, judging, reporting, tree, patch, edits, budget>>

\* The fix of f is written to its file.  Written again it may change nothing.
WriteFix(f) ==
  /\ edits' = [edits EXCEPT ![f] = @ + 1]
  /\ \/ tree' = tree \cup ({f} \ Unbumped)
     \/ edits[f] > 0 /\ UNCHANGED tree

\* Mutant of ApplyFix: the branch is made first, and no diff after it.
ApplyFixToBranch(r) ==
  /\ fix[r].pc = "apply"
  /\ \/ WriteFix(fix[r].finding) /\ GotoFix(r, "branch")
     \/ UNCHANGED <<tree, edits>> /\ EndFix(r)
  /\ UNCHANGED <<results, detecting, judging, reporting, patch, overlap, budget>>

\* The fix is written into the target's work tree, or there is none.
ApplyFix(r) ==
  /\ fix[r].pc = "apply"
  /\ \/ WriteFix(fix[r].finding) /\ GotoFix(r, "diff")
     \/ UNCHANGED <<tree, edits>> /\ EndFix(r)
  /\ UNCHANGED <<results, detecting, judging, reporting, patch, overlap, budget>>

\* git diff, of the whole work tree.  When it fails or shows nothing the patch
\* file is a note, without a fix.
DiffTree(r) ==
  /\ fix[r].pc = "diff"
  /\ \E missed \in SUBSET Unseen :
       patch' = [patch EXCEPT ![fix[r].finding] = tree \ missed]
  /\ GotoFix(r, "branch")
  /\ UNCHANGED <<results, detecting, judging, reporting, tree, edits, overlap,
                 budget>>

\* git checkout -B, add -A and commit, of the whole work tree; or, offline,
\* without gh or when git fails, nothing.
Branch(r) ==
  /\ fix[r].pc = "branch"
  /\ tree' \in {tree, {}}
  /\ GotoFix(r, "publish")
  /\ UNCHANGED <<results, detecting, judging, reporting, patch, edits, overlap,
                 budget>>

\* An exception after the fix was written: no git, a file that cannot be
\* written, the database.  The request fails and the change stays.
RaiseFix(r) ==
  /\ fix[r].pc \in {"diff", "branch", "publish"}
  /\ faults + lapses + spoiled < MaxTroubles
  /\ EndFix(r)
  /\ UNCHANGED <<results, detecting, judging, reporting, tree, patch, edits,
                 overlap, budget>>

PublishFix(r) ==
  /\ fix[r].pc = "publish"
  /\ SetVerdict(fix[r].finding, "true-positive", "published")
  /\ EndFix(r)
  /\ UNCHANGED <<detecting, judging, reporting, tree, patch, edits, overlap, budget>>

----------------------------------------------------------------------------

Detect ==
  \/ \E w \in Worker :
       \/ \E j \in Job : Begin(w, j)
       \/ RunTool(w)
       \/ CoverRunning(w) \/ Answer(w) \/ Sweep(w) \/ ModelDown(w) \/ RecordDown(w)
       \/ WriteFinding(w) \/ WriteEvidence(w) \/ Cover(w) \/ Synthesize(w)
       \/ Complete(w) \/ Advance(w) \/ Raise(w)
  \/ \E j \in Job : Lapse(j) \/ Tamper(j)

Judge ==
  \/ ListFindings \/ ReadEvidence \/ AddContext \/ GiveVerdict
  \/ NoteGap \/ CloseTriage \/ EnqueueReporter \/ TriageRaise

Write == ListSurvivors \/ WriteReport \/ ReportRaise

Repair ==
  \E r \in Request :
    \/ \E f \in Fingerprint : OpenFix(r, f)
    \/ ApplyFix(r) \/ DiffTree(r) \/ Branch(r) \/ PublishFix(r) \/ RaiseFix(r)

Next == Detect \/ Judge \/ Write \/ Repair

Spec == Init /\ [][Next]_vars

----------------------------------------------------------------------------
(* Properties. *)

TypeOK ==
  /\ ResultsTypeOK
  /\ job \in [Job -> {"none", "open", "claimed", "closed"}]
  /\ attempt \in [Worker -> [job : Job, left : SUBSET Nat, row : Nat,
                            sent : BOOLEAN,
                            pc : {"idle", "tool", "writing", "read", "unlink",
                                  "begin", "ask", "down", "write", "goals",
                                  "complete", "advance"}]]
  /\ goals \subseteq Rule
  /\ output \in [Job -> {"none", "part", "full"}]
  /\ triage \in {"none", "open", "claimed", "closed"}
  /\ triager \in [pc : {"idle", "each", "context", "verdict", "gap", "advance"},
                  todo : SUBSET Fingerprint, cur : Fingerprint,
                  says : {"none", "confirm", "review", "reject"}]
  /\ report \in {"none", "open", "claimed", "closed"}
  /\ {listing, reported} \subseteq [Fingerprint -> Survivors \cup {"absent"}]
  /\ fix \in [Request -> [pc : {"idle", "apply", "diff", "branch", "publish", "done"},
                          finding : Fingerprint]]
  /\ tree \subseteq Fingerprint /\ late \subseteq Fingerprint
  /\ patch \in [Fingerprint -> SUBSET Fingerprint]
  /\ edits \in [Fingerprint -> Nat]
  /\ overlap \in BOOLEAN
  /\ faults \in 0..MaxTroubles /\ lapses \in 0..MaxTroubles
  /\ spoiled \in 0..MaxTroubles

\* Principle I of the constitution: no finding is confirmed, and no fix is
\* published, without the evidence of the gate in the store, whatever workers
\* write to the finding while it is judged and fixed.
EvidenceGate ==
  \A f \in Fingerprint :
    StateOf(f) \in {"confirmed", "published"} =>
      findings[f].verdict = "true-positive" /\ GateKinds(f, EvidenceOf(f))

\* A verdict is final but for needs-review: a detector that finds the same
\* again, a triager that is run again and a fix for it never turn a confirmed,
\* recorded or published finding back.
VerdictsStay ==
  [][\A f \in Fingerprint :
       /\ StateOf(f) \in {"recorded", "published"} => StateOf(f)' = StateOf(f)
       /\ StateOf(f) = "confirmed" => StateOf(f)' \in {"confirmed", "published"}]_vars

\* A detector task is closed only when everything that its attempts, failed,
\* stale and overlapping ones, had to write is in the store.  That is not so
\* for a tool's report: the attempts at its job share the file, and a report
\* that one of them does not find says to it that there is nothing.  There it
\* takes that no claim lapsed, the tool wrote its report and no other scan was
\* at the target; attempts that raised leave nothing that misleads the next.
ClosedMeansRecorded ==
  \A j \in Job :
    /\ job[j] = "closed" /\ KindOf[j] \in {"rules", "sca"}
    /\ j \in Reporting => lapses = 0 /\ spoiled = 0
    =>
      \A i \in DOMAIN HitsOf[j] :
        LET hit == HitsOf[j][i]
        IN /\ StateOf(hit.finding) # "absent"
           /\ \A n \in DOMAIN hit.kinds :
                hit.kinds[n] \in Kinds(EvidenceOf(hit.finding))

\* When the triager is through, every finding has the verdict that the
\* evidence in the store calls for, whatever was retried; but for findings that
\* an attempt which outlived its claim wrote to after they had been listed.
JudgedOnEvidence ==
  triage = "closed" =>
    \A f \in Fingerprint \ late :
      StateOf(f) \in {"absent"} \cup
        (CASE Judgement(f, EvidenceOf(f)) = "reject" -> {"recorded"}
           [] Judgement(f, EvidenceOf(f)) = "confirm" /\ f \notin InDocs
                -> {"confirmed", "published"}
           [] OTHER -> {"needs-review"})

\* What the report says of a finding stays true, but that a confirmed one may
\* be fixed: nothing that is reported is judged again.
ReportStays ==
  \A f \in Fingerprint : reported[f] # "absent" =>
    StateOf(f) \in {reported[f]} \cup (IF reported[f] = "confirmed"
                                     THEN {"published"} ELSE {})

\* Once the jobs of a goal are closed and nobody is at them any more, coverage
\* does not say that it is running, whichever of their attempts wrote last.
\* Holds unless an attempt raised and another one outlived its claim: that one
\* completes the task which the first one released with the goal running.
CoverageSettles ==
  \A g \in Goal :
    LET jobs == {j \in Job : GoalOf[j] = g /\ job[j] # "none"}
    IN /\ jobs # {} /\ \A j \in jobs : job[j] = "closed" /\ ~Live(j)
       /\ faults = 0 \/ lapses = 0
       =>
         \/ coverage[g] \in {"error", "attempted", "done"}
         \/ coverage[g] = "none" /\ \A j \in jobs : KindOf[j] = "llm"

\* A confirmed Antares finding has one rule gap, whatever is retried; it is
\* missing only when triage_run raised between the verdict and the gap.
GapOnce ==
  \A f \in Fingerprint :
    /\ gaps[f] <= 1
    /\ gaps[f] = 1 => StateOf(f) \in {"confirmed", "published"}
    /\ /\ ClassOf[f] = "antares-localization"
       /\ StateOf(f) \in {"confirmed", "published"} /\ gaps[f] = 0
       => faults > 0 \/ (triager.pc = "gap" /\ triager.cur = f)

\* A high or critical SCA finding gets no Antares goal only when as many goals
\* as are allowed went to findings that are as grave.  With the exception of
\* CoverageSettles: of two advisories for one dependency, which have one
\* fingerprint, the raising attempt may put the other one into the store after
\* the goals have been made.
WorstGetGoals ==
  \A j \in Job : /\ KindOf[j] = "sca" /\ job[j] = "closed" /\ ~Live(j)
                /\ (faults = 0 \/ lapses = 0) =>
    \A f \in ScaFindings :
      Grave(f) /\ findings[f].rule \notin goals =>
        ScaCap <= Cardinality({g \in ScaFindings :
                                 findings[g].rule \in goals /\ AsGraveAs(g, f)})

\* The patch of a published finding carries its fix, also when requests for
\* other findings raised half way and left their changes behind.  Holds while
\* no two requests are at work at once, which share the target's work tree, for
\* findings whose fix is a change that git diff shows, and whose fix was written
\* once: a request after one that raised may find no difference, and replaces
\* the patch by a note.
PatchCarriesFix ==
  \A f \in Fingerprint \ (Unbumped \cup Unseen) :
    StateOf(f) = "published" /\ ~overlap /\ edits[f] = 1 => f \in patch[f]

\* docs/GOALS.md: "high and critical hits are turned into extra Antares
\* localization goals (one per advisory, capped at 40)".
EveryAdvisoryHasGoal ==
  \A j \in Job : KindOf[j] = "sca" /\ job[j] = "closed" =>
    \A i \in DOMAIN HitsOf[j] :
      HitsOf[j][i].severity \in {"critical", "high"} =>
        HitsOf[j][i].rule \in goals \/ Cardinality(goals) >= ScaCap
=============================================================================
