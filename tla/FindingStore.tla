---------------------------- MODULE FindingStore ----------------------------
(***************************************************************************)
(* What one run has found: the tables `findings`, `evidence`, `coverage`   *)
(* and `rule_gaps` of substrate/schema.sql and the operations on them of   *)
(* substrate/db.py.  Each is one transaction under the lock of Store, so   *)
(* each is one atomic operator here; Findings says who calls which when.   *)
(*                                                                         *)
(* Abstractions.  A finding is named by its fingerprint, which is UNIQUE   *)
(* within a run; its class is part of the fingerprint.  Evidence rows that *)
(* differ only in id and time are one row, and of a row's path and line    *)
(* only is kept whether they resolve in the target (_resolve_citation).    *)
(* Titles, summaries and notes are left out.                               *)
(***************************************************************************)
EXTENDS Integers, Sequences, FiniteSets

CONSTANTS
  Fingerprint,
  ClassOf,    \* findings.vuln_class
  Rule,       \* values of findings.rule_id: rules and advisories
  NoRule,
  Goal        \* pairs of goal and technique: the keys of `coverage`

ASSUME FindingStoreAssumption ==
  /\ ClassOf \in [Fingerprint -> STRING]
  /\ NoRule \in Rule

VARIABLES
  findings,   \* the rows of `findings` by fingerprint
  evidence,   \* the rows of `evidence`
  coverage,   \* coverage.state by key
  gaps        \* how many rows of `rule_gaps` a finding has

results == <<findings, evidence, coverage, gaps>>

Severity == {"critical", "high", "medium", "low", "info"}

EvidenceKind == {"presence", "reachability", "trust-boundary", "impact",
                 "context", "trace"}

FindingRow ==
  [state : {"absent", "candidate", "needs-review", "confirmed", "recorded",
            "published"},
   verdict : {"none", "true-positive", "false-positive", "needs-review"},
   severity : Severity,
   rule : Rule]

EvidenceRow == [finding : Fingerprint, kind : EvidenceKind, cited : BOOLEAN]

CoverageState == {"none", "running", "error", "attempted", "done"}

NoFinding ==
  [state |-> "absent", verdict |-> "none", severity |-> "info", rule |-> NoRule]

ResultsInit ==
  /\ findings = [f \in Fingerprint |-> NoFinding]
  /\ evidence = {}
  /\ coverage = [g \in Goal |-> "none"]
  /\ gaps = [f \in Fingerprint |-> 0]

ResultsTypeOK ==
  /\ findings \in [Fingerprint -> FindingRow]
  /\ evidence \subseteq EvidenceRow
  /\ coverage \in [Goal -> CoverageState]
  /\ gaps \in [Fingerprint -> Nat]

----------------------------------------------------------------------------
(* Operations. *)

StateOf(f) == findings[f].state

\* Mutant of Upserted: a finding that is found again is a candidate again.
UpsertedAfresh(row, hit) ==
  [row EXCEPT !.state = hit.state, !.severity = hit.severity, !.rule = hit.rule]

\* A known fingerprint keeps its state and verdict; what the last hit says of
\* it replaces what was there.  No caller leaves severity or rule_id NULL but
\* one, which is the only one to write its finding.
Upserted(row, hit) ==
  [row EXCEPT !.state = IF row.state = "absent" THEN hit.state ELSE row.state,
              !.severity = hit.severity,
              !.rule = hit.rule]

UpsertFinding(hit) ==
  /\ findings' = [findings EXCEPT ![hit.finding] = Upserted(@, hit)]
  /\ UNCHANGED <<evidence, coverage, gaps>>

AddEvidence(f, kind, cited) ==
  /\ evidence' = evidence \cup {[finding |-> f, kind |-> kind, cited |-> cited]}
  /\ UNCHANGED <<findings, coverage, gaps>>

EvidenceOf(f) == {e \in evidence : e.finding = f}

FindingsIn(states) == {f \in Fingerprint : StateOf(f) \in states}

\* Mutant of SetVerdict: the arguments swapped.
SetVerdictSwapped(f, verdict, state) ==
  /\ findings' = [findings EXCEPT ![f].verdict = state, ![f].state = verdict]
  /\ UNCHANGED <<evidence, coverage, gaps>>

SetVerdict(f, verdict, state) ==
  /\ findings' = [findings EXCEPT ![f].verdict = verdict, ![f].state = state]
  /\ UNCHANGED <<evidence, coverage, gaps>>

SetCoverage(goal, state) ==
  /\ coverage' = [coverage EXCEPT ![goal] = state]
  /\ UNCHANGED <<findings, evidence, gaps>>

AddRuleGap(f) ==
  /\ gaps' = [gaps EXCEPT ![f] = @ + 1]
  /\ UNCHANGED <<findings, evidence, coverage>>
=============================================================================
