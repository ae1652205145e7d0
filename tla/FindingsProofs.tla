--------------------------- MODULE FindingsProofs ---------------------------
(***************************************************************************)
(* For any detectors, findings, workers and requests, any number of        *)
(* exceptions, of claims that go stale and of reports that fail or are     *)
(* tampered with.                                                          *)
(***************************************************************************)
EXTENDS Findings, FiniteSetTheorems, TLAPS, WellFoundedInduction

Attempt ==
  [job : Job, left : SUBSET Nat, row : Nat, sent : BOOLEAN,
   pc : {"idle", "tool", "writing", "read", "unlink", "begin", "ask", "down",
         "write", "goals", "complete", "advance"}]

\* An attempt writes hits of its job, and is within the evidence of the hit.
AttemptInv ==
  \A w \in Worker :
    /\ At(w, "write") \/ At(w, "unlink")
         => attempt[w].left \subseteq DOMAIN HitsOf[JobOf(w)]
    /\ attempt[w].row > 0 =>
         /\ At(w, "write") /\ attempt[w].left # {}
         /\ attempt[w].row <= Len(NextHit(w).kinds)

TypeInv == TypeOK /\ AttemptInv

USE FindingsAssumption, FindingStoreAssumption
    DEF FindingsAssumption, FindingStoreAssumption

----------------------------------------------------------------------------
(* Types. *)

\* The hit that comes next is one of those that are left.
LEMMA FirstIsLeft ==
  ASSUME NEW left \in SUBSET Nat, left # {}
  PROVE  First(left) \in left
  <1> DEFINE Less == OpToRel(<, Nat)
  <1>1. IsWellFoundedOn(Less, Nat)
    BY ONLY NatLessThanWellFounded
  <1>2. left \subseteq Nat /\ left # {}
    OBVIOUS
  <1>3. \E m \in left : \A k \in left : ~(<<k, m>> \in Less)
    <2> HIDE DEF Less
    <2>1. QED
      BY ONLY <1>1, <1>2, WFMin
  <1>4. PICK m \in left : \A k \in left : ~(k < m)
    BY <1>2, <1>3, Zenon DEF OpToRel
  <1>5. \A k \in left : m <= k
    BY <1>4
  <1>6. QED
    BY <1>5, Zenon DEF First

\* What a job's attempt writes next is a hit with evidence.
LEMMA NextHitIsHit ==
  ASSUME TypeInv, NEW w \in Worker, At(w, "write"), attempt[w].left # {}
  PROVE  /\ First(attempt[w].left) \in attempt[w].left
         /\ NextHit(w) \in Hit
         /\ NextHit(w).kinds \in Seq(EvidenceKind)
         /\ 1 <= Len(NextHit(w).kinds)
  <1> DEFINE i == First(attempt[w].left)
  <1>1. i \in attempt[w].left
    BY FirstIsLeft DEF TypeInv, TypeOK
  <1>2. JobOf(w) \in Job /\ i \in DOMAIN HitsOf[JobOf(w)]
    BY <1>1 DEF TypeInv, TypeOK, AttemptInv, JobOf
  <1>3. HitsOf[JobOf(w)] \in Seq(Hit) /\ HitsOf[JobOf(w)][i].kinds # << >>
    BY <1>2
  <1>4. NextHit(w) \in Hit
    BY <1>2, <1>3 DEF NextHit
  <1>5. NextHit(w).kinds \in Seq(EvidenceKind) /\ NextHit(w).kinds # << >>
    BY <1>3, <1>4 DEF Hit, NextHit
  <1>6. QED
    BY <1>1, <1>4, <1>5

\* The hits and what is read of them have the types of the store's rows.
LEMMA HitTypes ==
  ASSUME NEW hit \in Hit
  PROVE  /\ hit.finding \in Fingerprint /\ hit.severity \in Severity
         /\ hit.rule \in Rule /\ hit.state \in {"candidate", "recorded"}
         /\ hit.cited \in BOOLEAN
  BY DEF Hit

\* upsert_finding keeps the types of the store.
LEMMA UpsertTypes ==
  ASSUME ResultsTypeOK, NEW hit \in Hit, UpsertFinding(hit)
  PROVE  ResultsTypeOK'
  <1>1. hit.finding \in Fingerprint /\ findings[hit.finding] \in FindingRow
    BY HitTypes DEF ResultsTypeOK
  <1>2. Upserted(findings[hit.finding], hit) \in FindingRow
    BY <1>1, HitTypes DEF Upserted, FindingRow
  <1>3. findings' \in [Fingerprint -> FindingRow]
    BY <1>1, <1>2 DEF UpsertFinding, ResultsTypeOK
  <1>4. QED
    BY <1>3 DEF UpsertFinding, ResultsTypeOK

\* add_evidence keeps them.
LEMMA EvidenceTypes ==
  ASSUME ResultsTypeOK, NEW f \in Fingerprint, NEW kind \in EvidenceKind,
         NEW cited \in BOOLEAN, AddEvidence(f, kind, cited)
  PROVE  ResultsTypeOK'
  BY DEF ResultsTypeOK, AddEvidence, EvidenceRow

\* So do set_verdict, set_coverage and add_rule_gap.
LEMMA VerdictTypes ==
  ASSUME ResultsTypeOK, NEW f \in Fingerprint,
         NEW verdict \in {"true-positive", "false-positive", "needs-review"},
         NEW state \in {"needs-review", "confirmed", "recorded", "published"},
         SetVerdict(f, verdict, state)
  PROVE  ResultsTypeOK'
  <1>1. findings[f] \in FindingRow
    BY DEF ResultsTypeOK
  <1>2. [findings[f] EXCEPT !.verdict = verdict, !.state = state] \in FindingRow
    BY <1>1 DEF FindingRow
  <1>3. findings' = [findings EXCEPT ![f] =
                       [findings[f] EXCEPT !.verdict = verdict, !.state = state]]
    BY DEF SetVerdict, ResultsTypeOK, FindingRow
  <1>4. QED
    BY <1>2, <1>3 DEF ResultsTypeOK, SetVerdict

LEMMA CoverageTypes ==
  ASSUME ResultsTypeOK, NEW g \in Goal, NEW state \in CoverageState,
         SetCoverage(g, state)
  PROVE  ResultsTypeOK'
  BY DEF ResultsTypeOK, SetCoverage

LEMMA GapTypes ==
  ASSUME ResultsTypeOK, NEW f \in Fingerprint, AddRuleGap(f)
  PROVE  ResultsTypeOK'
  BY DEF ResultsTypeOK, AddRuleGap

\* Nothing has been found, and nothing is under way.
LEMMA InitTypeInv == Init => TypeInv
  <1> SUFFICES ASSUME Init PROVE TypeInv
    OBVIOUS
  <1>1. ResultsTypeOK
    BY DEF Init, ResultsInit, ResultsTypeOK, NoFinding, FindingRow, Severity,
           CoverageState
  <1>2. Idle.job \in Job /\ Resting.cur \in Fingerprint
    BY DEF Idle, Resting
  <1>3. attempt \in [Worker -> Attempt]
    BY <1>2 DEF Init, Idle, Attempt
  <1>4. triager \in [pc : {"idle", "each", "context", "verdict", "gap", "advance"},
                     todo : SUBSET Fingerprint, cur : Fingerprint,
                     says : {"none", "confirm", "review", "reject"}]
    BY <1>2 DEF Init, Resting
  <1>5. {listing, reported} \subseteq [Fingerprint -> Survivors \cup {"absent"}]
    BY DEF Init, NotListed
  <1>6. fix \in [Request -> [pc : {"idle", "apply", "diff", "branch", "publish", "done"},
                          finding : Fingerprint]]
    BY <1>2 DEF Init
  <1>7. overlap \in BOOLEAN
    BY Zenon DEF Init
  <1>8. AttemptInv
    BY DEF Init, AttemptInv, Idle, At
  <1>9. QED
    BY <1>1, <1>3, <1>4, <1>5, <1>6, <1>7, <1>8
    DEF TypeInv, TypeOK, Init, Attempt

----------------------------------------------------------------------------
(* Types: the steps of the detectors. *)

\* A step of one worker that leaves its attempt within its job's hits.
LEMMA OneAttempt ==
  ASSUME TypeInv, NEW w \in Worker, NEW a,
         attempt' = [attempt EXCEPT ![w] = a],
         a \in Attempt,
         a.pc \in {"write", "unlink"} => a.left \subseteq DOMAIN HitsOf[a.job],
         a.row > 0 => /\ a.pc = "write" /\ a.left # {}
                      /\ a.row <= Len(HitsOf[a.job][First(a.left)].kinds)
  PROVE  /\ attempt' \in [Worker -> Attempt]
         /\ AttemptInv'
  BY ZenonT(60) DEF TypeInv, TypeOK, AttemptInv, At, JobOf, NextHit, Attempt

\* A step that only moves a worker on.
LEMMA GotoKeeps ==
  ASSUME TypeInv, NEW w \in Worker,
         NEW label \in {"writing", "read", "ask", "down", "goals", "complete",
                        "advance"},
         Goto(w, label), attempt[w].row = 0
  PROVE  attempt' \in [Worker -> Attempt] /\ AttemptInv'
  <1> DEFINE a == [attempt[w] EXCEPT !.pc = label]
  <1>1. attempt[w] \in Attempt
    BY DEF TypeInv, TypeOK, Attempt
  <1>2. attempt' = [attempt EXCEPT ![w] = a]
    BY DEF Goto, TypeInv, TypeOK
  <1>3. a \in Attempt
    BY <1>1 DEF Attempt
  <1>4. a.pc \notin {"write", "unlink"} /\ ~(a.row > 0)
    BY <1>1 DEF Attempt
  <1> HIDE DEF a
  <1>5. a.pc \in {"write", "unlink"} => a.left \subseteq DOMAIN HitsOf[a.job]
    BY <1>4
  <1>6. a.row > 0 => /\ a.pc = "write" /\ a.left # {}
                     /\ a.row <= Len(HitsOf[a.job][First(a.left)].kinds)
    BY <1>4
  <1>7. QED
    BY <1>2, <1>3, <1>5, <1>6, OneAttempt

LEMMA BeginTypes ==
  ASSUME TypeInv, NEW w \in Worker, NEW j \in Job, Begin(w, j)
  PROVE  TypeInv'
  <1> DEFINE now == KindOf[j] \in {"rules", "sca"}
             left == IF now /\ j \notin Reporting THEN DOMAIN HitsOf[j] ELSE {}
             pc == CASE j \in Reporting -> "tool"
                     [] now /\ j \notin Reporting -> "write"
                     [] KindOf[j] = "antares" -> "begin"
                     [] KindOf[j] = "llm" -> "ask"
             a == [job |-> j, row |-> 0, sent |-> now, left |-> left, pc |-> pc]
  <1>1. /\ KindOf[j] \in DetectorKind /\ HitsOf[j] \in Seq(Hit)
        /\ j \in Reporting => KindOf[j] \in {"rules", "sca"}
    OBVIOUS
  <1>2. left \in SUBSET Nat /\ left \subseteq DOMAIN HitsOf[j]
    BY <1>1
  <1>3. pc \in {"tool", "write", "begin", "ask"}
    BY <1>1 DEF DetectorKind
  <1>4. attempt' = [attempt EXCEPT ![w] = a]
    BY DEF Begin
  <1> HIDE DEF left, pc
  <1>5. a \in Attempt
    BY <1>2, <1>3 DEF Attempt
  <1>6. /\ a.pc \in {"write", "unlink"} => a.left \subseteq DOMAIN HitsOf[a.job]
        /\ ~(a.row > 0)
    BY <1>2
  <1> HIDE DEF a
  <1>7. attempt' \in [Worker -> Attempt] /\ AttemptInv'
    BY <1>4, <1>5, <1>6, OneAttempt
  <1>8. job' \in [Job -> {"none", "open", "claimed", "closed"}]
    BY DEF Begin, TypeInv, TypeOK
  <1>9. QED
    BY <1>7, <1>8, ZenonT(40) DEF Begin, TypeInv, TypeOK, Attempt, ResultsTypeOK,
                                  results, judging, reporting, fixing, budget

\* What the tools do to the attempts, whatever is in the report.
LEMMA ToolSteps ==
  ASSUME TypeInv, NEW w \in Worker, RunTool(w)
  PROVE  /\ attempt[w].pc \in {"tool", "writing", "read", "unlink"}
         /\ \E label \in {"writing", "read", "unlink", "write"},
               left \in {attempt[w].left, {}, DOMAIN HitsOf[JobOf(w)]} :
              /\ attempt' = [attempt EXCEPT ![w].pc = label, ![w].left = left]
              /\ label \in {"write", "unlink"} =>
                   left \subseteq DOMAIN HitsOf[JobOf(w)]
              /\ attempt[w].pc = "read" \/ left = attempt[w].left
         /\ UNCHANGED <<results, job, goals, judging, reporting, fixing, faults,
                        lapses>>
         /\ output' \in [Job -> {"none", "part", "full"}]
         /\ spoiled <= spoiled' /\ spoiled' \in 0..MaxTroubles
  <1>1. /\ JobOf(w) \in Job /\ output \in [Job -> {"none", "part", "full"}]
        /\ spoiled \in 0..MaxTroubles /\ spoiled \in Nat
        /\ attempt \in [Worker -> Attempt]
    BY DEF TypeInv, TypeOK, JobOf, Attempt
  <1>2. CASE OpenReport(w) \/ EndReport(w) \/ FailReport(w)
    <2>1. PICK label \in {"writing", "read"} : Goto(w, label)
      BY <1>2 DEF OpenReport, EndReport, FailReport
    <2>2. attempt' = [attempt EXCEPT ![w].pc = label, ![w].left = attempt[w].left]
      BY <1>1, <2>1 DEF Goto, Attempt
    <2>3. attempt[w].pc \in {"tool", "writing"}
      BY <1>2 DEF OpenReport, EndReport, FailReport, At
    <2>4. /\ UNCHANGED <<results, job, goals, judging, reporting, fixing, faults,
                         lapses>>
          /\ output' \in [Job -> {"none", "part", "full"}]
      BY <1>1, <1>2 DEF OpenReport, EndReport, FailReport, budget
    <2>5. spoiled' = spoiled \/ (spoiled' = spoiled + 1 /\ spoiled < MaxTroubles)
      <3>1. faults \in Nat /\ lapses \in Nat /\ MaxTroubles \in Nat
        BY DEF TypeInv, TypeOK
      <3>2. CASE FailReport(w)
        <4>1. spoiled' = spoiled + 1 /\ faults + lapses + spoiled < MaxTroubles
          BY <3>2 DEF FailReport
        <4>2. QED
          BY <1>1, <3>1, <4>1
      <3>3. CASE OpenReport(w) \/ EndReport(w)
        BY <3>3 DEF OpenReport, EndReport, budget
      <3>4. QED
        BY <1>2, <3>2, <3>3
    <2>6. spoiled <= spoiled' /\ spoiled' \in 0..MaxTroubles
      BY <1>1, <2>5
    <2>7. QED
      BY <2>2, <2>3, <2>4, <2>6, ZenonT(40)
  <1>3. CASE ReadReport(w)
    <2> DEFINE label == IF output[JobOf(w)] = "none" THEN "write" ELSE "unlink"
               left == IF output[JobOf(w)] = "full" THEN DOMAIN HitsOf[JobOf(w)] ELSE {}
    <2>1. /\ attempt' = [attempt EXCEPT ![w].pc = label, ![w].left = left]
          /\ label \in {"write", "unlink"}
          /\ left \in {{}, DOMAIN HitsOf[JobOf(w)]}
          /\ attempt[w].pc = "read"
      BY <1>3, Zenon DEF ReadReport, At
    <2>2. left \subseteq DOMAIN HitsOf[JobOf(w)]
      BY <2>1
    <2>3. /\ UNCHANGED <<results, job, goals, judging, reporting, fixing, faults,
                         lapses>>
          /\ output' = output /\ spoiled' = spoiled
      BY <1>3 DEF ReadReport, budget
    <2> HIDE DEF label, left
    <2>4. /\ output' \in [Job -> {"none", "part", "full"}]
          /\ spoiled <= spoiled' /\ spoiled' \in 0..MaxTroubles
      BY <1>1, <2>3
    <2>5. label \in {"writing", "read", "unlink", "write"}
          /\ left \in {attempt[w].left, {}, DOMAIN HitsOf[JobOf(w)]}
      BY <2>1
    <2>6. QED
      BY <2>1, <2>2, <2>3, <2>4, <2>5, ZenonT(40)
  <1>4. CASE UnlinkReport(w)
    <2>1. attempt' = [attempt EXCEPT ![w].pc = "write", ![w].left = attempt[w].left]
      BY <1>1, <1>4 DEF UnlinkReport, Goto, Attempt
    <2>2. /\ attempt[w].pc = "unlink"
          /\ attempt[w].left \subseteq DOMAIN HitsOf[JobOf(w)]
      BY <1>4 DEF UnlinkReport, TypeInv, AttemptInv, At
    <2>3. /\ UNCHANGED <<results, job, goals, judging, reporting, fixing, faults,
                         lapses>>
          /\ output' \in [Job -> {"none", "part", "full"}]
          /\ spoiled <= spoiled' /\ spoiled' \in 0..MaxTroubles
      BY <1>1, <1>4 DEF UnlinkReport, budget
    <2>4. QED
      BY <2>1, <2>2, <2>3
  <1>5. QED
    BY <1>2, <1>3, <1>4 DEF RunTool

LEMMA ToolTypes ==
  ASSUME TypeInv, NEW w \in Worker, RunTool(w)
  PROVE  TypeInv'
  <1>1. PICK label \in {"writing", "read", "unlink", "write"},
          left \in {attempt[w].left, {}, DOMAIN HitsOf[JobOf(w)]} :
       /\ attempt' = [attempt EXCEPT ![w].pc = label, ![w].left = left]
       /\ label \in {"write", "unlink"} => left \subseteq DOMAIN HitsOf[JobOf(w)]
       /\ attempt[w].pc = "read" \/ left = attempt[w].left
    BY ToolSteps, ZenonT(40)
  <1>2. attempt[w] \in Attempt /\ attempt \in [Worker -> Attempt] /\ JobOf(w) \in Job
    BY DEF TypeInv, TypeOK, Attempt, JobOf
  <1>3. attempt[w].row = 0
    <2>1. ~At(w, "write")
      BY ToolSteps DEF At
    <2>2. ~(attempt[w].row > 0)
      BY <2>1 DEF TypeInv, AttemptInv
    <2>3. QED
      BY <1>2, <2>2 DEF Attempt
  <1>4. left \in SUBSET Nat
    <2>1. HitsOf[JobOf(w)] \in Seq(Hit)
      BY <1>2
    <2>2. DOMAIN HitsOf[JobOf(w)] \subseteq Nat /\ attempt[w].left \subseteq Nat
      BY <1>2, <2>1 DEF Attempt
    <2>3. QED
      BY <1>1, <2>2
  <1> DEFINE a == [attempt[w] EXCEPT !.pc = label, !.left = left]
  <1>5. attempt' = [attempt EXCEPT ![w] = a]
    BY <1>1, <1>2
  <1>6. a \in Attempt
    BY <1>2, <1>4 DEF Attempt
  <1>7. a.job = JobOf(w) /\ a.pc = label /\ a.left = left /\ a.row = 0
    BY <1>2, <1>3 DEF Attempt, JobOf
  <1> HIDE DEF a
  <1>8. /\ a.pc \in {"write", "unlink"} => a.left \subseteq DOMAIN HitsOf[a.job]
        /\ ~(a.row > 0)
    BY <1>1, <1>7
  <1>9. attempt' \in [Worker -> Attempt] /\ AttemptInv'
    BY <1>5, <1>6, <1>8, OneAttempt
  <1>10. /\ UNCHANGED <<results, job, goals, judging, reporting, fixing, faults, lapses>>
         /\ output' \in [Job -> {"none", "part", "full"}] /\ spoiled' \in 0..MaxTroubles
    BY ToolSteps
  <1>11. QED
    BY <1>9, <1>10, ZenonT(40) DEF TypeInv, TypeOK, Attempt, ResultsTypeOK, results,
                                   judging, reporting, fixing

LEMMA AskTypes ==
  ASSUME TypeInv, NEW w \in Worker,
         CoverRunning(w) \/ Answer(w) \/ Sweep(w) \/ ModelDown(w) \/ RecordDown(w)
  PROVE  TypeInv'
  <1>1. JobOf(w) \in Job /\ GoalOf[JobOf(w)] \in Goal /\ DownOf[JobOf(w)] \in Hit
    BY DEF TypeInv, TypeOK, JobOf
  <1>2. attempt[w] \in Attempt /\ attempt[w].row = 0
    <2>1. attempt[w] \in Attempt
      BY DEF TypeInv, TypeOK, Attempt
    <2>2. ~At(w, "write")
      BY DEF At, CoverRunning, Answer, Sweep, ModelDown, RecordDown
    <2>3. ~(attempt[w].row > 0)
      BY <2>2 DEF TypeInv, AttemptInv
    <2>4. QED
      BY <2>1, <2>3 DEF Attempt
  <1>3. CASE CoverRunning(w) \/ ModelDown(w)
    <2>1. attempt' \in [Worker -> Attempt] /\ AttemptInv'
      BY <1>2, <1>3, GotoKeeps DEF CoverRunning, ModelDown
    <2>2. ResultsTypeOK'
      BY <1>1, <1>3, CoverageTypes DEF CoverRunning, ModelDown, CoverageState, TypeInv,
                                       TypeOK
    <2>3. UNCHANGED <<job, goals, output, judging, reporting, fixing, budget>>
      BY <1>3 DEF CoverRunning, ModelDown
    <2>4. QED
      BY <2>1, <2>2, <2>3, ZenonT(40) DEF TypeInv, TypeOK, Attempt, judging, reporting,
                                          fixing, budget
  <1>4. CASE RecordDown(w)
    <2>1. attempt' \in [Worker -> Attempt] /\ AttemptInv'
      BY <1>2, <1>4, GotoKeeps DEF RecordDown
    <2>2. ResultsTypeOK'
      BY <1>1, <1>4, UpsertTypes DEF RecordDown, TypeInv, TypeOK
    <2>3. UNCHANGED <<job, goals, output, judging, reporting, fixing, budget>>
      BY <1>4 DEF RecordDown
    <2>4. QED
      BY <2>1, <2>2, <2>3, ZenonT(40) DEF TypeInv, TypeOK, Attempt, judging, reporting,
                                          fixing, budget
  <1>5. CASE Answer(w) \/ Sweep(w)
    <2>1. PICK found \in SUBSET DOMAIN HitsOf[JobOf(w)], sent \in BOOLEAN :
            attempt' = [attempt EXCEPT ![w].pc = "write", ![w].left = found,
                                       ![w].sent = sent]
      BY <1>5 DEF Answer, Sweep, Told
    <2> DEFINE a == [attempt[w] EXCEPT !.pc = "write", !.left = found, !.sent = sent]
    <2>2. found \subseteq Nat
      BY <1>1
    <2>3. a \in Attempt
      BY <1>2, <2>2 DEF Attempt
    <2>4. a.job = JobOf(w) /\ a.left = found /\ a.row = 0
      BY <1>2 DEF Attempt, JobOf
    <2>5. /\ a.pc \in {"write", "unlink"} => a.left \subseteq DOMAIN HitsOf[a.job]
          /\ ~(a.row > 0)
      BY <2>4
    <2>6. attempt' = [attempt EXCEPT ![w] = a]
      BY <2>1, ZenonT(60) DEF TypeInv, TypeOK
    <2> HIDE DEF a
    <2>7. attempt' \in [Worker -> Attempt] /\ AttemptInv'
      BY <2>3, <2>5, <2>6, OneAttempt
    <2>8. UNCHANGED <<results, job, goals, output, judging, reporting, fixing, budget>>
      BY <1>5 DEF Answer, Sweep
    <2>9. QED
      BY <2>7, <2>8, ZenonT(40) DEF TypeInv, TypeOK, Attempt, ResultsTypeOK, results,
                                    judging, reporting, fixing, budget
  <1>6. QED
    BY <1>3, <1>4, <1>5

LEMMA WriteTypes ==
  ASSUME TypeInv, NEW w \in Worker, WriteFinding(w) \/ WriteEvidence(w)
  PROVE  TypeInv'
  <1> DEFINE old == attempt[w]
             hit == NextHit(w)
  <1>1. old \in Attempt /\ old.pc = "write" /\ old.left # {}
    BY DEF TypeInv, TypeOK, AttemptInv, Attempt, At, WriteFinding, WriteEvidence
  <1>2. /\ First(old.left) \in old.left /\ hit \in Hit
        /\ hit.kinds \in Seq(EvidenceKind) /\ 1 <= Len(hit.kinds)
    BY <1>1, NextHitIsHit DEF At
  <1>3. old.left \subseteq DOMAIN HitsOf[old.job]
    BY <1>1 DEF TypeInv, AttemptInv, At, JobOf
  <1>4. hit = HitsOf[old.job][First(old.left)]
    BY DEF NextHit, JobOf
  <1>5. hit.finding \in Fingerprint /\ hit.cited \in BOOLEAN
    BY <1>2, HitTypes
  <1> HIDE DEF hit
  <1>6. CASE WriteFinding(w)
    <2> DEFINE a == [old EXCEPT !.row = 1]
    <2>1. attempt' = [attempt EXCEPT ![w] = a]
      BY <1>6 DEF WriteFinding, TypeInv, TypeOK
    <2>2. a \in Attempt
      BY <1>1 DEF Attempt
    <2>3. a.job = old.job /\ a.left = old.left /\ a.pc = old.pc /\ a.row = 1
      BY <1>1 DEF Attempt
    <2> HIDE DEF a
    <2>4. attempt' \in [Worker -> Attempt] /\ AttemptInv'
      BY <1>1, <1>2, <1>3, <1>4, <2>1, <2>2, <2>3, OneAttempt
    <2>5. ResultsTypeOK'
      BY <1>2, <1>6, UpsertTypes DEF WriteFinding, TypeInv, TypeOK, hit
    <2>6. late' \subseteq Fingerprint
      BY <1>5, <1>6 DEF WriteFinding, TypeInv, TypeOK, hit
    <2>7. QED
      BY <1>6, <2>4, <2>5, <2>6, ZenonT(40)
        DEF WriteFinding, TypeInv, TypeOK, Attempt, reporting, fixing, budget
  <1>7. CASE WriteEvidence(w)
    <2> DEFINE last == old.row = Len(hit.kinds)
               a == [old EXCEPT !.row = IF last THEN 0 ELSE @ + 1,
                                !.left = IF last THEN @ \ {First(@)} ELSE @]
    <2>1. attempt' = [attempt EXCEPT ![w] = a]
      BY <1>7, ZenonT(60) DEF WriteEvidence, TypeInv, TypeOK, hit
    <2>2. old.row > 0 /\ old.row <= Len(hit.kinds)
      BY <1>7 DEF WriteEvidence, TypeInv, AttemptInv, hit
    <2>3. a \in Attempt
      <3>1. old.row + 1 \in Nat /\ old.left \ {First(old.left)} \in SUBSET Nat
        BY <1>1 DEF Attempt
      <3>2. (IF last THEN 0 ELSE old.row + 1) \in Nat
        BY <3>1
      <3>3. (IF last THEN old.left \ {First(old.left)} ELSE old.left) \in SUBSET Nat
        BY <1>1, <3>1 DEF Attempt
      <3>4. QED
        BY <1>1, <3>2, <3>3 DEF Attempt
    <2>4. /\ a.job = old.job /\ a.pc = old.pc
          /\ a.left = (IF last THEN old.left \ {First(old.left)} ELSE old.left)
          /\ a.row = (IF last THEN 0 ELSE old.row + 1)
      BY <1>1 DEF Attempt
    <2> HIDE DEF a
    <2>5. a.pc \in {"write", "unlink"} => a.left \subseteq DOMAIN HitsOf[a.job]
      <3>1. a.left = old.left \/ a.left = old.left \ {First(old.left)}
        BY <2>4, Zenon
      <3>2. a.job = old.job
        BY <2>4, ZenonT(40)
      <3> HIDE DEF old, last
      <3>3. QED
        BY <1>3, <3>1, <3>2
    <2>6. a.row > 0 => /\ a.pc = "write" /\ a.left # {}
                       /\ a.row <= Len(HitsOf[a.job][First(a.left)].kinds)
      <3>1. Len(hit.kinds) \in Nat /\ old.row \in Nat
        BY <1>1, <1>2 DEF Attempt
      <3>2. SUFFICES ASSUME ~last
                     PROVE  a.pc = "write" /\ a.left # {}
                            /\ a.row <= Len(HitsOf[a.job][First(a.left)].kinds)
        BY <2>4
      <3>3. a.left = old.left /\ a.row = old.row + 1
        BY <2>4, <3>2
      <3>4. old.row + 1 <= Len(hit.kinds)
        BY <2>2, <3>1, <3>2
      <3>5. QED
        BY <1>1, <1>4, <2>4, <3>3, <3>4
    <2>7. attempt' \in [Worker -> Attempt] /\ AttemptInv'
      BY <2>1, <2>3, <2>5, <2>6, OneAttempt
    <2>8. ResultsTypeOK'
      <3>1. hit.kinds[old.row] \in EvidenceKind
        BY <1>1, <1>2, <2>2 DEF Attempt
      <3>2. AddEvidence(hit.finding, hit.kinds[old.row], hit.cited)
        BY <1>7 DEF WriteEvidence, hit
      <3>3. QED
        BY <1>5, <3>1, <3>2, EvidenceTypes DEF TypeInv, TypeOK
    <2>9. late' \subseteq Fingerprint
      BY <1>5, <1>7 DEF WriteEvidence, TypeInv, TypeOK, hit
    <2>10. QED
      BY <1>7, <2>7, <2>8, <2>9, ZenonT(40)
        DEF WriteEvidence, TypeInv, TypeOK, Attempt, reporting, fixing, budget
  <1>8. QED
    BY <1>6, <1>7

\* A worker gives its job up or is through with it.
LEMMA IdleKeeps ==
  ASSUME TypeInv, NEW w \in Worker, attempt' = [attempt EXCEPT ![w] = Idle]
  PROVE  attempt' \in [Worker -> Attempt] /\ AttemptInv'
  <1>1. Idle \in Attempt
    BY DEF Idle, Attempt
  <1>2. Idle.pc \notin {"write", "unlink"} /\ ~(Idle.row > 0)
    BY DEF Idle
  <1>3. QED
    BY <1>1, <1>2, OneAttempt

\* Lapse leaves the attempts alone.
LEMMA SameAttempts ==
  ASSUME TypeInv, attempt' = attempt
  PROVE  attempt' \in [Worker -> Attempt] /\ AttemptInv'
  BY DEF TypeInv, TypeOK, AttemptInv, Attempt, At, JobOf, NextHit

LEMMA EndTypes ==
  ASSUME TypeInv, NEW w \in Worker,
         Cover(w) \/ Synthesize(w) \/ Complete(w) \/ Advance(w) \/ Raise(w)
  PROVE  TypeInv'
  <1>1. JobOf(w) \in Job /\ GoalOf[JobOf(w)] \in Goal
    BY DEF TypeInv, TypeOK, JobOf
  <1>2. attempt[w] \in Attempt
    BY DEF TypeInv, TypeOK, Attempt
  <1>3. Cover(w) \/ Synthesize(w) \/ Complete(w) => attempt[w].row = 0
    <2>1. (At(w, "write") /\ attempt[w].left = {}) \/ ~At(w, "write")
            => ~(attempt[w].row > 0)
      BY DEF TypeInv, AttemptInv
    <2>2. Cover(w) \/ Synthesize(w) \/ Complete(w)
            => (At(w, "write") /\ attempt[w].left = {}) \/ ~At(w, "write")
      BY DEF Cover, Synthesize, Complete, At
    <2>3. QED
      BY <1>2, <2>1, <2>2 DEF Attempt
  <1>4. CASE Cover(w)
    <2>1. attempt' \in [Worker -> Attempt] /\ AttemptInv'
      BY <1>3, <1>4, GotoKeeps DEF Cover
    <2>2. ResultsTypeOK'
      <3>1. CASE UNCHANGED results
        BY <3>1 DEF results, ResultsTypeOK, TypeInv, TypeOK
      <3>2. CASE ~(UNCHANGED results)
        <4>1. PICK state \in {"done", "attempted"} : SetCoverage(GoalOf[JobOf(w)], state)
          BY <1>4, <3>2 DEF Cover
        <4>2. QED
          BY <1>1, <4>1, CoverageTypes DEF CoverageState, TypeInv, TypeOK
      <3>3. QED
        BY <3>1, <3>2
    <2>3. QED
      BY <1>4, <2>1, <2>2, SMTT(30)
      DEF Cover, TypeInv, TypeOK, Attempt, judging, reporting, fixing, budget
  <1>5. CASE Synthesize(w)
    <2>1. attempt' \in [Worker -> Attempt] /\ AttemptInv'
      BY <1>3, <1>5, GotoKeeps DEF Synthesize
    <2>2. goals' \subseteq Rule
      <3>1. PICK some \in SUBSET Fingerprint :
              goals' = goals \cup {findings[f].rule : f \in some}
        BY <1>5 DEF Synthesize, WorstFew, ScaFindings
      <3>2. \A f \in Fingerprint : findings[f].rule \in Rule
        BY DEF TypeInv, TypeOK, ResultsTypeOK, FindingRow
      <3>3. QED
        BY <3>1, <3>2 DEF TypeInv, TypeOK
    <2>3. QED
      BY <1>5, <2>1, <2>2, ZenonT(60)
      DEF Synthesize, TypeInv, TypeOK, Attempt, ResultsTypeOK, results, judging,
          reporting, fixing, budget
  <1>6. CASE Complete(w)
    <2>1. attempt' \in [Worker -> Attempt] /\ AttemptInv'
      BY <1>3, <1>6, GotoKeeps DEF Complete
    <2>2. job' \in [Job -> {"none", "open", "claimed", "closed"}]
      BY <1>6 DEF Complete, TypeInv, TypeOK
    <2>3. QED
      BY <1>6, <2>1, <2>2, SMTT(30)
      DEF Complete, TypeInv, TypeOK, Attempt, ResultsTypeOK, results, judging,
          reporting, fixing, budget
  <1>7. CASE Advance(w)
    <2>1. attempt' \in [Worker -> Attempt] /\ AttemptInv'
      BY <1>7, IdleKeeps DEF Advance
    <2>2. triage' \in {"none", "open", "claimed", "closed"}
      BY <1>7 DEF Advance, TypeInv, TypeOK
    <2>3. QED
      BY <1>7, <2>1, <2>2 DEF Advance, TypeInv, TypeOK, Attempt, ResultsTypeOK, results,
                              reporting, fixing, budget
  <1>8. CASE Raise(w)
    <2>1. attempt' \in [Worker -> Attempt] /\ AttemptInv'
      BY <1>8, IdleKeeps DEF Raise
    <2>2. job' \in [Job -> {"none", "open", "claimed", "closed"}]
      BY <1>8 DEF Raise, TypeInv, TypeOK
    <2>3. faults' \in 0..MaxTroubles
      BY <1>8 DEF Raise, TypeInv, TypeOK
    <2>4. output' \in [Job -> {"none", "part", "full"}]
      BY <1>1, <1>8 DEF Raise, TypeInv, TypeOK
    <2>5. QED
      BY <1>8, <2>1, <2>2, <2>3, <2>4, ZenonT(40)
        DEF Raise, TypeInv, TypeOK, Attempt, ResultsTypeOK, results, judging, reporting,
            fixing
  <1>9. QED
    BY <1>4, <1>5, <1>6, <1>7, <1>8

LEMMA TamperTypes ==
  ASSUME TypeInv, NEW j \in Job, Tamper(j)
  PROVE  TypeInv'
  <1>1. attempt' \in [Worker -> Attempt] /\ AttemptInv'
    BY SameAttempts DEF Tamper
  <1>2. spoiled' \in 0..MaxTroubles
    BY DEF Tamper, TypeInv, TypeOK
  <1>3. output' \in [Job -> {"none", "part", "full"}]
    BY DEF Tamper, TypeInv, TypeOK
  <1>4. QED
    BY <1>1, <1>2, <1>3, ZenonT(60)
    DEF Tamper, TypeInv, TypeOK, Attempt, ResultsTypeOK, results, judging, reporting,
        fixing

LEMMA LapseTypes ==
  ASSUME TypeInv, NEW j \in Job, Lapse(j)
  PROVE  TypeInv'
  <1>1. attempt' \in [Worker -> Attempt] /\ AttemptInv'
    BY SameAttempts DEF Lapse
  <1>2. lapses' \in 0..MaxTroubles
    BY DEF Lapse, TypeInv, TypeOK
  <1>3. job' \in [Job -> {"none", "open", "claimed", "closed"}]
    BY DEF Lapse, TypeInv, TypeOK
  <1>4. QED
    BY <1>1, <1>2, <1>3, ZenonT(60)
    DEF Lapse, TypeInv, TypeOK, Attempt, ResultsTypeOK, results, judging, reporting,
        fixing

----------------------------------------------------------------------------
(* Types: the steps of the triager, the reporter and autofix. *)

Triager ==
  [pc : {"idle", "each", "context", "verdict", "gap", "advance"},
   todo : SUBSET Fingerprint, cur : Fingerprint,
   says : {"none", "confirm", "review", "reject"}]

\* Steps that leave the findings' rows or the triager's locals alone.
LEMMA SameResults == ResultsTypeOK /\ UNCHANGED results => ResultsTypeOK'
  BY DEF ResultsTypeOK, results

LEMMA RestingIsTriager == Resting \in Triager
  BY DEF Resting, Triager

LEMMA NextFindingTypes ==
  ASSUME TypeInv, NextFinding
  PROVE  triager' \in Triager
  <1>1. triager.todo \in SUBSET Fingerprint
    BY DEF TypeInv, TypeOK
  <1>2. QED
    BY <1>1, RestingIsTriager DEF NextFinding, Triager, Resting

LEMMA JudgeTypes ==
  ASSUME TypeInv, Judge
  PROVE  TypeInv'
  <1>1. attempt' \in [Worker -> Attempt] /\ AttemptInv'
    <2>1. attempt' = attempt
      BY DEF Judge, ListFindings, ReadEvidence, AddContext, GiveVerdict, NoteGap,
             CloseTriage, EnqueueReporter, TriageRaise, detecting
    <2>2. QED
      BY <2>1, SameAttempts
  <1>2. triager \in Triager /\ ResultsTypeOK /\ triager.cur \in Fingerprint
    BY DEF TypeInv, TypeOK, Triager
  <1>3. CASE ListFindings
    <2>1. triager' \in Triager /\ late' \subseteq Fingerprint
      BY <1>2, <1>3 DEF ListFindings, Triager, TypeInv, TypeOK, Undecided, FindingsIn
    <2>2. QED
      BY <1>1, <1>2, <1>3, <2>1, SameResults
      DEF ListFindings, TypeInv, TypeOK, Triager, Attempt, detecting, reporting, fixing,
          budget
  <1>4. CASE ReadEvidence
    <2>1. triager' \in Triager
      BY <1>2, <1>4 DEF ReadEvidence, Triager, Judgement
    <2>2. QED
      BY <1>1, <1>2, <1>4, <2>1, SameResults
      DEF ReadEvidence, TypeInv, TypeOK, Triager, Attempt, detecting, reporting, fixing,
          budget
  <1>5. CASE AddContext
    <2>1. triager' \in Triager
      BY <1>2, <1>5 DEF AddContext, Triager
    <2>2. ResultsTypeOK'
      BY <1>2, <1>5, EvidenceTypes DEF AddContext, EvidenceKind
    <2>3. QED
      BY <1>1, <1>5, <2>1, <2>2
      DEF AddContext, TypeInv, TypeOK, Triager, Attempt, detecting, reporting, fixing,
          budget
  <1>6. CASE GiveVerdict
    <2>1. triager' \in Triager
      <3>1. CASE NextFinding
        BY <3>1, NextFindingTypes
      <3>2. CASE triager' = [triager EXCEPT !.pc = "gap"]
        BY <1>2, <3>2 DEF Triager
      <3>3. QED
        BY <1>6, <3>1, <3>2 DEF GiveVerdict
    <2>2. ResultsTypeOK'
      <3>1. PICK verdict \in {"true-positive", "false-positive", "needs-review"},
                 state \in {"needs-review", "confirmed", "recorded", "published"} :
              SetVerdict(triager.cur, verdict, state)
        BY <1>6 DEF GiveVerdict
      <3>2. QED
        BY <1>2, <3>1, VerdictTypes
    <2>3. QED
      BY <1>1, <1>6, <2>1, <2>2
      DEF GiveVerdict, TypeInv, TypeOK, Triager, Attempt, detecting, reporting, fixing,
          budget
  <1>7. CASE NoteGap
    <2>1. triager' \in Triager
      BY <1>7, NextFindingTypes DEF NoteGap
    <2>2. ResultsTypeOK'
      BY <1>2, <1>7, GapTypes DEF NoteGap
    <2>3. QED
      BY <1>1, <1>7, <2>1, <2>2 DEF NoteGap, TypeInv, TypeOK, Triager, Attempt,
                                    detecting, reporting, fixing, budget
  <1>8. CASE CloseTriage
    <2>1. triager' \in Triager
      BY <1>2, <1>8 DEF CloseTriage, Triager
    <2>2. QED
      BY <1>1, <1>2, <1>8, <2>1, SameResults
      DEF CloseTriage, TypeInv, TypeOK, Triager, Attempt, detecting, reporting, fixing,
          budget
  <1>9. CASE EnqueueReporter
    <2>1. triager' \in Triager
      BY <1>9, RestingIsTriager DEF EnqueueReporter
    <2>2. QED
      BY <1>1, <1>2, <1>9, <2>1, SameResults
      DEF EnqueueReporter, TypeInv, TypeOK, Triager, Attempt, detecting, fixing, budget
  <1>10. CASE TriageRaise
    <2>1. triager' \in Triager
      BY <1>10, RestingIsTriager DEF TriageRaise
    <2>2. faults' \in 0..MaxTroubles
      BY <1>10 DEF TriageRaise, TypeInv, TypeOK
    <2>3. QED
      BY <1>1, <1>2, <1>10, <2>1, <2>2, SameResults
      DEF TriageRaise, TypeInv, TypeOK, Triager, Attempt, detecting, reporting, fixing
  <1>11. QED
    BY <1>3, <1>4, <1>5, <1>6, <1>7, <1>8, <1>9, <1>10 DEF Judge

LEMMA ReportTypes ==
  ASSUME TypeInv, Write
  PROVE  TypeInv'
  <1>1. attempt' \in [Worker -> Attempt] /\ AttemptInv'
    BY SameAttempts DEF Write, ListSurvivors, WriteReport, ReportRaise, detecting
  <1>2. ResultsTypeOK'
    BY SameResults DEF Write, ListSurvivors, WriteReport, ReportRaise, TypeInv, TypeOK
  <1>3. {listing', reported'} \subseteq [Fingerprint -> Survivors \cup {"absent"}]
    <2>1. listing \in [Fingerprint -> Survivors \cup {"absent"}]
      BY DEF TypeInv, TypeOK
    <2>2. [f \in Fingerprint |-> IF StateOf(f) \in Survivors THEN StateOf(f) ELSE "absent"]
            \in [Fingerprint -> Survivors \cup {"absent"}]
      OBVIOUS
    <2>3. QED
      BY <2>1, <2>2
      DEF Write, ListSurvivors, WriteReport, ReportRaise, TypeInv, TypeOK
  <1>4. /\ faults' \in 0..MaxTroubles /\ lapses' \in 0..MaxTroubles
        /\ spoiled' \in 0..MaxTroubles
    BY DEF Write, ListSurvivors, WriteReport, ReportRaise, TypeInv, TypeOK, budget
  <1>5. QED
    BY <1>1, <1>2, <1>3, <1>4
    DEF Write, ListSurvivors, WriteReport, ReportRaise, TypeInv, TypeOK, Attempt,
        detecting, judging, fixing

LEMMA RepairTypes ==
  ASSUME TypeInv, Repair
  PROVE  TypeInv'
  <1> USE DEF Repair, OpenFix, ApplyFix, DiffTree, Branch, PublishFix, RaiseFix
  <1>1. attempt' \in [Worker -> Attempt] /\ AttemptInv'
    BY SameAttempts DEF detecting
  <1>2. \A r \in Request : fix[r].finding \in Fingerprint
    BY DEF TypeInv, TypeOK
  <1>3. ResultsTypeOK'
    <2>1. CASE UNCHANGED results
      BY <2>1, SameResults DEF TypeInv, TypeOK
    <2>2. CASE \E r \in Request : SetVerdict(fix[r].finding, "true-positive", "published")
      BY <1>2, <2>2, VerdictTypes DEF TypeInv, TypeOK
    <2>3. QED
      BY <2>1, <2>2
  <1>4. fix' \in [Request -> [pc : {"idle", "apply", "diff", "branch", "publish", "done"},
                           finding : Fingerprint]]
    <2> DEFINE Locals == [pc : {"idle", "apply", "diff", "branch", "publish", "done"},
                          finding : Fingerprint]
    <2>1. fix \in [Request -> Locals] /\ Resting.cur \in Fingerprint
      BY RestingIsTriager DEF TypeInv, TypeOK, Triager
    <2>2. PICK r \in Request :
            \/ \E f \in Fingerprint : fix' = [fix EXCEPT ![r] = [pc |-> "apply", finding |-> f]]
            \/ EndFix(r)
            \/ \E label \in {"diff", "branch", "publish"} : GotoFix(r, label)
      OBVIOUS
    <2> HIDE DEF Repair, OpenFix, ApplyFix, DiffTree, Branch, PublishFix, RaiseFix
    <2>3. CASE \E f \in Fingerprint : fix' = [fix EXCEPT ![r] = [pc |-> "apply", finding |-> f]]
      BY <2>1, <2>3
    <2>4. CASE EndFix(r)
      BY <2>1, <2>4 DEF EndFix
    <2>5. ASSUME NEW label \in {"diff", "branch", "publish"}, GotoFix(r, label)
          PROVE  fix' \in [Request -> Locals]
      <3>1. fix[r] \in Locals
        BY <2>1
      <3>2. [fix[r] EXCEPT !.pc = label] \in Locals
        BY <3>1
      <3> HIDE DEF Locals
      <3>3. QED
        BY <2>1, <2>5, <3>2 DEF GotoFix
    <2>6. QED
      BY <2>2, <2>3, <2>4, <2>5
  <1>5. /\ tree' \subseteq Fingerprint /\ patch' \in [Fingerprint -> SUBSET Fingerprint]
        /\ edits' \in [Fingerprint -> Nat]
    <2>1. /\ tree \subseteq Fingerprint /\ patch \in [Fingerprint -> SUBSET Fingerprint]
          /\ edits \in [Fingerprint -> Nat]
      BY DEF TypeInv, TypeOK
    <2>2. tree' \subseteq Fingerprint
      BY <1>2, <2>1 DEF WriteFix
    <2>3. \/ patch' = patch
          \/ \E f \in Fingerprint, missed \in SUBSET Unseen :
               patch' = [patch EXCEPT ![f] = tree \ missed]
      BY <1>2
    <2>4. edits' = edits \/ \E f \in Fingerprint : edits' = [edits EXCEPT ![f] = @ + 1]
      BY <1>2 DEF WriteFix
    <2> HIDE DEF Repair, OpenFix, ApplyFix, DiffTree, Branch, PublishFix, RaiseFix
    <2>5. patch' \in [Fingerprint -> SUBSET Fingerprint]
      <3>1. \A missed \in SUBSET Unseen : tree \ missed \in SUBSET Fingerprint
        BY <2>1
      <3>2. ASSUME NEW f \in Fingerprint, NEW new \in SUBSET Fingerprint,
                   patch' = [patch EXCEPT ![f] = new]
            PROVE  patch' \in [Fingerprint -> SUBSET Fingerprint]
        BY <2>1, <3>2
      <3>3. QED
        BY <2>1, <2>3, <3>1, <3>2, Zenon
    <2>6. edits' \in [Fingerprint -> Nat]
      BY <2>1, <2>4
    <2>7. QED
      BY <2>2, <2>5, <2>6
  <1>6. overlap' \in BOOLEAN
    BY DEF TypeInv, TypeOK
  <1>7. UNCHANGED <<detecting, judging, reporting, budget>>
    OBVIOUS
  <1>8. QED
    BY <1>1, <1>3, <1>4, <1>5, <1>6, <1>7, ZenonT(60)
    DEF TypeInv, TypeOK, Attempt, detecting, judging, reporting, budget

\* TypeInv is inductive.
LEMMA NextTypeInv ==
  ASSUME TypeInv, [Next]_vars
  PROVE  TypeInv'
  <1>1. CASE Detect
    BY <1>1, BeginTypes, ToolTypes, AskTypes, WriteTypes, EndTypes, LapseTypes, TamperTypes
      DEF Detect
  <1>2. CASE Judge
    BY <1>2, JudgeTypes
  <1>3. CASE Write
    BY <1>3, ReportTypes
  <1>4. CASE Repair
    BY <1>4, RepairTypes
  <1>5. CASE UNCHANGED vars
    BY <1>5, SMTT(30)
    DEF vars, results, detecting, judging, reporting, fixing, budget, TypeInv,
        TypeOK, ResultsTypeOK, AttemptInv, At, JobOf, NextHit
  <1>6. QED
    BY <1>1, <1>2, <1>3, <1>4, <1>5 DEF Next

LEMMA TypeInvariant == Spec => []TypeInv
  BY InitTypeInv, NextTypeInv, PTL DEF Spec

\* The rows of the store, the locals of every actor and the bounds keep their
\* types: no step writes a row of the wrong kind, and no attempt runs past the
\* evidence of its hits.
THEOREM FindingsTypes == Spec => []TypeOK
  BY TypeInvariant, PTL DEF TypeInv

----------------------------------------------------------------------------
(* What the steps do to verdicts and evidence. *)

\* upsert_finding leaves the verdict alone, and the state of what is known.
LEMMA UpsertStates ==
  ASSUME TypeInv, NEW hit \in Hit, UpsertFinding(hit), NEW f \in Fingerprint
  PROVE  /\ findings'[f].verdict = findings[f].verdict
         /\ \/ StateOf(f)' = StateOf(f)
            \/ StateOf(f) = "absent" /\ StateOf(f)' \in {"candidate", "recorded"}
  <1>1. hit.finding \in Fingerprint /\ hit.state \in {"candidate", "recorded"}
    BY HitTypes
  <1>2. findings \in [Fingerprint -> FindingRow]
    BY DEF TypeInv, TypeOK, ResultsTypeOK
  <1>3. findings'[f] = IF f = hit.finding THEN Upserted(findings[f], hit) ELSE findings[f]
    BY <1>1, <1>2 DEF UpsertFinding
  <1>4. findings[f] \in FindingRow
    BY <1>2
  <1>5. /\ Upserted(findings[f], hit).verdict = findings[f].verdict
        /\ Upserted(findings[f], hit).state =
             IF findings[f].state = "absent" THEN hit.state ELSE findings[f].state
    BY <1>4 DEF Upserted, FindingRow
  <1>6. QED
    BY <1>1, <1>3, <1>5 DEF StateOf

\* set_verdict gives its finding a state and leaves the others alone.
LEMMA VerdictStates ==
  ASSUME TypeInv, NEW g \in Fingerprint, NEW verdict, NEW state,
         SetVerdict(g, verdict, state), NEW f \in Fingerprint
  PROVE  IF f = g THEN StateOf(f)' = state /\ findings'[f].verdict = verdict
                  ELSE findings'[f] = findings[f]
  <1>1. findings \in [Fingerprint -> FindingRow] /\ findings[g] \in FindingRow
    BY DEF TypeInv, TypeOK, ResultsTypeOK
  <1>2. findings' = [findings EXCEPT ![g] =
                       [findings[g] EXCEPT !.verdict = verdict, !.state = state]]
    BY <1>1 DEF SetVerdict, FindingRow
  <1>3. findings'[g] = [findings[g] EXCEPT !.verdict = verdict, !.state = state]
    BY <1>1, <1>2
  <1>4. findings'[g].state = state /\ findings'[g].verdict = verdict
    BY <1>1, <1>3 DEF FindingRow
  <1>5. f # g => findings'[f] = findings[f]
    BY <1>1, <1>2
  <1>6. QED
    BY <1>4, <1>5 DEF StateOf

\* Detectors and the reporter do not interfere with the triager and autofix,
\* and change the state of a finding by upsert_finding only.
LEMMA DetectSteps ==
  ASSUME TypeInv, Detect \/ Write \/ UNCHANGED vars
  PROVE  /\ UNCHANGED <<triager, fix>>
         /\ evidence \subseteq evidence'
         /\ findings' = findings \/ \E hit \in Hit : UpsertFinding(hit)
  <1>1. CASE Write
    BY <1>1 DEF Write, ListSurvivors, WriteReport, ReportRaise, results, judging, fixing
  <1>2. CASE UNCHANGED vars
    BY <1>2 DEF vars, results, judging, fixing
  <1>3. ASSUME NEW w \in Worker, WriteFinding(w)
        PROVE  UNCHANGED <<triager, fix, evidence>> /\ \E hit \in Hit : UpsertFinding(hit)
    BY <1>3, NextHitIsHit DEF WriteFinding, UpsertFinding, fixing
  <1>4. ASSUME NEW w \in Worker, RecordDown(w)
        PROVE  UNCHANGED <<triager, fix, evidence>> /\ \E hit \in Hit : UpsertFinding(hit)
    BY <1>4 DEF RecordDown, UpsertFinding, fixing, judging, TypeInv, TypeOK, JobOf
  <1>5. ASSUME NEW w \in Worker, WriteEvidence(w)
        PROVE  /\ UNCHANGED <<triager, fix, findings>>
               /\ evidence \subseteq evidence'
    BY <1>5 DEF WriteEvidence, AddEvidence, fixing
  <1>6. ASSUME NEW w \in Worker, CoverRunning(w) \/ ModelDown(w) \/ Cover(w)
        PROVE  UNCHANGED <<triager, fix, findings, evidence>>
    BY <1>6 DEF CoverRunning, ModelDown, Cover, SetCoverage, fixing, judging, results
  <1>7. ASSUME NEW w \in Worker,
               \/ \E j \in Job : Begin(w, j)
               \/ Answer(w) \/ Sweep(w) \/ Synthesize(w) \/ Complete(w) \/ Advance(w) \/ Raise(w)
        PROVE  UNCHANGED <<triager, fix, findings, evidence>>
    BY <1>7 DEF Begin, Answer, Sweep, Synthesize, Complete, Advance, Raise, fixing,
                judging, results
  <1>8. ASSUME NEW j \in Job, Lapse(j)
        PROVE  UNCHANGED <<triager, fix, findings, evidence>>
    BY <1>8 DEF Lapse, fixing, judging, results
  <1>9. ASSUME \/ \E w \in Worker : RunTool(w)
               \/ \E j \in Job : Tamper(j)
        PROVE  UNCHANGED <<triager, fix, findings, evidence>>
    BY <1>9, ToolSteps DEF Tamper, fixing, judging, results
  <1>10. CASE Detect
    BY <1>3, <1>4, <1>5, <1>6, <1>7, <1>8, <1>10, <1>9 DEF Detect
  <1>11. QED
    BY <1>1, <1>2, <1>10

----------------------------------------------------------------------------
(* The evidence gate, and verdicts that stay. *)

\* The triager is at work on findings without a verdict only, and has seen the
\* evidence for what it says.
TriagerInv ==
  /\ triager.todo \subseteq Undecided
  /\ triager.pc \in {"context", "verdict"} =>
       /\ triager.cur \in Undecided \ triager.todo
       /\ triager.says = "confirm" => GateKinds(triager.cur, EvidenceOf(triager.cur))

\* A finding that is being fixed is past the gate.
FixInv ==
  \A r \in Request : Fixing(r) => StateOf(fix[r].finding) \in {"confirmed", "published"}

GateInv == TypeInv /\ TriagerInv /\ FixInv /\ EvidenceGate

\* More evidence never takes a finding back through the gate.
LEMMA GateGrows ==
  ASSUME evidence \subseteq evidence', NEW f \in Fingerprint,
         GateKinds(f, EvidenceOf(f))
  PROVE  GateKinds(f, EvidenceOf(f)')
  <1>1. Kinds(EvidenceOf(f)) \subseteq Kinds(EvidenceOf(f)')
    BY DEF Kinds, EvidenceOf
  <1>2. QED
    BY <1>1 DEF GateKinds, HasReach, HasTrust

LEMMA InitGateInv == Init => GateInv
  <1> SUFFICES ASSUME Init PROVE GateInv
    OBVIOUS
  <1>1. TypeInv
    BY InitTypeInv
  <1>2. TriagerInv
    BY DEF Init, Resting, TriagerInv
  <1>3. FixInv
    BY DEF Init, FixInv, Fixing
  <1>4. \A f \in Fingerprint : StateOf(f) = "absent"
    BY DEF Init, ResultsInit, NoFinding, StateOf
  <1>5. EvidenceGate
    BY <1>4 DEF EvidenceGate
  <1>6. QED
    BY <1>1, <1>2, <1>3, <1>5 DEF GateInv

\* Detectors that write to a finding while it is judged or fixed add to its
\* evidence and leave its state.
LEMMA DetectGateInv ==
  ASSUME GateInv, Detect \/ Write \/ UNCHANGED vars
  PROVE  /\ TriagerInv' /\ FixInv' /\ EvidenceGate'
         /\ \A f \in Fingerprint : StateOf(f) # "absent" => StateOf(f)' = StateOf(f)
  <1>1. TypeInv
    BY DEF GateInv
  <1>2. /\ UNCHANGED <<triager, fix>> /\ evidence \subseteq evidence'
        /\ findings' = findings \/ \E hit \in Hit : UpsertFinding(hit)
    BY <1>1, DetectSteps
  <1>3. \A f \in Fingerprint :
          /\ findings'[f].verdict = findings[f].verdict
          /\ \/ StateOf(f)' = StateOf(f)
             \/ StateOf(f) = "absent" /\ StateOf(f)' \in {"candidate", "recorded"}
    BY <1>1, <1>2, UpsertStates DEF StateOf
  <1>4. \A f \in Fingerprint :
          GateKinds(f, EvidenceOf(f)) => GateKinds(f, EvidenceOf(f)')
    BY <1>2, GateGrows
  <1>5. Undecided \subseteq Undecided'
    BY <1>3 DEF Undecided, FindingsIn
  <1>6. triager.cur \in Fingerprint
    BY <1>1 DEF TypeInv, TypeOK
  <1>7. TriagerInv'
    BY <1>2, <1>4, <1>5, <1>6 DEF GateInv, TriagerInv
  <1>8. FixInv'
    <2>1. SUFFICES ASSUME NEW r \in Request, Fixing(r)'
                   PROVE  (StateOf(fix[r].finding) \in {"confirmed", "published"})'
      BY DEF FixInv
    <2> DEFINE f == fix[r].finding
    <2>2. f \in Fingerprint /\ fix'[r].finding = f /\ Fixing(r)
      BY <1>1, <1>2, <2>1 DEF Fixing, TypeInv, TypeOK
    <2>3. StateOf(f) \in {"confirmed", "published"}
      BY <2>2 DEF GateInv, FixInv
    <2>4. StateOf(f)' \in {"confirmed", "published"}
      BY <1>3, <2>2, <2>3
    <2>5. QED
      BY <1>2, <2>4 DEF StateOf
  <1>9. EvidenceGate'
    BY <1>3, <1>4 DEF GateInv, EvidenceGate
  <1>10. QED
    BY <1>3, <1>7, <1>8, <1>9

\* The triager.
LEMMA JudgeGateInv ==
  ASSUME GateInv, Judge
  PROVE  /\ TriagerInv' /\ FixInv' /\ EvidenceGate'
         /\ \A f \in Fingerprint :
              \/ StateOf(f)' = StateOf(f)
              \/ f \in Undecided /\ StateOf(f)' # "absent"
  <1>1. /\ TypeInv /\ fix' = fix /\ triager.cur \in Fingerprint
        /\ triager \in Triager
    BY DEF GateInv, TypeInv, TypeOK, Judge, ListFindings, ReadEvidence, AddContext,
           GiveVerdict, NoteGap, CloseTriage, EnqueueReporter, TriageRaise, fixing,
           Triager
  <1>2. /\ evidence \subseteq evidence'
        /\ findings' = findings \/ GiveVerdict
    BY DEF Judge, ListFindings, ReadEvidence, AddContext, GiveVerdict, NoteGap,
           AddRuleGap, CloseTriage, EnqueueReporter, TriageRaise, results, AddEvidence,
           SetVerdict
  <1>3. \A f \in Fingerprint :
          GateKinds(f, EvidenceOf(f)) => GateKinds(f, EvidenceOf(f)')
    BY <1>2, GateGrows
  <1>4. CASE findings' = findings
    <2>1. UNCHANGED Undecided /\ \A f \in Fingerprint : StateOf(f)' = StateOf(f)
      BY <1>4 DEF Undecided, FindingsIn, StateOf
    <2>2. FixInv' /\ EvidenceGate'
      BY <1>1, <1>3, <1>4, <2>1
      DEF GateInv, FixInv, Fixing, EvidenceGate, TypeInv, TypeOK
    <2>3. CASE ListFindings
      <3>1. triager' = [triager EXCEPT !.pc = "each", !.todo = Undecided]
        BY <2>3 DEF ListFindings
      <3>2. triager'.pc = "each" /\ triager'.todo = Undecided
        BY <1>1, <3>1, Zenon DEF Triager
      <3>3. QED
        BY <2>1, <2>2, <3>2 DEF TriagerInv
    <2>4. CASE ReadEvidence
      <3>1. PICK f \in triager.todo :
              triager' = [pc |-> IF f \in InDocs /\ Judgement(f, EvidenceOf(f)) # "reject"
                                 THEN "context" ELSE "verdict",
                          todo |-> triager.todo \ {f}, cur |-> f,
                          says |-> Judgement(f, EvidenceOf(f))]
        BY <2>4, Zenon DEF ReadEvidence
      <3>2. Judgement(f, EvidenceOf(f)) = "confirm" => GateKinds(f, EvidenceOf(f))
        BY DEF Judgement
      <3>3. /\ triager'.todo = triager.todo \ {f} /\ triager'.cur = f
            /\ triager'.says = Judgement(f, EvidenceOf(f))
        BY <3>1
      <3>4. f \in Fingerprint /\ triager.todo \subseteq Undecided
        BY <1>1 DEF GateInv, TriagerInv, Triager
      <3>5. QED
        BY <1>3, <2>1, <2>2, <3>2, <3>3, <3>4 DEF TriagerInv
    <2>5. CASE AddContext
      <3>1. triager' = [triager EXCEPT !.pc = "verdict"] /\ triager.pc = "context"
        BY <2>5 DEF AddContext
      <3>2. /\ triager'.todo = triager.todo /\ triager'.cur = triager.cur
            /\ triager'.says = triager.says
        BY <1>1, <3>1 DEF Triager
      <3>3. QED
        BY <1>1, <1>3, <2>1, <2>2, <3>1, <3>2 DEF GateInv, TriagerInv
    <2>6. CASE NoteGap
      <3>1. triager'.pc = "each" /\ triager'.todo = triager.todo
        BY <2>6 DEF NoteGap, NextFinding, Resting
      <3>2. QED
        BY <2>1, <2>2, <3>1 DEF GateInv, TriagerInv
    <2>7. CASE CloseTriage
      <3>1. triager'.pc = "advance" /\ triager'.todo = triager.todo
        BY <1>1, <2>7 DEF CloseTriage, Triager
      <3>2. QED
        BY <2>1, <2>2, <3>1 DEF GateInv, TriagerInv
    <2>8. CASE EnqueueReporter \/ TriageRaise
      <3>1. triager'.pc = "idle" /\ triager'.todo = {}
        BY <2>8 DEF EnqueueReporter, TriageRaise, Resting
      <3>2. QED
        BY <2>1, <2>2, <3>1 DEF TriagerInv
    <2>9. CASE GiveVerdict
      <3>1. triager'.pc \in {"each", "gap"} /\ triager'.todo = triager.todo
        BY <1>1, <2>9 DEF GiveVerdict, NextFinding, Resting, Triager
      <3>2. QED
        BY <2>1, <2>2, <3>1 DEF GateInv, TriagerInv
    <2>10. QED
      BY <2>1, <2>2, <2>3, <2>4, <2>5, <2>6, <2>7, <2>8, <2>9 DEF Judge
  <1>5. CASE GiveVerdict
    <2> DEFINE c == triager.cur
    <2>1. c \in Undecided \ triager.todo
      BY <1>5 DEF GiveVerdict, GateInv, TriagerInv
    <2>2. PICK verdict, state :
            /\ SetVerdict(c, verdict, state)
            /\ state \in {"confirmed", "needs-review", "recorded"}
            /\ state = "confirmed" => verdict = "true-positive" /\ Confirmed
      <3>1. Confirmed => triager.says # "reject"
        BY DEF Confirmed
      <3>2. CASE Confirmed
        <4>1. SetVerdict(c, "true-positive", "confirmed")
          BY <1>5, <3>1, <3>2 DEF GiveVerdict
        <4>2. QED
          BY <3>2, <4>1
      <3>3. CASE ~Confirmed /\ triager.says # "reject"
        <4>1. SetVerdict(c, "needs-review", "needs-review")
          BY <1>5, <3>3 DEF GiveVerdict
        <4>2. QED
          BY <4>1
      <3>4. CASE triager.says = "reject"
        <4>1. SetVerdict(c, "false-positive", "recorded")
          BY <1>5, <3>1, <3>4 DEF GiveVerdict
        <4>2. QED
          BY <4>1
      <3>5. QED
        BY <3>2, <3>3, <3>4
    <2>3. \A f \in Fingerprint :
            IF f = c THEN StateOf(f)' = state /\ findings'[f].verdict = verdict
                     ELSE findings'[f] = findings[f]
      BY <1>1, <2>2, VerdictStates
    <2>4. triager'.pc \in {"each", "gap"} /\ triager'.todo = triager.todo
      BY <1>1, <1>5 DEF GiveVerdict, NextFinding, Resting, Triager
    <2>5. TriagerInv'
      BY <2>1, <2>3, <2>4 DEF GateInv, TriagerInv, Undecided, FindingsIn, StateOf
    <2>6. FixInv'
      BY <1>1, <2>1, <2>3, ZenonT(60)
      DEF GateInv, FixInv, Fixing, Undecided, FindingsIn, StateOf, TypeInv, TypeOK
    <2>7. \A f \in Fingerprint :
            f = c /\ state = "confirmed" => GateKinds(f, EvidenceOf(f)')
      <3>1. triager.pc = "verdict"
        BY <1>5 DEF GiveVerdict
      <3>2. triager.says = "confirm" => GateKinds(c, EvidenceOf(c))
        BY <3>1 DEF GateInv, TriagerInv
      <3>3. state = "confirmed" => GateKinds(c, EvidenceOf(c))
        BY <2>2, <3>2 DEF Confirmed
      <3>4. QED
        BY <1>3, <3>3
    <2>8. EvidenceGate'
      <3>1. SUFFICES ASSUME NEW f \in Fingerprint,
                            (StateOf(f) \in {"confirmed", "published"})'
                     PROVE  (findings[f].verdict = "true-positive"
                             /\ GateKinds(f, EvidenceOf(f)))'
        BY DEF EvidenceGate
      <3>2. CASE f = c
        <4>1. state = "confirmed" /\ findings'[f].verdict = verdict
          BY <2>2, <2>3, <3>1, <3>2
        <4>2. verdict = "true-positive" /\ GateKinds(f, EvidenceOf(f)')
          <5>1. verdict = "true-positive"
            BY <2>2, <4>1
          <5>2. GateKinds(f, EvidenceOf(f)')
            BY <2>7, <3>2, <4>1
          <5>3. QED
            BY <5>1, <5>2
        <4>3. QED
          BY <4>1, <4>2 DEF GateKinds, HasReach, HasTrust
      <3>3. CASE f # c
        <4>1. findings'[f] = findings[f]
          BY <2>3, <3>3
        <4>2. findings[f].verdict = "true-positive" /\ GateKinds(f, EvidenceOf(f))
          BY <3>1, <4>1 DEF GateInv, EvidenceGate, StateOf
        <4>3. QED
          BY <1>3, <4>1, <4>2 DEF GateKinds, HasReach, HasTrust
      <3>4. QED
        BY <3>2, <3>3
    <2>9. QED
      BY <2>1, <2>2, <2>3, <2>5, <2>6, <2>8 DEF StateOf
  <1>6. QED
    BY <1>2, <1>4, <1>5

\* Operators and autofix.
LEMMA RepairGateInv ==
  ASSUME GateInv, Repair
  PROVE  /\ TriagerInv' /\ FixInv' /\ EvidenceGate'
         /\ \A f \in Fingerprint :
              \/ StateOf(f)' = StateOf(f)
              \/ StateOf(f) = "confirmed" /\ StateOf(f)' = "published"
  <1>1. PICK r \in Request :
          (\E f \in Fingerprint : OpenFix(r, f)) \/ ApplyFix(r) \/ DiffTree(r)
          \/ Branch(r) \/ PublishFix(r) \/ RaiseFix(r)
    BY DEF Repair
  <1>2. /\ TypeInv /\ triager' = triager /\ evidence' = evidence
        /\ fix[r].finding \in Fingerprint
        /\ \A q \in Request : fix[q] \in [pc : {"idle", "apply", "diff", "branch",
                                             "publish", "done"},
                                       finding : Fingerprint]
    BY <1>1 DEF GateInv, TypeInv, TypeOK, OpenFix, ApplyFix, DiffTree, Branch,
                PublishFix, RaiseFix, SetVerdict, results, judging
  <1> DEFINE g == fix[r].finding
  <1>3. CASE findings' = findings
    <2>1. UNCHANGED Undecided /\ \A f \in Fingerprint : StateOf(f)' = StateOf(f)
      BY <1>3 DEF Undecided, FindingsIn, StateOf
    <2>2. TriagerInv' /\ EvidenceGate'
      BY <1>2, <1>3, <2>1 DEF GateInv, TriagerInv, EvidenceGate, EvidenceOf, StateOf
    <2>3. \A q \in Request :
            Fixing(q)' => \/ Fixing(q) /\ fix'[q].finding = fix[q].finding
                         \/ StateOf(fix'[q].finding) = "confirmed"
      <3>1. ASSUME NEW f \in Fingerprint, OpenFix(r, f)
            PROVE  fix' = [fix EXCEPT ![r] = [pc |-> "apply", finding |-> f]]
                   /\ StateOf(f) = "confirmed"
        BY <3>1 DEF OpenFix
      <3>2. ASSUME ApplyFix(r) \/ DiffTree(r) \/ Branch(r) \/ PublishFix(r) \/ RaiseFix(r)
            PROVE  /\ Fixing(r)
                   /\ \/ EndFix(r)
                      \/ \E label : GotoFix(r, label)
        BY <3>2 DEF ApplyFix, DiffTree, Branch, PublishFix, RaiseFix, Fixing
      <3>3. QED
        <4>1. CASE \E f \in Fingerprint : OpenFix(r, f)
          <5>1. PICK f \in Fingerprint :
                  /\ fix' = [fix EXCEPT ![r] = [pc |-> "apply", finding |-> f]]
                  /\ StateOf(f) = "confirmed"
            BY <3>1, <4>1
          <5>2. \A q \in Request : fix'[q] = IF q = r THEN [pc |-> "apply", finding |-> f]
                                            ELSE fix[q]
            BY <1>2, <5>1 DEF GateInv, TypeInv, TypeOK
          <5>3. QED
            BY <5>1, <5>2 DEF Fixing
        <4>2. CASE EndFix(r)
          <5>1. \A q \in Request : fix'[q].pc = "done" \/ fix'[q] = fix[q]
            BY <1>2, <4>2 DEF EndFix, GateInv, TypeInv, TypeOK
          <5>2. QED
            BY <5>1 DEF Fixing
        <4>3. ASSUME Fixing(r), NEW label, GotoFix(r, label)
              PROVE  \A q \in Request :
                       Fixing(q)' => Fixing(q) /\ fix'[q].finding = fix[q].finding
          <5>1. \A q \in Request : fix'[q] = IF q = r THEN [fix[r] EXCEPT !.pc = label]
                                            ELSE fix[q]
            BY <1>2, <4>3 DEF GotoFix, GateInv, TypeInv, TypeOK
          <5>2. fix'[r].finding = fix[r].finding
            BY <1>2, <5>1
          <5>3. QED
            BY <4>3, <5>1, <5>2 DEF Fixing
        <4>4. QED
          BY <1>1, <3>2, <4>1, <4>2, <4>3
    <2>4. FixInv'
      BY <1>3, <2>3 DEF GateInv, FixInv, StateOf
    <2>5. QED
      BY <2>1, <2>2, <2>4
  <1>4. CASE PublishFix(r)
    <2>1. /\ SetVerdict(g, "true-positive", "published")
          /\ EndFix(r) /\ Fixing(r)
      BY <1>4 DEF PublishFix, Fixing
    <2>2. StateOf(g) \in {"confirmed", "published"}
      BY <2>1 DEF GateInv, FixInv
    <2>3. \A f \in Fingerprint :
            IF f = g THEN StateOf(f)' = "published" /\ findings'[f].verdict = "true-positive"
                     ELSE findings'[f] = findings[f]
      BY <1>2, <2>1, VerdictStates
    <2>4. \A f \in Undecided : f \in Undecided' /\ f # g
      BY <2>2, <2>3 DEF Undecided, FindingsIn, StateOf
    <2>5. TriagerInv'
      BY <1>2, <2>4 DEF GateInv, TriagerInv, EvidenceOf
    <2>6. FixInv'
      <3>1. \A q \in Request : Fixing(q)' => Fixing(q) /\ fix'[q] = fix[q]
        BY <1>2, <2>1 DEF EndFix, Fixing, GateInv, TypeInv, TypeOK
      <3>2. QED
        BY <1>2, <2>3, <3>1 DEF GateInv, FixInv, StateOf
    <2>7. EvidenceGate'
      BY <1>2, <2>2, <2>3 DEF GateInv, EvidenceGate, StateOf, EvidenceOf
    <2>8. QED
      BY <2>2, <2>3, <2>5, <2>6, <2>7 DEF StateOf
  <1>5. QED
    BY <1>1, <1>3, <1>4 DEF OpenFix, ApplyFix, DiffTree, Branch, RaiseFix, results

\* GateInv is inductive, and its steps leave verdicts alone.
LEMMA NextGateInv ==
  ASSUME GateInv, [Next]_vars
  PROVE  /\ GateInv'
         /\ \A f \in Fingerprint :
              /\ StateOf(f) \in {"recorded", "published"} => StateOf(f)' = StateOf(f)
              /\ StateOf(f) = "confirmed" => StateOf(f)' \in {"confirmed", "published"}
  <1>1. TypeInv'
    BY NextTypeInv DEF GateInv
  <1>2. CASE Detect \/ Write \/ UNCHANGED vars
    BY <1>1, <1>2, DetectGateInv DEF GateInv
  <1>3. CASE Judge
    BY <1>1, <1>3, JudgeGateInv DEF GateInv, Undecided, FindingsIn
  <1>4. CASE Repair
    BY <1>1, <1>4, RepairGateInv DEF GateInv
  <1>5. QED
    BY <1>2, <1>3, <1>4 DEF Next

\* Principle I of the constitution, for any detectors and any interleaving: a
\* finding that is confirmed or published has the verdict and the evidence.
THEOREM EvidenceBeforeVerdict == Spec => []EvidenceGate
  <1>1. Spec => []GateInv
    BY InitGateInv, NextGateInv, PTL DEF Spec
  <1>2. QED
    BY <1>1, PTL DEF GateInv

\* No detector, no triager that is run again and no fix turns a verdict back.
THEOREM VerdictsAreFinal == Spec => VerdictsStay
  <1>1. Spec => []GateInv
    BY InitGateInv, NextGateInv, PTL DEF Spec
  <1>2. GateInv /\ [Next]_vars =>
          [\A f \in Fingerprint :
             /\ StateOf(f) \in {"recorded", "published"} => StateOf(f)' = StateOf(f)
             /\ StateOf(f) = "confirmed" => StateOf(f)' \in {"confirmed", "published"}]_vars
    BY NextGateInv
  <1>3. QED
    BY <1>1, <1>2, PTL DEF Spec, VerdictsStay

----------------------------------------------------------------------------
(* The report. *)

\* The triager has the locals that go with the state of its task, and is
\* through when the reporter comes into being.
StagesInv ==
  /\ triager.pc = "advance" => triage = "closed"
  /\ triager.pc \in {"each", "context", "verdict", "gap"} => triage = "claimed"
  /\ report # "none" => triage = "closed" /\ triager.pc = "idle"

\* What has been listed is still so, but that it may have been fixed.
StillTrue(list) ==
  \A f \in Fingerprint : list[f] # "absent" =>
    StateOf(f) \in {list[f]} \cup (IF list[f] = "confirmed" THEN {"published"} ELSE {})

ReportInv ==
  /\ StagesInv
  /\ report = "none" => listing = NotListed /\ reported = NotListed
  /\ StillTrue(listing) /\ StillTrue(reported)

LEMMA InitReportInv == Init => ReportInv
  BY DEF Init, ReportInv, StagesInv, StillTrue, NotListed, Resting

\* The stages, step by step.
LEMMA NextStagesInv ==
  ASSUME TypeInv, StagesInv, [Next]_vars
  PROVE  StagesInv'
  <1>1. triager \in Triager
    BY DEF TypeInv, TypeOK, Triager
  <1>2. CASE UNCHANGED <<triage, triager, report>>
    BY <1>2 DEF StagesInv
  <1>3. ASSUME NEW w \in Worker, Advance(w) PROVE StagesInv'
    BY <1>1, <1>3 DEF Advance, StagesInv, reporting, Triager
  <1>4. CASE ListFindings
    <2>1. triager'.pc = "each" /\ triage' = "claimed" /\ report' = report
      BY <1>1, <1>4 DEF ListFindings, reporting, Triager
    <2>2. QED
      BY <1>4, <2>1 DEF ListFindings, StagesInv
  <1>5. CASE ReadEvidence \/ AddContext \/ GiveVerdict \/ NoteGap
    <2>1. /\ triager.pc \in {"each", "context", "verdict", "gap"}
          /\ triage' = triage /\ report' = report
      BY <1>5 DEF ReadEvidence, AddContext, GiveVerdict, NoteGap, reporting
    <2>2. CASE ReadEvidence
      BY <2>1, <2>2 DEF ReadEvidence, StagesInv
    <2>3. CASE AddContext \/ GiveVerdict \/ NoteGap
      <3>1. triager'.pc \in {"each", "verdict", "gap"}
        BY <1>1, <2>3 DEF AddContext, GiveVerdict, NoteGap, NextFinding, Resting,
                          Triager
      <3>2. QED
        BY <2>1, <3>1 DEF StagesInv
    <2>4. QED
      BY <1>5, <2>2, <2>3
  <1>6. CASE CloseTriage
    <2>1. triager'.pc = "advance" /\ triage' = "closed" /\ report' = report
      BY <1>1, <1>6 DEF CloseTriage, reporting, Triager
    <2>2. QED
      BY <1>6, <2>1 DEF CloseTriage, StagesInv
  <1>7. CASE EnqueueReporter
    BY <1>7 DEF EnqueueReporter, StagesInv, Resting
  <1>8. CASE TriageRaise
    BY <1>8 DEF TriageRaise, StagesInv, Resting, reporting
  <1>9. CASE Write
    BY <1>9 DEF Write, ListSurvivors, WriteReport, ReportRaise, StagesInv, judging
  <1>10. CASE Detect /\ ~\E w \in Worker : Advance(w)
    <2>1. UNCHANGED <<triage, triager, report>>
      BY <1>10, ZenonT(60)
      DEF Detect, Begin, CoverRunning, Answer, Sweep, ModelDown, RecordDown,
          WriteFinding, WriteEvidence, Cover, Synthesize, Complete, Raise, Lapse,
          RunTool, OpenReport, EndReport, FailReport, ReadReport, UnlinkReport,
          Tamper, judging, reporting
    <2>2. QED
      BY <1>2, <2>1
  <1>11. CASE Repair
    <2>1. UNCHANGED <<triage, triager, report>>
      BY <1>11 DEF Repair, OpenFix, ApplyFix, DiffTree, Branch, PublishFix, RaiseFix,
                   judging, reporting
    <2>2. QED
      BY <1>2, <2>1
  <1>12. CASE UNCHANGED vars
    BY <1>2, <1>12 DEF vars, judging, reporting
  <1>13. QED
    BY <1>3, <1>4, <1>5, <1>6, <1>7, <1>8, <1>9, <1>10, <1>11, <1>12 DEF Next, Judge

LEMMA NextReportInv ==
  ASSUME GateInv, ReportInv, [Next]_vars
  PROVE  ReportInv'
  <1>1. /\ TypeInv /\ StagesInv /\ StagesInv'
    BY NextStagesInv DEF GateInv, ReportInv
  <1>2. \A f \in Fingerprint :
          /\ listing[f] \in Survivors \cup {"absent"}
          /\ reported[f] \in Survivors \cup {"absent"}
    BY <1>1 DEF TypeInv, TypeOK
  <1>3. \A f \in Fingerprint :
          report # "none" /\ StateOf(f) # "absent" =>
            \/ StateOf(f)' = StateOf(f)
            \/ StateOf(f) = "confirmed" /\ StateOf(f)' = "published"
    <2>1. CASE Detect \/ Write \/ UNCHANGED vars
      BY <2>1, DetectGateInv
    <2>2. CASE Judge
      <3>1. report = "none"
        BY <1>1, <2>2 DEF Judge, ListFindings, ReadEvidence, AddContext, GiveVerdict,
                          NoteGap, CloseTriage, EnqueueReporter, TriageRaise, StagesInv
      <3>2. QED
        BY <3>1
    <2>3. CASE Repair
      BY <2>3, RepairGateInv
    <2>4. QED
      BY <2>1, <2>2, <2>3 DEF Next
  <1>4. CASE Write
    <2>1. report # "none"
      BY <1>4 DEF Write, ListSurvivors, WriteReport, ReportRaise
    <2>2. report' # "none" /\ \A f \in Fingerprint : StateOf(f)' = StateOf(f)
      BY <1>4 DEF Write, ListSurvivors, WriteReport, ReportRaise, results, StateOf
    <2>3. \/ listing' = listing /\ reported' \in {reported, listing}
          \/ /\ reported' = reported
             /\ listing' = [f \in Fingerprint |->
                              IF StateOf(f) \in Survivors THEN StateOf(f) ELSE "absent"]
      BY <1>4 DEF Write, ListSurvivors, WriteReport, ReportRaise
    <2>4. QED
      BY <1>1, <2>2, <2>3 DEF ReportInv, StillTrue
  <1>5. CASE ~Write
    <2>1. listing' = listing /\ reported' = reported
      BY <1>5, ZenonT(60)
      DEF Next, Detect, Begin, CoverRunning, Answer, Sweep, ModelDown, RecordDown,
          WriteFinding, WriteEvidence, Cover, Synthesize, Complete, Advance, Raise,
          Lapse, RunTool, OpenReport, EndReport, FailReport, ReadReport,
          UnlinkReport, Tamper, Judge, ListFindings, ReadEvidence, AddContext,
          GiveVerdict, NoteGap, CloseTriage, EnqueueReporter, TriageRaise, Repair,
          OpenFix, ApplyFix, DiffTree, Branch, PublishFix, RaiseFix, vars, reporting
    <2>2. CASE report = "none"
      <3>1. \A f \in Fingerprint : listing'[f] = "absent" /\ reported'[f] = "absent"
        BY <2>1, <2>2 DEF ReportInv, NotListed
      <3>2. QED
        BY <1>1, <2>1, <2>2, <3>1 DEF ReportInv, StillTrue
    <2>3. CASE report # "none"
      <3>1. report' # "none"
        BY <1>5, <2>3, ZenonT(60)
        DEF Next, Detect, Begin, CoverRunning, Answer, Sweep, ModelDown, RecordDown,
            WriteFinding, WriteEvidence, Cover, Synthesize, Complete, Advance,
            Raise, Lapse, RunTool, OpenReport, EndReport, FailReport, ReadReport,
            UnlinkReport, Tamper, Judge, ListFindings, ReadEvidence, AddContext,
            GiveVerdict, NoteGap, CloseTriage, EnqueueReporter, TriageRaise, Repair,
            OpenFix, ApplyFix, DiffTree, Branch, PublishFix, RaiseFix, vars,
            reporting
      <3>2. \A f \in Fingerprint :
              /\ listing[f] # "absent" => StateOf(f) # "absent"
              /\ reported[f] # "absent" => StateOf(f) # "absent"
        BY <1>2 DEF ReportInv, StillTrue, Survivors
      <3>3. StillTrue(listing)' /\ StillTrue(reported)'
        BY <1>2, <1>3, <2>1, <2>3, <3>2, ZenonT(60)
        DEF ReportInv, StillTrue, StateOf, Survivors
      <3>4. QED
        BY <1>1, <3>1, <3>3 DEF ReportInv
    <2>4. QED
      BY <2>2, <2>3
  <1>6. QED
    BY <1>4, <1>5

\* What a report says of a finding stays true but for a fix, whatever detectors
\* and triagers are run again.
THEOREM ReportsStay == Spec => []ReportStays
  <1>1. Init => GateInv /\ ReportInv
    BY InitGateInv, InitReportInv
  <1>2. GateInv /\ ReportInv /\ [Next]_vars => (GateInv /\ ReportInv)'
    BY NextGateInv, NextReportInv
  <1>3. ReportInv => ReportStays
    BY DEF ReportInv, StillTrue, ReportStays
  <1>4. QED
    BY <1>1, <1>2, <1>3, PTL DEF Spec

----------------------------------------------------------------------------
(* The patches, while requests to fix come one after the other. *)

\* What a request publishes it has written.
EditsInv ==
  /\ \A r \in Request :
       fix[r].pc \in {"diff", "branch", "publish"} => edits[fix[r].finding] > 0
  /\ \A f \in Fingerprint : StateOf(f) = "published" => edits[f] > 0

\* Findings whose fix a patch should carry.
Visible == Fingerprint \ (Unbumped \cup Unseen)

\* At most one request is at work; what it has written, once, is in the work
\* tree until it is in the patch.
PatchInv ==
  /\ EditsInv
  /\ ~overlap =>
       /\ \A q, r \in Request : Fixing(q) /\ Fixing(r) => q = r
       /\ \A r \in Request :
            fix[r].finding \in Visible /\ edits[fix[r].finding] = 1 =>
              /\ fix[r].pc = "diff" => fix[r].finding \in tree
              /\ fix[r].pc \in {"branch", "publish"} =>
                   fix[r].finding \in patch[fix[r].finding]

\* Only a request publishes a finding.
LEMMA OthersDoNotPublish ==
  ASSUME GateInv, [Next]_vars, ~Repair
  PROVE  /\ UNCHANGED fixing
         /\ \A f \in Fingerprint : StateOf(f)' = "published" => StateOf(f) = "published"
  <1>1. TypeInv
    BY DEF GateInv
  <1>2. UNCHANGED fixing
    BY ZenonT(60)
    DEF Next, Detect, Begin, CoverRunning, Answer, Sweep, ModelDown, RecordDown,
        WriteFinding, WriteEvidence, Cover, Synthesize, Complete, Advance, Raise,
        Lapse, RunTool, OpenReport, EndReport, FailReport, ReadReport, UnlinkReport,
        Tamper, Judge, ListFindings, ReadEvidence, AddContext, GiveVerdict, NoteGap,
        CloseTriage, EnqueueReporter, TriageRaise, Write, ListSurvivors,
        WriteReport, ReportRaise, vars
  <1>3. CASE Detect \/ Write \/ UNCHANGED vars
    <2>1. findings' = findings \/ \E hit \in Hit : UpsertFinding(hit)
      BY <1>1, <1>3, DetectSteps
    <2>2. CASE findings' = findings
      BY <1>2, <2>2 DEF StateOf
    <2>3. ASSUME NEW hit \in Hit, UpsertFinding(hit), NEW f \in Fingerprint
          PROVE  StateOf(f)' = "published" => StateOf(f) = "published"
      BY <1>1, <2>3, UpsertStates
    <2>4. QED
      BY <1>2, <2>1, <2>2, <2>3
  <1>4. CASE Judge
    <2>1. CASE findings' = findings
      BY <1>2, <2>1 DEF StateOf
    <2>2. CASE GiveVerdict
      <3> DEFINE c == triager.cur
      <3>1. \/ SetVerdict(c, "true-positive", "confirmed")
            \/ SetVerdict(c, "needs-review", "needs-review")
            \/ SetVerdict(c, "false-positive", "recorded")
        BY <2>2, Zenon DEF GiveVerdict
      <3>2. c \in Fingerprint
        BY <1>1 DEF TypeInv, TypeOK
      <3>3. ASSUME NEW verdict, NEW state \in {"confirmed", "needs-review", "recorded"},
                   SetVerdict(c, verdict, state), NEW f \in Fingerprint
            PROVE  StateOf(f)' = "published" => StateOf(f) = "published"
        <4> HIDE DEF c
        <4>1. IF f = c THEN StateOf(f)' = state ELSE findings'[f] = findings[f]
          BY <1>1, <3>2, <3>3, VerdictStates
        <4>2. QED
          BY <3>3, <4>1 DEF StateOf
      <3> HIDE DEF c
      <3>4. QED
        BY <1>2, <3>1, <3>3
    <2>3. QED
      BY <1>4, <2>1, <2>2 DEF Judge, ListFindings, ReadEvidence, AddContext, NoteGap,
                              CloseTriage, EnqueueReporter, TriageRaise, AddEvidence,
                              AddRuleGap, results
  <1>5. QED
    BY <1>3, <1>4 DEF Next

\* Requests write a fix before they publish it.
LEMMA EditsStay ==
  ASSUME GateInv, EditsInv, [Next]_vars
  PROVE  EditsInv'
  <1> DEFINE Locals == [pc : {"idle", "apply", "diff", "branch", "publish", "done"},
                        finding : Fingerprint]
  <1>1. /\ TypeInv /\ fix \in [Request -> Locals] /\ edits \in [Fingerprint -> Nat]
    BY DEF GateInv, TypeInv, TypeOK
  <1>2. CASE ~Repair
    BY <1>2, OthersDoNotPublish DEF EditsInv, fixing
  <1>3. ASSUME NEW r \in Request,
               \/ \E f \in Fingerprint : OpenFix(r, f)
               \/ ApplyFix(r) \/ DiffTree(r) \/ Branch(r) \/ PublishFix(r) \/ RaiseFix(r)
        PROVE  EditsInv'
    <2> DEFINE g == fix[r].finding
    <2>1. g \in Fingerprint
      BY <1>1
    <2>2. ASSUME NEW f \in Fingerprint, edits[f] > 0
          PROVE  edits'[f] > 0
      <3>1. edits' = edits \/ edits' = [edits EXCEPT ![g] = @ + 1]
        BY <1>3 DEF OpenFix, ApplyFix, WriteFix, DiffTree, Branch, PublishFix, RaiseFix
      <3>2. edits[f] \in Nat /\ (edits'[f] = edits[f] \/ edits'[f] = edits[f] + 1)
        BY <1>1, <3>1
      <3>3. QED
        BY <2>2, <3>2
    <2>3. ASSUME NEW q \in Request, fix'[q].pc \in {"diff", "branch", "publish"}
          PROVE  edits'[fix'[q].finding] > 0
      <3>1. CASE q # r
        <4>1. fix'[q] = fix[q] /\ fix[q].finding \in Fingerprint
          BY <1>1, <1>3, <3>1
          DEF OpenFix, ApplyFix, DiffTree, Branch, PublishFix, RaiseFix, GotoFix, EndFix
        <4>2. edits[fix[q].finding] > 0
          BY <2>3, <4>1 DEF EditsInv
        <4>3. QED
          BY <2>2, <4>1, <4>2
      <3>2. CASE q = r
        <4>1. CASE \E f \in Fingerprint : OpenFix(r, f)
          BY <1>1, <2>3, <3>2, <4>1 DEF OpenFix
        <4>2. CASE EndFix(r)
          BY <1>1, <2>3, <3>2, <4>2 DEF EndFix
        <4>3. CASE WriteFix(g) /\ GotoFix(r, "diff")
          <5>1. fix'[r].finding = g /\ edits'[g] = edits[g] + 1
            BY <1>1, <2>1, <4>3 DEF GotoFix, WriteFix
          <5>2. QED
            BY <1>1, <2>1, <3>2, <5>1
        <4>4. CASE \E label : GotoFix(r, label) /\ fix[r].pc \in {"diff", "branch"}
          <5>1. fix'[r].finding = g
            BY <1>1, <4>4 DEF GotoFix
          <5>2. edits[g] > 0
            BY <4>4 DEF EditsInv
          <5>3. QED
            BY <2>1, <2>2, <3>2, <5>1, <5>2
        <4>5. QED
          BY <1>3, <4>1, <4>2, <4>3, <4>4 DEF ApplyFix, DiffTree, Branch, PublishFix,
                                              RaiseFix
      <3>3. QED
        BY <3>1, <3>2
    <2>4. ASSUME NEW f \in Fingerprint, StateOf(f)' = "published"
          PROVE  edits'[f] > 0
      <3>1. CASE StateOf(f) = "published"
        BY <2>2, <3>1 DEF EditsInv
      <3>2. CASE StateOf(f) # "published"
        <4>1. PublishFix(r)
          BY <1>3, <2>4, <3>2
          DEF OpenFix, ApplyFix, DiffTree, Branch, RaiseFix, results, StateOf
        <4>2. SetVerdict(g, "true-positive", "published") /\ fix[r].pc = "publish"
          BY <4>1 DEF PublishFix
        <4>3. f = g
          <5> HIDE DEF g
          <5>1. f # g => findings'[f] = findings[f]
            BY <1>1, <2>1, <4>2, VerdictStates
          <5>2. QED
            BY <2>4, <3>2, <5>1 DEF StateOf
        <4>4. edits[g] > 0
          BY <4>2 DEF EditsInv
        <4>5. QED
          BY <2>1, <2>2, <4>3, <4>4
      <3>3. QED
        BY <3>1, <3>2
    <2>5. QED
      BY <2>3, <2>4 DEF EditsInv, StateOf
  <1>4. QED
    BY <1>2, <1>3 DEF Repair

LEMMA NextPatchInv ==
  ASSUME GateInv, PatchInv, PatchCarriesFix, [Next]_vars
  PROVE  PatchInv' /\ PatchCarriesFix'
  <1>1. EditsInv /\ EditsInv'
    BY EditsStay DEF PatchInv
  <1>2. CASE ~Repair
    <2>1. /\ UNCHANGED fixing
          /\ \A f \in Fingerprint : StateOf(f)' = "published" => StateOf(f) = "published"
      BY <1>2, OthersDoNotPublish
    <2>2. PatchInv'
      BY <1>1, <2>1 DEF PatchInv, Fixing, fixing
    <2>3. PatchCarriesFix'
      BY <2>1 DEF PatchCarriesFix, fixing
    <2>4. QED
      BY <2>2, <2>3
  <1>3. CASE Repair
    <2>1. PICK r \in Request :
            (\E f \in Fingerprint : OpenFix(r, f)) \/ ApplyFix(r) \/ DiffTree(r)
            \/ Branch(r) \/ PublishFix(r) \/ RaiseFix(r)
      BY <1>3 DEF Repair
    <2> DEFINE Locals == [pc : {"idle", "apply", "diff", "branch", "publish", "done"},
                          finding : Fingerprint]
    <2>2. /\ TypeInv /\ fix \in [Request -> Locals]
          /\ patch \in [Fingerprint -> SUBSET Fingerprint]
          /\ edits \in [Fingerprint -> Nat]
      BY DEF GateInv, TypeInv, TypeOK
    <2> DEFINE g == fix[r].finding
    <2>3. g \in Fingerprint
      BY <2>2
    <2>4. ASSUME NEW label, GotoFix(r, label), label \in {"diff", "branch", "publish"}
          PROVE  \A q \in Request : /\ fix'[q].finding = fix[q].finding
                                   /\ fix'[q].pc = IF q = r THEN label ELSE fix[q].pc
      BY <2>2, <2>4 DEF GotoFix
    <2>5. ASSUME EndFix(r)
          PROVE  \A q \in Request : /\ q # r => fix'[q] = fix[q]
                                   /\ fix'[r].pc = "done"
      BY <2>2, <2>5 DEF EndFix
    <2>6. ~overlap /\ Fixing(r) =>
            \A q \in Request : fix[q].pc \in {"apply", "diff", "branch", "publish"} => q = r
      BY DEF PatchInv, Fixing
    <2>7. CASE \E f \in Fingerprint : OpenFix(r, f)
      <3>1. PICK f \in Fingerprint : OpenFix(r, f)
        BY <2>7
      <3>2. \A q \in Request : fix'[q] = IF q = r THEN [pc |-> "apply", finding |-> f]
                                        ELSE fix[q]
        BY <2>2, <3>1 DEF OpenFix
      <3>3. overlap' = (overlap \/ \E q \in Request : Fixing(q))
            /\ UNCHANGED <<tree, patch, edits, results>>
        BY <3>1 DEF OpenFix
      <3>4. ~overlap' => ~overlap /\ \A q \in Request : ~Fixing(q)
        BY <3>3
      <3>5. \A q \in Request : q # r => Fixing(q)' = Fixing(q)
        BY <3>2 DEF Fixing
      <3>6. ~overlap' => \A q, p \in Request : (Fixing(q) /\ Fixing(p))' => q = p
        BY <3>4, <3>5
      <3>7. \A q \in Request : fix'[q].pc \in {"diff", "branch", "publish"} => fix'[q] = fix[q]
        BY <3>2
      <3>8. PatchInv'
        BY <1>1, <3>3, <3>4, <3>6, <3>7 DEF PatchInv
      <3>9. PatchCarriesFix'
        BY <3>3 DEF PatchCarriesFix, StateOf, results
      <3>10. QED
        BY <3>8, <3>9
    <2>8. CASE EndFix(r) /\ UNCHANGED <<results, tree, patch, edits, overlap>>
      <3>1. PatchInv'
        BY <1>1, <2>5, <2>8 DEF PatchInv, Fixing
      <3>2. PatchCarriesFix'
        BY <2>8 DEF PatchCarriesFix, StateOf, results
      <3>3. QED
        BY <3>1, <3>2
    <2>9. CASE WriteFix(g) /\ ApplyFix(r) /\ GotoFix(r, "diff")
      <3>1. /\ fix[r].pc = "apply" /\ UNCHANGED <<results, patch, overlap>>
            /\ edits' = [edits EXCEPT ![g] = edits[g] + 1]
            /\ edits[g] = 0 => tree' = tree \cup ({g} \ Unbumped)
        BY <2>2, <2>3, <2>9 DEF ApplyFix, WriteFix
      <3>2. \A f \in Fingerprint : edits'[f] = IF f = g THEN edits[g] + 1 ELSE edits[f]
        BY <2>2, <2>3, <3>1
      <3>3. ASSUME edits'[g] = 1
            PROVE  edits[g] = 0
        BY <2>2, <2>3, <3>2, <3>3
      <3>4. PatchCarriesFix'
        <4>1. SUFFICES ASSUME NEW f \in Visible, StateOf(f)' = "published", ~overlap',
                              edits'[f] = 1
                       PROVE  f \in patch'[f]
          BY DEF PatchCarriesFix, Visible
        <4>2. f \in Fingerprint /\ StateOf(f) = "published" /\ edits[f] > 0
          BY <1>1, <3>1, <4>1 DEF EditsInv, Visible, StateOf, results
        <4>3. f # g /\ edits[f] = 1
          BY <2>2, <3>2, <3>3, <4>1, <4>2
        <4>4. QED
          BY <3>1, <4>1, <4>2, <4>3 DEF PatchCarriesFix, Visible
      <3>5. \A q \in Request : Fixing(q)' => Fixing(q)
        BY <2>4, <2>9, <3>1 DEF Fixing
      <3>6. ASSUME ~overlap, NEW q \in Request, fix'[q].pc \in {"diff", "branch", "publish"}
            PROVE  q = r /\ fix'[q].pc = "diff" /\ fix'[q].finding = g
        BY <2>4, <2>9, <2>6, <3>1, <3>6 DEF Fixing
      <3>7. g \in Visible /\ edits'[g] = 1 => g \in tree'
        BY <3>1, <3>3 DEF Visible
      <3>8. PatchInv'
        BY <1>1, <3>1, <3>5, <3>6, <3>7 DEF PatchInv
      <3>9. QED
        BY <3>4, <3>8
    <2>10. CASE DiffTree(r)
      <3>1. /\ fix[r].pc = "diff" /\ UNCHANGED <<results, tree, edits, overlap>>
            /\ GotoFix(r, "branch")
        BY <2>10 DEF DiffTree
      <3>2. PICK missed \in SUBSET Unseen : patch' = [patch EXCEPT ![g] = tree \ missed]
        BY <2>10 DEF DiffTree
      <3>3. \A f \in Fingerprint : patch'[f] = IF f = g THEN tree \ missed ELSE patch[f]
        BY <2>2, <2>3, <3>2
      <3>4. ~overlap /\ g \in Visible /\ edits[g] = 1 => g \in tree \ missed
        BY <3>1 DEF PatchInv, Visible
      <3>5. PatchCarriesFix'
        BY <3>1, <3>3, <3>4 DEF PatchCarriesFix, StateOf, results, Visible
      <3>6. \A q \in Request : Fixing(q)' => Fixing(q)
        BY <2>4, <3>1 DEF Fixing
      <3>7. ASSUME ~overlap, NEW q \in Request, fix'[q].pc \in {"diff", "branch", "publish"}
            PROVE  q = r /\ fix'[q].pc = "branch" /\ fix'[q].finding = g
        BY <2>4, <2>6, <3>1, <3>7 DEF Fixing
      <3>8. ~overlap /\ g \in Visible /\ edits'[g] = 1 => g \in patch'[g]
        BY <2>3, <3>1, <3>3, <3>4
      <3>9. PatchInv'
        BY <1>1, <3>1, <3>6, <3>7, <3>8 DEF PatchInv
      <3>10. QED
        BY <3>5, <3>9
    <2>11. CASE Branch(r)
      <3>1. fix[r].pc = "branch" /\ UNCHANGED <<results, patch, edits, overlap>>
            /\ GotoFix(r, "publish")
        BY <2>11 DEF Branch
      <3>2. PatchCarriesFix'
        BY <3>1 DEF PatchCarriesFix, StateOf, results
      <3>3. \A q \in Request : Fixing(q)' => Fixing(q)
        BY <2>4, <3>1 DEF Fixing
      <3>4. ASSUME ~overlap, NEW q \in Request, fix'[q].pc \in {"diff", "branch", "publish"}
            PROVE  q = r /\ fix'[q].pc = "publish" /\ fix'[q].finding = g
        BY <2>4, <2>6, <3>1, <3>4 DEF Fixing
      <3>5. ~overlap /\ g \in Visible /\ edits[g] = 1 => g \in patch[g]
        BY <3>1 DEF PatchInv
      <3>6. PatchInv'
        BY <1>1, <3>1, <3>3, <3>4, <3>5 DEF PatchInv
      <3>7. QED
        BY <3>2, <3>6
    <2>12. CASE PublishFix(r)
      <3>1. /\ fix[r].pc = "publish" /\ UNCHANGED <<tree, patch, edits, overlap>>
            /\ SetVerdict(g, "true-positive", "published") /\ EndFix(r)
        BY <2>12 DEF PublishFix
      <3>2. ASSUME NEW f \in Fingerprint
            PROVE  f = g \/ StateOf(f)' = StateOf(f)
        <4> HIDE DEF g
        <4>1. IF f = g THEN StateOf(f)' = "published" ELSE findings'[f] = findings[f]
          BY <2>2, <2>3, <3>1, VerdictStates
        <4>2. QED
          BY <4>1 DEF StateOf
      <3>3. ~overlap /\ g \in Visible /\ edits[g] = 1 => g \in patch[g]
        BY <3>1 DEF PatchInv
      <3>4. PatchCarriesFix'
        BY <3>1, <3>2, <3>3 DEF PatchCarriesFix, Visible
      <3>5. QED
        BY <1>1, <2>5, <3>1, <3>4 DEF PatchInv, Fixing
    <2>13. QED
      <3>1. CASE ApplyFix(r)
        BY <2>9, <2>8, <3>1 DEF ApplyFix
      <3>2. CASE RaiseFix(r)
        BY <2>8, <3>2 DEF RaiseFix
      <3>3. QED
        BY <2>1, <2>7, <2>10, <2>11, <2>12, <3>1, <3>2
  <1>4. QED
    BY <1>2, <1>3

\* The patch of a published finding has its fix in it, for any number of
\* requests and of exceptions in them, as long as no two of them are at work at
\* once, when git shows the change and the fix was written once.
THEOREM PatchesCarryFixes == Spec => []PatchCarriesFix
  <1>1. Init => GateInv /\ PatchInv /\ PatchCarriesFix
    <2>1. Init => PatchInv
      BY DEF Init, PatchInv, EditsInv, Fixing, ResultsInit, NoFinding, StateOf
    <2>2. Init => PatchCarriesFix
      BY DEF Init, ResultsInit, NoFinding, StateOf, PatchCarriesFix
    <2>3. QED
      BY <2>1, <2>2, InitGateInv
  <1>2. GateInv /\ PatchInv /\ PatchCarriesFix /\ [Next]_vars
          => (GateInv /\ PatchInv /\ PatchCarriesFix)'
    BY NextGateInv, NextPatchInv
  <1>3. QED
    BY <1>1, <1>2, PTL DEF Spec

----------------------------------------------------------------------------
(* The rule gaps. *)

Passed == {"confirmed", "published"}

\* GapOnce, and what the triager at a gap is about to do.
GapInv ==
  /\ GapOnce
  /\ triager.pc = "gap" => gaps[triager.cur] = 0 /\ StateOf(triager.cur) \in Passed

\* Only the triager brings a finding past the gate and notes a gap.
LEMMA OthersLeaveGaps ==
  ASSUME GateInv, Detect \/ Write \/ Repair \/ UNCHANGED vars
  PROVE  /\ UNCHANGED <<triager, gaps>>
         /\ faults' \in {faults, faults + 1}
         /\ \A f \in Fingerprint : StateOf(f)' \in Passed <=> StateOf(f) \in Passed
  <1>1. TypeInv
    BY DEF GateInv
  <1>2. CASE Detect \/ Write \/ UNCHANGED vars
    <2>1. UNCHANGED triager
          /\ (findings' = findings \/ \E hit \in Hit : UpsertFinding(hit))
      BY <1>1, <1>2, DetectSteps
    <2>2. UNCHANGED gaps /\ faults' \in {faults, faults + 1}
      <3>1. CASE Write \/ UNCHANGED vars
        BY <3>1 DEF Write, ListSurvivors, WriteReport, ReportRaise, results, budget,
                    vars
      <3>2. ASSUME NEW w \in Worker,
                   WriteFinding(w) \/ WriteEvidence(w) \/ RecordDown(w) \/ CoverRunning(w)
                   \/ ModelDown(w) \/ Cover(w)
            PROVE  UNCHANGED <<gaps, faults>>
        BY <3>2 DEF WriteFinding, WriteEvidence, RecordDown, CoverRunning, ModelDown,
                    Cover, UpsertFinding, AddEvidence, SetCoverage, results, budget
      <3>3. ASSUME NEW w \in Worker,
                   \/ \E j \in Job : Begin(w, j)
                   \/ Answer(w) \/ Sweep(w) \/ Synthesize(w) \/ Complete(w) \/ Advance(w)
            PROVE  UNCHANGED <<gaps, faults>>
        BY <3>3 DEF Begin, Answer, Sweep, Synthesize, Complete, Advance, results, budget
      <3>4. ASSUME NEW w \in Worker, Raise(w)
            PROVE  UNCHANGED gaps /\ faults' = faults + 1
        BY <3>4 DEF Raise, results
      <3>5. ASSUME NEW j \in Job, Lapse(j)
            PROVE  UNCHANGED <<gaps, faults>>
        BY <3>5 DEF Lapse, results
      <3>6. ASSUME NEW j \in Job, Tamper(j)
            PROVE  UNCHANGED <<gaps, faults>>
        BY <3>6 DEF Tamper, results
      <3>7. ASSUME NEW w \in Worker, RunTool(w)
            PROVE  UNCHANGED <<gaps, faults>>
        BY <1>1, <3>7, ToolSteps DEF results
      <3>8. CASE Detect
        BY <3>2, <3>3, <3>4, <3>5, <3>6, <3>7, <3>8 DEF Detect
      <3>9. QED
        BY <1>2, <3>1, <3>8
    <2>3. CASE findings' = findings
      BY <2>1, <2>2, <2>3 DEF StateOf
    <2>4. ASSUME NEW hit \in Hit, UpsertFinding(hit), NEW f \in Fingerprint
          PROVE  StateOf(f)' \in Passed <=> StateOf(f) \in Passed
      BY <1>1, <2>4, UpsertStates DEF Passed
    <2>5. QED
      BY <2>1, <2>2, <2>3, <2>4
  <1>3. CASE Repair
    <2>1. PICK r \in Request :
            (\E f \in Fingerprint : OpenFix(r, f)) \/ ApplyFix(r) \/ DiffTree(r)
            \/ Branch(r) \/ PublishFix(r) \/ RaiseFix(r)
      BY <1>3 DEF Repair
    <2>2. UNCHANGED <<triager, gaps, faults>>
      BY <2>1 DEF OpenFix, ApplyFix, DiffTree, Branch, PublishFix, RaiseFix, SetVerdict,
                  results, judging, budget
    <2>3. CASE findings' = findings
      BY <2>2, <2>3 DEF StateOf
    <2>4. CASE PublishFix(r)
      <3> DEFINE g == fix[r].finding
      <3>1. /\ g \in Fingerprint /\ StateOf(g) \in Passed
            /\ SetVerdict(g, "true-positive", "published")
        BY <1>1, <2>4 DEF PublishFix, GateInv, FixInv, Fixing, Passed, TypeInv, TypeOK
      <3> HIDE DEF g
      <3>2. ASSUME NEW f \in Fingerprint
            PROVE  StateOf(f)' \in Passed <=> StateOf(f) \in Passed
        <4>1. IF f = g THEN StateOf(f)' = "published" ELSE findings'[f] = findings[f]
          BY <1>1, <3>1, VerdictStates
        <4>2. QED
          BY <3>1, <4>1 DEF StateOf, Passed
      <3>3. QED
        BY <2>2, <3>2
    <2>5. QED
      BY <2>1, <2>3, <2>4 DEF OpenFix, ApplyFix, DiffTree, Branch, RaiseFix, results
  <1>4. QED
    BY <1>2, <1>3

LEMMA NextGapInv ==
  ASSUME GateInv, GapInv, [Next]_vars
  PROVE  GapInv'
  <1>1. PICK c \in Fingerprint : c = triager.cur
    BY DEF GateInv, TypeInv, TypeOK
  <1>2. /\ TypeInv /\ triager \in Triager
        /\ gaps \in [Fingerprint -> Nat] /\ faults \in Nat
    <2>1. TypeInv /\ triager \in Triager /\ faults \in 0..MaxTroubles
      BY DEF GateInv, TypeInv, TypeOK, Triager
    <2>2. gaps \in [Fingerprint -> Nat]
      BY <2>1 DEF TypeInv, TypeOK, ResultsTypeOK
    <2>3. QED
      BY <2>1, <2>2
  <1>3. CASE Detect \/ Write \/ Repair \/ UNCHANGED vars
    <2>1. /\ UNCHANGED <<triager, gaps>> /\ faults' \in {faults, faults + 1}
          /\ \A f \in Fingerprint : StateOf(f)' \in Passed <=> StateOf(f) \in Passed
      BY <1>3, OthersLeaveGaps
    <2>2. faults > 0 => faults' > 0
      BY <1>2, <2>1
    <2>3. GapOnce'
      <3> SUFFICES ASSUME NEW f \in Fingerprint
                   PROVE  /\ gaps'[f] <= 1
                          /\ gaps'[f] = 1 => StateOf(f)' \in Passed
                          /\ /\ ClassOf[f] = "antares-localization"
                             /\ StateOf(f)' \in Passed /\ gaps'[f] = 0
                             => (triager'.pc = "gap" /\ triager'.cur = f) \/ faults' > 0
        BY DEF GapOnce, Passed
      <3>1. StateOf(f)' \in Passed <=> StateOf(f) \in Passed
        BY <2>1
      <3>2. QED
        BY <2>1, <2>2, <3>1 DEF GapInv, GapOnce, Passed
    <2>4. triager'.pc = "gap" => gaps'[c] = 0 /\ StateOf(c)' \in Passed
      BY <1>1, <2>1 DEF GapInv
    <2>5. triager'.cur = c
      BY <1>1, <2>1
    <2>6. QED
      BY <2>3, <2>4, <2>5 DEF GapInv, StateOf
  <1>4. CASE NoteGap
    <2>1. /\ triager.pc = "gap" /\ gaps' = [gaps EXCEPT ![c] = gaps[c] + 1]
          /\ triager'.pc = "each" /\ UNCHANGED <<findings, faults>>
      BY <1>1, <1>2, <1>4 DEF NoteGap, AddRuleGap, NextFinding, Resting, budget
    <2>2. gaps'[c] = 1 /\ StateOf(c) \in Passed
          /\ \A f \in Fingerprint : f # c => gaps'[f] = gaps[f]
      BY <1>1, <1>2, <2>1 DEF GapInv
    <2>3. \A f \in Fingerprint : StateOf(f)' = StateOf(f)
      BY <2>1 DEF StateOf
    <2>4. QED
      BY <1>1, <1>2, <2>1, <2>2, <2>3 DEF GapInv, GapOnce, Passed
  <1>5. CASE GiveVerdict
    <2>1. /\ triager.pc = "verdict" /\ UNCHANGED <<gaps, faults>>
          /\ StateOf(c) \notin Passed
      BY <1>1, <1>5 DEF GiveVerdict, SetVerdict, budget, GateInv, TriagerInv, Undecided,
                        FindingsIn, Passed
    <2> DEFINE state == IF Confirmed THEN "confirmed"
                        ELSE IF triager.says # "reject" THEN "needs-review" ELSE "recorded"
               verdict == IF Confirmed THEN "true-positive"
                          ELSE IF triager.says # "reject" THEN "needs-review"
                          ELSE "false-positive"
    <2>2. SetVerdict(c, verdict, state)
      BY <1>1, <1>5, Zenon DEF GiveVerdict, Confirmed
    <2>3. IF Confirmed /\ ClassOf[c] = "antares-localization"
          THEN triager'.pc = "gap" /\ triager'.cur = c ELSE triager'.pc = "each"
      BY <1>1, <1>2, <1>5 DEF GiveVerdict, NextFinding, Resting, Triager
    <2>4. PICK st : st = state /\ (st = "confirmed" <=> Confirmed)
                    /\ st \in {"confirmed", "needs-review", "recorded"}
      OBVIOUS
    <2>5. \A f \in Fingerprint :
            IF f = c THEN StateOf(f)' = st ELSE findings'[f] = findings[f]
      <3> HIDE DEF verdict, state
      <3>1. QED
        BY <1>2, <2>2, <2>4, VerdictStates
    <2> HIDE DEF verdict, state
    <2>6. \A f \in Fingerprint : f # c => StateOf(f)' = StateOf(f)
      BY <2>5 DEF StateOf
    <2>7. gaps[c] = 0 /\ gaps'[c] = 0 /\ StateOf(c)' = st
      <3>1. gaps[c] \in Nat /\ gaps[c] <= 1 /\ gaps[c] # 1
        BY <1>2, <2>1 DEF GapInv, GapOnce, Passed
      <3>2. QED
        BY <1>2, <2>1, <2>5, <3>1
    <2>8. ASSUME NEW f \in Fingerprint, f # c
          PROVE  /\ gaps'[f] <= 1
                 /\ gaps'[f] = 1 => StateOf(f)' \in Passed
                 /\ /\ ClassOf[f] = "antares-localization"
                    /\ StateOf(f)' \in Passed /\ gaps'[f] = 0
                    => faults' > 0
      BY <1>2, <2>1, <2>6, <2>8 DEF GapInv, GapOnce, Passed
    <2>9. ClassOf[c] = "antares-localization" /\ StateOf(c)' \in Passed
            => triager'.pc = "gap" /\ triager'.cur = c
      BY <2>3, <2>4, <2>7 DEF Passed
    <2>10. GapOnce'
      BY <1>2, <2>1, <2>7, <2>8, <2>9 DEF GapOnce, Passed
    <2>11. triager'.pc = "gap" => triager'.cur = c /\ StateOf(c)' \in Passed
      BY <2>3, <2>4, <2>7 DEF Passed
    <2>12. QED
      BY <2>7, <2>10, <2>11 DEF GapInv, StateOf
  <1>6. CASE TriageRaise
    <2>1. UNCHANGED results /\ faults' > 0 /\ triager'.pc = "idle"
      BY <1>2, <1>6 DEF TriageRaise, Resting
    <2>2. QED
      BY <2>1 DEF GapInv, GapOnce, StateOf, results
  <1>7. CASE ListFindings \/ ReadEvidence \/ AddContext \/ CloseTriage \/ EnqueueReporter
    <2>1. /\ UNCHANGED <<findings, gaps, faults>> /\ triager.pc # "gap" /\ triager'.pc # "gap"
      <3>1. UNCHANGED <<findings, gaps, faults>> /\ triager.pc # "gap"
        BY <1>7 DEF ListFindings, ReadEvidence, AddContext, CloseTriage,
                    EnqueueReporter, AddEvidence, results, budget
      <3>2. triager'.pc # "gap"
        <4>1. CASE ListFindings
          BY <1>2, <4>1 DEF ListFindings, Triager
        <4>2. CASE AddContext
          BY <1>2, <4>2 DEF AddContext, Triager
        <4>3. CASE CloseTriage
          BY <1>2, <4>3 DEF CloseTriage, Triager
        <4>4. CASE EnqueueReporter
          BY <4>4 DEF EnqueueReporter, Resting
        <4>5. CASE ReadEvidence
          BY <4>5 DEF ReadEvidence
        <4>6. QED
          BY <1>7, <4>1, <4>2, <4>3, <4>4, <4>5
      <3>3. QED
        BY <3>1, <3>2
    <2>2. QED
      BY <2>1 DEF GapInv, GapOnce, StateOf
  <1>8. QED
    BY <1>3, <1>4, <1>5, <1>6, <1>7 DEF Next, Judge

\* A confirmed Antares finding gets one rule gap, however often triage is run.
THEOREM GapsOnce == Spec => []GapOnce
  <1>1. Init => GateInv /\ GapInv
    <2>1. Init => GapInv
      BY DEF Init, ResultsInit, NoFinding, Resting, StateOf, GapInv, GapOnce
    <2>2. QED
      BY <2>1, InitGateInv
  <1>2. GateInv /\ GapInv /\ [Next]_vars => (GateInv /\ GapInv)'
    BY NextGateInv, NextGapInv
  <1>3. GapInv => GapOnce
    BY DEF GapInv
  <1>4. QED
    BY <1>1, <1>2, <1>3, PTL DEF Spec

----------------------------------------------------------------------------
(* Verdicts are those that the evidence calls for. *)

\* The states of a finding of which triage_run says this.
StatesFor(f, says) ==
  IF says = "reject" THEN {"recorded"}
  ELSE IF says = "confirm" /\ f \notin InDocs THEN {"confirmed", "published"}
  ELSE {"needs-review"}

\* Its verdict goes with its evidence.
Judged(f) ==
  IF StateOf(f) = "absent" THEN EvidenceOf(f) = {}
  ELSE StateOf(f) \in StatesFor(f, Judgement(f, EvidenceOf(f)))

\* It will be listed, or has been and is about to get its verdict.
Waiting(f) ==
  /\ f \in Undecided /\ triage # "closed"
  /\ triager.pc # "idle" =>
       \/ f \in triager.todo
       \/ triager.pc \in {"context", "verdict"} /\ f = triager.cur

\* What the triager is about to say of a finding goes with its evidence, too.
Right(f) ==
  /\ Judged(f) \/ Waiting(f)
  /\ triager.pc \in {"context", "verdict"} /\ f = triager.cur
       => triager.says = Judgement(f, EvidenceOf(f))

JudgedInv == \A f \in Fingerprint \ late : Right(f)

LEMMA JudgementValues ==
  ASSUME NEW f, NEW rows
  PROVE  Judgement(f, rows) \in {"confirm", "review", "reject"}
  BY DEF Judgement

\* A finding without evidence is rejected.
LEMMA NothingIsRejected ==
  ASSUME NEW f
  PROVE  Judgement(f, {}) = "reject"
  <1>1. Kinds({}) = {}
    BY DEF Kinds
  <1>2. ~GateKinds(f, {}) /\ ~HasReach({})
    BY <1>1 DEF GateKinds, HasReach
  <1>3. QED
    BY <1>1, <1>2 DEF Judgement

\* The context that the triager writes down does not change what it says.
LEMMA ContextSaysNothing ==
  ASSUME NEW f, NEW rows, NEW row, row.kind = "context", row.cited
  PROVE  Judgement(f, rows \cup {row}) = Judgement(f, rows)
  <1> DEFINE more == rows \cup {row}
  <1>1. Kinds(more) = Kinds(rows) \cup {"context"}
    BY DEF Kinds
  <1>2. CitationsOk(more) <=> CitationsOk(rows)
    BY DEF CitationsOk
  <1> HIDE DEF more
  <1>3. /\ HasReach(more) <=> HasReach(rows)
        /\ \A kind \in {"impact", "presence", "trust-boundary"} :
             kind \in Kinds(more) <=> kind \in Kinds(rows)
    BY <1>1 DEF HasReach
  <1>4. GateKinds(f, more) <=> GateKinds(f, rows)
    BY <1>3 DEF GateKinds, HasTrust
  <1>5. Judgement(f, more) = Judgement(f, rows)
    BY <1>2, <1>3, <1>4 DEF Judgement
  <1>6. QED
    BY <1>5 DEF more

\* A finding that a step leaves alone is as well judged as before.
LEMMA JudgedStays ==
  ASSUME NEW f, StateOf(f)' = StateOf(f), EvidenceOf(f)' = EvidenceOf(f)
  PROVE  /\ Judged(f) => Judged(f)'
         /\ Judgement(f, EvidenceOf(f))' = Judgement(f, EvidenceOf(f))
  <1>1. Judgement(f, EvidenceOf(f))' = Judgement(f, EvidenceOf(f)')
    BY DEF Judgement, GateKinds, CitationsOk, HasReach, HasTrust, Kinds
  <1>2. QED
    BY <1>1 DEF Judged, StatesFor

LEMMA RightStays ==
  ASSUME NEW f \in Fingerprint, StateOf(f)' = StateOf(f), EvidenceOf(f)' = EvidenceOf(f),
         UNCHANGED triager, triage' = "closed" => triage = "closed"
  PROVE  Right(f) => Right(f)'
  <1>1. Waiting(f) => Waiting(f)'
    BY DEF Waiting, Undecided, FindingsIn, StateOf
  <1>2. QED
    BY <1>1, JudgedStays DEF Right

\* Every other step of the detectors and the reporter leaves the findings, their
\* evidence and the triager alone.
LEMMA QuietSteps ==
  ASSUME TypeInv, Detect \/ Write \/ UNCHANGED vars,
         \A w \in Worker : ~WriteFinding(w) /\ ~WriteEvidence(w) /\ ~RecordDown(w)
  PROVE  /\ UNCHANGED <<findings, evidence, triager, late>>
         /\ triage' = "closed" => triage = "closed"
  <1>1. CASE Write \/ UNCHANGED vars
    BY <1>1 DEF Write, ListSurvivors, WriteReport, ReportRaise, vars, results, judging
  <1>2. ASSUME NEW w \in Worker, CoverRunning(w) \/ ModelDown(w) \/ Cover(w)
        PROVE  UNCHANGED <<findings, evidence, triager, late, triage>>
    BY <1>2 DEF CoverRunning, ModelDown, Cover, SetCoverage, judging, results
  <1>3. ASSUME NEW w \in Worker,
               \/ \E j \in Job : Begin(w, j)
               \/ Answer(w) \/ Sweep(w) \/ Synthesize(w) \/ Complete(w) \/ Raise(w)
        PROVE  UNCHANGED <<findings, evidence, triager, late, triage>>
    BY <1>3 DEF Begin, Answer, Sweep, Synthesize, Complete, Raise, judging, results
  <1>4. ASSUME NEW w \in Worker, Advance(w)
        PROVE  /\ UNCHANGED <<findings, evidence, triager, late>>
               /\ triage' = "closed" => triage = "closed"
    BY <1>4 DEF Advance, results
  <1>5. ASSUME NEW j \in Job, Lapse(j)
        PROVE  UNCHANGED <<findings, evidence, triager, late, triage>>
    BY <1>5 DEF Lapse, judging, results
  <1>6. ASSUME NEW j \in Job, Tamper(j)
        PROVE  UNCHANGED <<findings, evidence, triager, late, triage>>
    BY <1>6 DEF Tamper, judging, results
  <1>7. ASSUME NEW w \in Worker, RunTool(w)
        PROVE  UNCHANGED <<findings, evidence, triager, late, triage>>
    BY <1>7, ToolSteps DEF judging, results
  <1>8. CASE Detect
    BY <1>2, <1>3, <1>4, <1>5, <1>6, <1>7, <1>8 DEF Detect
  <1>9. QED
    BY <1>1, <1>8

\* A step that writes to one finding, which is late then, leaves the others.
LEMMA DetectJudged ==
  ASSUME GateInv, JudgedInv, Detect \/ Write \/ UNCHANGED vars
  PROVE  JudgedInv'
  <1>1. TypeInv /\ findings \in [Fingerprint -> FindingRow]
    BY DEF GateInv, TypeInv, TypeOK, ResultsTypeOK
  <1>2. ASSUME UNCHANGED triager, triage' = "closed" => triage = "closed",
               NEW g \in Fingerprint, late' = late \cup {g},
               \A f \in Fingerprint : f # g =>
                 StateOf(f)' = StateOf(f) /\ EvidenceOf(f)' = EvidenceOf(f)
        PROVE  JudgedInv'
    <2> SUFFICES ASSUME NEW f \in Fingerprint, f \notin late'
                 PROVE  Right(f)'
      BY DEF JudgedInv
    <2>1. f # g /\ f \notin late
      BY <1>2
    <2>2. Right(f)
      BY <2>1 DEF JudgedInv
    <2>3. QED
      BY <1>2, <2>1, <2>2, RightStays
  <1>3. ASSUME NEW w \in Worker, WriteFinding(w) PROVE JudgedInv'
    <2>1. PICK g \in Fingerprint : g = NextHit(w).finding
      BY <1>1, <1>3, NextHitIsHit, HitTypes DEF WriteFinding
    <2>2. /\ UNCHANGED <<triager, triage, evidence>> /\ late' = late \cup {g}
          /\ \A f \in Fingerprint : f # g => findings'[f] = findings[f]
      BY <1>1, <1>3, <2>1 DEF WriteFinding, UpsertFinding
    <2>3. QED
      BY <1>2, <2>2 DEF StateOf, EvidenceOf
  <1>4. ASSUME NEW w \in Worker, WriteEvidence(w) PROVE JudgedInv'
    <2>1. PICK g \in Fingerprint : g = NextHit(w).finding
      <3>1. At(w, "write") /\ attempt[w].row > 0
        BY <1>4 DEF WriteEvidence
      <3>2. QED
        BY <1>1, <3>1, NextHitIsHit, HitTypes DEF TypeInv, AttemptInv
    <2>2. PICK row : row.finding = g /\ evidence' = evidence \cup {row}
      BY <1>4, <2>1 DEF WriteEvidence, AddEvidence
    <2>3. UNCHANGED <<triager, triage, findings>> /\ late' = late \cup {g}
      BY <1>4, <2>1 DEF WriteEvidence, AddEvidence
    <2>4. ASSUME NEW f \in Fingerprint, f # g
          PROVE  StateOf(f)' = StateOf(f) /\ EvidenceOf(f)' = EvidenceOf(f)
      BY <2>2, <2>3, <2>4 DEF StateOf, EvidenceOf
    <2>5. QED
      BY <1>2, <2>3, <2>4
  <1>5. ASSUME NEW w \in Worker, RecordDown(w) PROVE JudgedInv'
    <2>1. PICK g \in Fingerprint : g = DownOf[JobOf(w)].finding
      BY <1>1, HitTypes DEF TypeInv, TypeOK, JobOf
    <2>2. DownOf[JobOf(w)].state = "recorded" /\ DownOf[JobOf(w)] \in Hit
      BY <1>1, ClassesAssumption DEF TypeInv, TypeOK, JobOf
    <2>3. UNCHANGED <<triager, triage, late, evidence>>
      BY <1>5 DEF RecordDown, UpsertFinding, judging
    <2>4. findings' = [findings EXCEPT ![g] = Upserted(findings[g], DownOf[JobOf(w)])]
      BY <1>1, <1>5, <2>1 DEF RecordDown, UpsertFinding
    <2>5. /\ \A f \in Fingerprint : f # g => StateOf(f)' = StateOf(f)
          /\ StateOf(g)' = IF StateOf(g) = "absent" THEN "recorded" ELSE StateOf(g)
      BY <1>1, <2>2, <2>4 DEF StateOf, Upserted, FindingRow
    <2>6. \A f \in Fingerprint : EvidenceOf(f)' = EvidenceOf(f)
      BY <2>3 DEF EvidenceOf
    <2> SUFFICES ASSUME NEW f \in Fingerprint, f \notin late
                 PROVE  Right(f)'
      BY <2>3 DEF JudgedInv
    <2>7. Right(f)
      BY DEF JudgedInv
    <2>8. CASE StateOf(f)' = StateOf(f)
      BY <2>3, <2>6, <2>7, <2>8, RightStays
    <2>9. CASE StateOf(f)' # StateOf(f)
      <3>1. StateOf(f) = "absent" /\ StateOf(f)' = "recorded"
        BY <2>5, <2>9
      <3>2. EvidenceOf(f)' = {}
        BY <2>6, <2>7, <3>1 DEF Right, Judged, Waiting, Undecided, FindingsIn
      <3>3. Judgement(f, EvidenceOf(f))' = "reject"
        <4>1. Judgement(f, EvidenceOf(f))' = Judgement(f, EvidenceOf(f)')
          BY DEF Judgement, GateKinds, CitationsOk, HasReach, HasTrust, Kinds
        <4>2. QED
          BY <3>2, <4>1, NothingIsRejected
      <3>4. ~(triager'.pc \in {"context", "verdict"} /\ f = triager'.cur)
        BY <1>1, <2>3, <3>1 DEF GateInv, TriagerInv, Undecided, FindingsIn
      <3>5. Judged(f)'
        BY <3>1, <3>3 DEF Judged, StatesFor
      <3>6. QED
        BY <3>4, <3>5 DEF Right
    <2>10. QED
      BY <2>8, <2>9
  <1>6. CASE \A w \in Worker : ~WriteFinding(w) /\ ~WriteEvidence(w) /\ ~RecordDown(w)
    <2>1. /\ UNCHANGED <<findings, evidence, triager, late>>
          /\ triage' = "closed" => triage = "closed"
      BY <1>1, <1>6, QuietSteps
    <2> SUFFICES ASSUME NEW f \in Fingerprint, f \notin late
                 PROVE  Right(f)'
      BY <2>1 DEF JudgedInv
    <2>2. Right(f)
      BY DEF JudgedInv
    <2>3. StateOf(f)' = StateOf(f) /\ EvidenceOf(f)' = EvidenceOf(f)
      BY <2>1 DEF StateOf, EvidenceOf
    <2>4. QED
      BY <2>1, <2>2, <2>3, RightStays
  <1>7. QED
    BY <1>3, <1>4, <1>5, <1>6

\* A fix is for a finding that has been confirmed.
LEMMA RepairJudged ==
  ASSUME GateInv, JudgedInv, Repair
  PROVE  JudgedInv'
  <1>1. UNCHANGED <<triager, triage, late, evidence>>
    BY DEF Repair, OpenFix, ApplyFix, DiffTree, Branch, PublishFix, RaiseFix,
           SetVerdict, results, judging
  <1>2. \A f \in Fingerprint :
          \/ StateOf(f)' = StateOf(f)
          \/ StateOf(f) = "confirmed" /\ StateOf(f)' = "published"
    BY RepairGateInv
  <1> SUFFICES ASSUME NEW f \in Fingerprint, f \notin late
               PROVE  Right(f)'
    BY <1>1 DEF JudgedInv
  <1>3. Right(f)
    BY DEF JudgedInv
  <1>4. EvidenceOf(f)' = EvidenceOf(f)
    BY <1>1 DEF EvidenceOf
  <1>5. CASE StateOf(f)' = StateOf(f)
    BY <1>1, <1>3, <1>4, <1>5, RightStays
  <1>6. CASE StateOf(f) = "confirmed" /\ StateOf(f)' = "published"
    <2>1. StateOf(f) \in StatesFor(f, Judgement(f, EvidenceOf(f)))
      BY <1>3, <1>6 DEF Right, Judged, Waiting, Undecided, FindingsIn
    <2>2. Judgement(f, EvidenceOf(f))' = Judgement(f, EvidenceOf(f))
      BY <1>4 DEF Judgement, GateKinds, CitationsOk, HasReach, HasTrust, Kinds
    <2>3. f \notin Undecided
      BY <1>6 DEF Undecided, FindingsIn
    <2>4. Judged(f)'
      BY <1>6, <2>1, <2>2 DEF Judged, StatesFor
    <2>5. ~(triager'.pc \in {"context", "verdict"} /\ f = triager'.cur)
      BY <1>1, <2>3 DEF GateInv, TriagerInv
    <2>6. QED
      BY <2>4, <2>5 DEF Right
  <1>7. QED
    BY <1>2, <1>5, <1>6

\* The triager lists what is undecided, reads the evidence of each and gives it
\* the verdict that goes with that.
LEMMA TriagerJudges ==
  ASSUME GateInv, StagesInv, JudgedInv, Judge
  PROVE  JudgedInv'
  <1>1. /\ TypeInv /\ triager \in Triager /\ TriagerInv
        /\ findings \in [Fingerprint -> FindingRow]
    BY DEF GateInv, TypeInv, TypeOK, ResultsTypeOK, Triager
  <1>2. PICK c \in Fingerprint : c = triager.cur
    BY <1>1 DEF Triager
  <1>3. ASSUME NEW f \in Fingerprint \ late PROVE Right(f)
    BY DEF JudgedInv
  <1>4. CASE ListFindings
    <2>1. /\ UNCHANGED <<findings, evidence>> /\ late' = late \ Undecided
          /\ triager.pc = "idle" /\ triage' = "claimed"
          /\ triager' = [triager EXCEPT !.pc = "each", !.todo = Undecided]
      BY <1>4 DEF ListFindings, results
    <2>2. triager'.pc = "each" /\ triager'.todo = Undecided
      BY <1>1, <2>1, Zenon DEF Triager
    <2> SUFFICES ASSUME NEW f \in Fingerprint, f \notin late'
                 PROVE  Right(f)'
      BY DEF JudgedInv
    <2>3. StateOf(f)' = StateOf(f) /\ EvidenceOf(f)' = EvidenceOf(f)
      BY <2>1 DEF StateOf, EvidenceOf
    <2>4. Undecided' = Undecided
      BY <2>1 DEF Undecided, FindingsIn, StateOf
    <2>5. CASE f \in Undecided
      BY <2>1, <2>2, <2>4, <2>5 DEF Right, Waiting
    <2>6. CASE f \notin Undecided
      <3>1. Judged(f)
        BY <1>3, <2>1, <2>6 DEF Right, Waiting
      <3>2. QED
        BY <2>2, <2>3, <3>1, JudgedStays DEF Right
    <2>7. QED
      BY <2>5, <2>6
  <1>5. CASE ReadEvidence
    <2>1. PICK g \in triager.todo :
            triager' = [pc |-> IF g \in InDocs /\ Judgement(g, EvidenceOf(g)) # "reject"
                               THEN "context" ELSE "verdict",
                        todo |-> triager.todo \ {g}, cur |-> g,
                        says |-> Judgement(g, EvidenceOf(g))]
      BY <1>5 DEF ReadEvidence
    <2>2. /\ triager'.pc \in {"context", "verdict"} /\ triager'.todo = triager.todo \ {g}
          /\ triager'.cur = g /\ triager'.says = Judgement(g, EvidenceOf(g))
      BY <2>1
    <2>3. UNCHANGED <<findings, evidence, late, triage>> /\ triager.pc = "each"
      BY <1>5 DEF ReadEvidence, results
    <2> SUFFICES ASSUME NEW f \in Fingerprint, f \notin late
                 PROVE  Right(f)'
      BY <2>3 DEF JudgedInv
    <2>4. StateOf(f)' = StateOf(f) /\ EvidenceOf(f)' = EvidenceOf(f)
      BY <2>3 DEF StateOf, EvidenceOf
    <2>5. Judgement(f, EvidenceOf(f))' = Judgement(f, EvidenceOf(f))
      BY <2>4, JudgedStays
    <2>6. (Judged(f) \/ Waiting(f))'
      <3>1. CASE Judged(f)
        BY <2>4, <3>1, JudgedStays
      <3>2. CASE Waiting(f)
        <4>1. f \in triager.todo /\ f \in Undecided' /\ triage' # "closed"
          BY <2>3, <3>2 DEF Waiting, Undecided, FindingsIn, StateOf
        <4>2. f \in triager'.todo \/ f = triager'.cur
          BY <2>2, <4>1
        <4>3. QED
          BY <2>2, <4>1, <4>2 DEF Waiting
      <3>3. QED
        BY <1>3, <3>1, <3>2 DEF Right
    <2>7. f = triager'.cur => triager'.says = Judgement(f, EvidenceOf(f))'
      BY <2>2, <2>5
    <2>8. QED
      BY <2>6, <2>7 DEF Right
  <1>6. CASE AddContext
    <2> DEFINE row == [finding |-> c, kind |-> "context", cited |-> TRUE]
    <2>1. /\ UNCHANGED <<findings, late, triage>> /\ triager.pc = "context"
          /\ evidence' = evidence \cup {row}
          /\ triager' = [triager EXCEPT !.pc = "verdict"]
      BY <1>2, <1>6 DEF AddContext, AddEvidence
    <2>2. /\ triager'.pc = "verdict" /\ triager'.todo = triager.todo
          /\ triager'.cur = triager.cur /\ triager'.says = triager.says
      BY <1>1, <2>1 DEF Triager
    <2> SUFFICES ASSUME NEW f \in Fingerprint, f \notin late
                 PROVE  Right(f)'
      BY <2>1 DEF JudgedInv
    <2>3. StateOf(f)' = StateOf(f) /\ Undecided' = Undecided
      BY <2>1 DEF StateOf, Undecided, FindingsIn
    <2>4. f # c => EvidenceOf(f)' = EvidenceOf(f)
      BY <2>1 DEF EvidenceOf
    <2>5. f = c => EvidenceOf(f)' = EvidenceOf(f) \cup {row}
      BY <2>1 DEF EvidenceOf
    <2>6. Judgement(f, EvidenceOf(f))' = Judgement(f, EvidenceOf(f))
      <3>1. Judgement(f, EvidenceOf(f))' = Judgement(f, EvidenceOf(f)')
        BY DEF Judgement, GateKinds, CitationsOk, HasReach, HasTrust, Kinds
      <3>2. row.kind = "context" /\ row.cited
        OBVIOUS
      <3> HIDE DEF row
      <3>3. QED
        BY <2>4, <2>5, <3>1, <3>2, ContextSaysNothing
    <2>7. c \in Undecided
      BY <1>1, <1>2, <2>1 DEF TriagerInv
    <2>8. Judged(f) => Judged(f)'
      <3>1. f # c \/ StateOf(f) # "absent"
        BY <2>7 DEF Undecided, FindingsIn
      <3>2. QED
        BY <2>3, <2>4, <2>6, <3>1 DEF Judged, StatesFor
    <2>9. Waiting(f) => Waiting(f)'
      BY <2>1, <2>2, <2>3 DEF Waiting
    <2>10. QED
      BY <1>3, <2>1, <2>2, <2>6, <2>8, <2>9 DEF Right
  <1>7. CASE GiveVerdict
    <2>1. triager.pc = "verdict" /\ UNCHANGED <<late, triage, evidence>>
      BY <1>7 DEF GiveVerdict, SetVerdict
    <2> DEFINE verdict == IF Confirmed THEN "true-positive"
                          ELSE IF triager.says # "reject" THEN "needs-review"
                          ELSE "false-positive"
               state == IF Confirmed THEN "confirmed"
                        ELSE IF triager.says # "reject" THEN "needs-review" ELSE "recorded"
    <2>2. SetVerdict(c, verdict, state)
      BY <1>2, <1>7, Zenon DEF GiveVerdict, Confirmed
    <2>3. state \in StatesFor(c, triager.says)
      BY <1>1, <1>2 DEF StatesFor, Confirmed, Triager
    <2>4. state # "absent"
      OBVIOUS
    <2> HIDE DEF verdict, state
    <2>5. /\ StateOf(c)' = state
          /\ \A f \in Fingerprint : f # c => findings'[f] = findings[f]
      BY <1>1, <2>2, VerdictStates
    <2>6. triager'.todo = triager.todo /\ triager'.pc \in {"each", "gap"}
      BY <1>1, <1>7 DEF GiveVerdict, NextFinding, Resting, Triager
    <2> SUFFICES ASSUME NEW f \in Fingerprint, f \notin late
                 PROVE  Right(f)'
      BY <2>1 DEF JudgedInv
    <2>7. EvidenceOf(f)' = EvidenceOf(f)
      BY <2>1 DEF EvidenceOf
    <2>8. Judgement(f, EvidenceOf(f))' = Judgement(f, EvidenceOf(f))
      BY <2>7 DEF Judgement, GateKinds, CitationsOk, HasReach, HasTrust, Kinds
    <2>9. CASE f = c
      <3>1. triager.says = Judgement(f, EvidenceOf(f))
        BY <1>2, <1>3, <2>1, <2>9 DEF Right
      <3>2. Judged(f)'
        BY <2>3, <2>4, <2>5, <2>8, <2>9, <3>1 DEF Judged, StatesFor
      <3>3. QED
        BY <2>6, <3>2 DEF Right
    <2>10. CASE f # c
      <3>1. StateOf(f)' = StateOf(f)
        BY <2>5, <2>10 DEF StateOf
      <3>2. CASE Judged(f)
        BY <2>6, <2>7, <3>1, <3>2, JudgedStays DEF Right
      <3>3. CASE Waiting(f)
        <4>1. f \in Undecided' /\ triage' # "closed" /\ f \in triager'.todo
          BY <1>2, <2>1, <2>6, <2>10, <3>1, <3>3
            DEF Waiting, Undecided, FindingsIn, StateOf
        <4>2. QED
          BY <2>6, <4>1 DEF Right, Waiting
      <3>4. QED
        BY <1>3, <3>2, <3>3 DEF Right
    <2>11. QED
      BY <2>9, <2>10
  <1>8. CASE NoteGap \/ CloseTriage \/ EnqueueReporter \/ TriageRaise
    <2>1. UNCHANGED <<findings, evidence, late>>
      BY <1>8 DEF NoteGap, AddRuleGap, CloseTriage, EnqueueReporter, TriageRaise,
                  results
    <2> SUFFICES ASSUME NEW f \in Fingerprint, f \notin late
                 PROVE  Right(f)'
      BY <2>1 DEF JudgedInv
    <2>2. StateOf(f)' = StateOf(f) /\ EvidenceOf(f)' = EvidenceOf(f)
      BY <2>1 DEF StateOf, EvidenceOf
    <2>3. ~(triager'.pc \in {"context", "verdict"})
      <3>1. CASE CloseTriage
        BY <1>1, <3>1 DEF CloseTriage, Triager
      <3>2. CASE NoteGap
        BY <3>2 DEF NoteGap, NextFinding, Resting
      <3>3. CASE EnqueueReporter \/ TriageRaise
        BY <3>3 DEF EnqueueReporter, TriageRaise, Resting
      <3>4. QED
        BY <1>8, <3>1, <3>2, <3>3
    <2>4. Waiting(f) => Waiting(f)'
      <3> SUFFICES ASSUME Waiting(f) PROVE Waiting(f)'
        OBVIOUS
      <3>1. f \in Undecided' /\ triage # "closed"
        BY <2>1 DEF Waiting, Undecided, FindingsIn, StateOf
      <3>2. CASE NoteGap
        <4>1. triager.pc = "gap" /\ triage' = triage /\ triager'.todo = triager.todo
          BY <1>1, <3>2 DEF NoteGap, NextFinding, Resting, Triager
        <4>2. QED
          BY <3>1, <4>1 DEF Waiting
      <3>3. CASE CloseTriage
        BY <3>3 DEF CloseTriage, Waiting
      <3>4. CASE EnqueueReporter
        BY <3>1, <3>4 DEF EnqueueReporter, StagesInv
      <3>5. CASE TriageRaise
        BY <3>1, <3>5 DEF TriageRaise, Resting, Waiting
      <3>6. QED
        BY <1>8, <3>2, <3>3, <3>4, <3>5
    <2>5. QED
      BY <1>3, <2>2, <2>3, <2>4, JudgedStays DEF Right
  <1>9. QED
    BY <1>4, <1>5, <1>6, <1>7, <1>8 DEF Judge

LEMMA NextJudgedInv ==
  ASSUME GateInv, StagesInv, JudgedInv, [Next]_vars
  PROVE  JudgedInv'
  BY DetectJudged, RepairJudged, TriagerJudges DEF Next

\* When triage is over, verdicts are those that the evidence in the store calls
\* for, but for findings that a worker has written to since they were listed.
THEOREM JudgedByEvidence == Spec => []JudgedOnEvidence
  <1>1. Init => GateInv /\ ReportInv /\ JudgedInv
    <2>1. Init => JudgedInv
      BY DEF Init, ResultsInit, NoFinding, Resting, StateOf, EvidenceOf, JudgedInv,
             Right, Judged
    <2>2. QED
      BY <2>1, InitGateInv, InitReportInv
  <1>2. GateInv /\ ReportInv /\ JudgedInv /\ [Next]_vars
          => (GateInv /\ ReportInv /\ JudgedInv)'
    BY NextGateInv, NextReportInv, NextJudgedInv DEF ReportInv
  <1>3. JudgedInv => JudgedOnEvidence
    <2> SUFFICES ASSUME JudgedInv, triage = "closed", NEW f \in Fingerprint \ late,
                        StateOf(f) # "absent"
                 PROVE  StateOf(f) \in
                          CASE Judgement(f, EvidenceOf(f)) = "reject" -> {"recorded"}
                            [] Judgement(f, EvidenceOf(f)) = "confirm" /\ f \notin InDocs
                                 -> {"confirmed", "published"}
                            [] OTHER -> {"needs-review"}
      BY DEF JudgedOnEvidence
    <2>1. StateOf(f) \in StatesFor(f, Judgement(f, EvidenceOf(f)))
      BY DEF JudgedInv, Right, Judged, Waiting
    <2>2. QED
      BY <2>1, JudgementValues DEF StatesFor
  <1>4. QED
    BY <1>1, <1>2, <1>3, PTL DEF Spec

----------------------------------------------------------------------------
(* Attempts at a job, one after the other or beside each other. *)

\* The steps of a detector thread.
DetectorStep(w) ==
  \/ \E j \in Job : Begin(w, j)
  \/ RunTool(w)
  \/ CoverRunning(w) \/ Answer(w) \/ Sweep(w) \/ ModelDown(w) \/ RecordDown(w)
  \/ WriteFinding(w) \/ WriteEvidence(w) \/ Cover(w) \/ Synthesize(w)
  \/ Complete(w) \/ Advance(w) \/ Raise(w)

\* A job that has an attempt is enqueued; as long as no claim has gone stale it
\* has one attempt at a time, and its task is in the state that goes with that.
SerialInv ==
  /\ \A w \in Worker : ~At(w, "idle") => job[JobOf(w)] # "none"
  /\ lapses = 0 =>
       \A w \in Worker : ~At(w, "idle") =>
         /\ job[JobOf(w)] = (IF At(w, "advance") THEN "closed" ELSE "claimed")
         /\ \A v \in Worker : ~At(v, "idle") /\ JobOf(v) = JobOf(w) => v = w

\* What a step makes of an attempt.
LEMMA AttemptSteps ==
  ASSUME TypeInv, NEW w \in Worker, DetectorStep(w), ~\E j \in Job : Begin(w, j)
  PROVE  /\ \A v \in Worker : v # w => attempt'[v] = attempt[v]
         /\ lapses' = lapses /\ attempt[w].pc # "idle"
         /\ \/ /\ attempt[w].pc \notin {"advance", "complete"}
               /\ attempt'[w].pc \notin {"idle", "advance"}
               /\ attempt'[w].job = attempt[w].job /\ job' = job
            \/ /\ Complete(w) /\ attempt[w].pc = "complete" /\ attempt'[w].pc = "advance"
               /\ attempt'[w].job = attempt[w].job
               /\ job' = [job EXCEPT ![attempt[w].job] = "closed"]
            \/ Advance(w) /\ attempt'[w].pc = "idle" /\ job' = job
            \/ /\ Raise(w) /\ attempt'[w].pc = "idle" /\ faults' = faults + 1
               /\ job' = [job EXCEPT ![attempt[w].job] = "open"]
  <1>1. attempt \in [Worker -> Attempt] /\ attempt[w] \in Attempt
    BY DEF TypeInv, TypeOK, Attempt
  <1>2. CASE CoverRunning(w) \/ ModelDown(w) \/ RecordDown(w) \/ Cover(w) \/ Synthesize(w)
    <2>1. PICK label \in {"ask", "down", "complete", "goals"} : Goto(w, label)
      BY <1>2 DEF CoverRunning, ModelDown, RecordDown, Cover, Synthesize
    <2>2. /\ attempt'[w].pc = label /\ attempt'[w].job = attempt[w].job
          /\ \A v \in Worker : v # w => attempt'[v] = attempt[v]
      BY <1>1, <2>1 DEF Goto, Attempt
    <2>3. /\ lapses' = lapses /\ job' = job
          /\ attempt[w].pc \notin {"idle", "advance", "complete"}
      BY <1>2 DEF CoverRunning, ModelDown, RecordDown, Cover, Synthesize, budget, At
    <2>4. QED
      BY <2>1, <2>2, <2>3
  <1>3. CASE Answer(w) \/ Sweep(w)
    <2>1. PICK found, sent : Told(w, found, sent)
      BY <1>3 DEF Answer, Sweep
    <2>2. /\ attempt'[w].pc = "write" /\ attempt'[w].job = attempt[w].job
          /\ \A v \in Worker : v # w => attempt'[v] = attempt[v]
      BY <1>1, <2>1 DEF Told, Attempt
    <2>3. lapses' = lapses /\ job' = job /\ attempt[w].pc = "ask"
      BY <1>3 DEF Answer, Sweep, budget, At
    <2>4. QED
      BY <2>2, <2>3
  <1>4. CASE WriteFinding(w) \/ WriteEvidence(w)
    <2>1. PICK row, left : attempt' = [attempt EXCEPT ![w].row = row, ![w].left = left]
      <3>1. CASE WriteFinding(w)
        <4>1. attempt' = [attempt EXCEPT ![w].row = 1, ![w].left = attempt[w].left]
          BY <1>1, <3>1 DEF WriteFinding, Attempt
        <4>2. QED
          BY <4>1
      <3>2. CASE WriteEvidence(w)
        BY <3>2 DEF WriteEvidence
      <3>3. QED
        BY <1>4, <3>1, <3>2
    <2>2. /\ attempt'[w].pc = attempt[w].pc /\ attempt'[w].job = attempt[w].job
          /\ \A v \in Worker : v # w => attempt'[v] = attempt[v]
      BY <1>1, <2>1 DEF Attempt
    <2>3. lapses' = lapses /\ job' = job /\ attempt[w].pc = "write"
      BY <1>4 DEF WriteFinding, WriteEvidence, budget, At
    <2>4. QED
      BY <2>2, <2>3
  <1>5. CASE Complete(w)
    BY <1>1, <1>5 DEF Complete, Goto, Attempt, At, JobOf, budget
  <1>6. CASE Advance(w) \/ Raise(w)
    BY <1>1, <1>6 DEF Advance, Raise, Idle, At, JobOf, budget
  <1>7. CASE RunTool(w)
    <2>1. PICK label \in {"writing", "read", "unlink", "write"},
            left \in {attempt[w].left, {}, DOMAIN HitsOf[JobOf(w)]} :
         /\ attempt' = [attempt EXCEPT ![w].pc = label, ![w].left = left]
         /\ label \in {"write", "unlink"} => left \subseteq DOMAIN HitsOf[JobOf(w)]
         /\ attempt[w].pc = "read" \/ left = attempt[w].left
      BY <1>7, ToolSteps, ZenonT(40)
    <2>2. /\ attempt'[w].pc = label /\ attempt'[w].job = attempt[w].job
          /\ \A v \in Worker : v # w => attempt'[v] = attempt[v]
      BY <1>1, <2>1 DEF Attempt
    <2>3. /\ lapses' = lapses /\ job' = job
          /\ attempt[w].pc \in {"tool", "writing", "read", "unlink"}
      BY <1>7, ToolSteps
    <2>4. QED
      BY <2>1, <2>2, <2>3
  <1>8. QED
    BY <1>2, <1>3, <1>4, <1>5, <1>6, <1>7 DEF DetectorStep

LEMMA BeginSteps ==
  ASSUME TypeInv, NEW w \in Worker, NEW j \in Job, Begin(w, j)
  PROVE  /\ \A v \in Worker : v # w => attempt'[v] = attempt[v]
         /\ UNCHANGED <<faults, lapses, findings, goals, coverage>>
         /\ attempt[w].pc = "idle" /\ job[j] = "open"
         /\ job' = [job EXCEPT ![j] = "claimed"]
         /\ attempt'[w].job = j /\ attempt'[w].pc \in {"begin", "ask", "write", "tool"}
         /\ KindOf[j] = "antares" <=> attempt'[w].pc = "begin"
         /\ KindOf[j] = "sca" => attempt'[w].pc \in {"write", "tool"}
  <1>1. /\ KindOf[j] \in DetectorKind /\ attempt \in [Worker -> Attempt]
        /\ j \in Reporting => KindOf[j] \in {"rules", "sca"}
    BY DEF TypeInv, TypeOK, Attempt
  <1>2. attempt'[w].pc = CASE j \in Reporting -> "tool"
                           [] KindOf[j] \in {"rules", "sca"} /\ j \notin Reporting
                                -> "write"
                           [] KindOf[j] = "antares" -> "begin"
                           [] KindOf[j] = "llm" -> "ask"
    BY <1>1 DEF Begin
  <1>3. QED
    BY <1>1, <1>2 DEF Begin, DetectorKind, At, results, budget

\* Nobody else has to do with the attempts.
LEMMA OthersLeaveJobs ==
  ASSUME [Next]_vars, ~(\E w \in Worker : DetectorStep(w)), ~\E j \in Job : Lapse(j)
  PROVE  UNCHANGED <<attempt, job, goals, coverage, lapses>> /\ faults' \in {faults, faults + 1}
  <1>1. Judge \/ Write \/ Repair \/ UNCHANGED vars \/ \E j \in Job : Tamper(j)
    BY DEF Next, Detect, DetectorStep
  <1>2. QED
    BY <1>1 DEF Tamper, Judge, ListFindings, ReadEvidence, AddContext, GiveVerdict,
                NoteGap, CloseTriage, EnqueueReporter, TriageRaise, Write,
                ListSurvivors, WriteReport, ReportRaise, Repair, OpenFix, ApplyFix,
                DiffTree, Branch, PublishFix, RaiseFix, vars, detecting, results,
                budget, SetVerdict, AddEvidence, AddRuleGap

LEMMA SerialStays ==
  ASSUME TypeInv, SerialInv, [Next]_vars
  PROVE  SerialInv'
  <1>1. /\ attempt \in [Worker -> Attempt] /\ lapses \in Nat
        /\ job \in [Job -> {"none", "open", "claimed", "closed"}]
    BY DEF TypeInv, TypeOK, Attempt
  <1>2. /\ \A w \in Worker : attempt[w].pc # "idle" => job[attempt[w].job] # "none"
        /\ \A w \in Worker : lapses = 0 /\ attempt[w].pc # "idle" =>
             job[attempt[w].job] = (IF attempt[w].pc = "advance" THEN "closed" ELSE "claimed")
        /\ \A v, w \in Worker :
             /\ lapses = 0 /\ attempt[v].pc # "idle" /\ attempt[w].pc # "idle"
             /\ attempt[v].job = attempt[w].job
             => v = w
    BY DEF SerialInv, At, JobOf
  <1>3. \A w \in Worker : attempt[w].job \in Job
    BY <1>1 DEF Attempt
  <1>4. ASSUME
          \A w \in Worker : attempt'[w].pc # "idle" => job'[attempt'[w].job] # "none",
          \A w \in Worker : lapses' = 0 /\ attempt'[w].pc # "idle" =>
            job'[attempt'[w].job] =
              (IF attempt'[w].pc = "advance" THEN "closed" ELSE "claimed"),
          \A v, w \in Worker :
            /\ lapses' = 0 /\ attempt'[v].pc # "idle" /\ attempt'[w].pc # "idle"
            /\ attempt'[v].job = attempt'[w].job
            => v = w
        PROVE  SerialInv'
    BY <1>4 DEF SerialInv, At, JobOf
  <1>5. ASSUME NEW w \in Worker, NEW j \in Job, Begin(w, j)
        PROVE  SerialInv'
    <2>1. /\ \A v \in Worker : v # w => attempt'[v] = attempt[v]
          /\ lapses' = lapses /\ job[j] = "open" /\ job' = [job EXCEPT ![j] = "claimed"]
          /\ attempt'[w].job = j /\ attempt'[w].pc \notin {"idle", "advance"}
      BY <1>5, BeginSteps
    <2>2. \A k \in Job : job'[k] = IF k = j THEN "claimed" ELSE job[k]
      BY <1>1, <2>1
    <2>3. \A v \in Worker : lapses = 0 /\ attempt[v].pc # "idle" => attempt[v].job # j
      BY <1>2, <2>1
    <2>4. ASSUME NEW v \in Worker, attempt'[v].pc # "idle"
          PROVE  job'[attempt'[v].job] # "none"
      <3>1. CASE v = w
        BY <2>1, <2>2, <3>1
      <3>2. CASE v # w
        BY <1>2, <1>3, <2>1, <2>2, <2>4, <3>2
      <3>3. QED
        BY <3>1, <3>2
    <2>5. ASSUME NEW v \in Worker, lapses' = 0, attempt'[v].pc # "idle"
          PROVE  job'[attempt'[v].job] =
                   (IF attempt'[v].pc = "advance" THEN "closed" ELSE "claimed")
      <3>1. CASE v = w
        BY <2>1, <2>2, <3>1
      <3>2. CASE v # w
        <4>1. attempt'[v] = attempt[v] /\ lapses = 0 /\ attempt[v].job # j
          BY <2>1, <2>3, <2>5, <3>2
        <4>2. job'[attempt[v].job] = job[attempt[v].job]
          BY <1>3, <2>2, <2>5, <4>1
        <4>3. QED
          BY <1>2, <2>5, <4>1, <4>2
      <3>3. QED
        BY <3>1, <3>2
    <2>6. ASSUME NEW u \in Worker, NEW v \in Worker, lapses' = 0,
                attempt'[u].pc # "idle", attempt'[v].pc # "idle",
                attempt'[u].job = attempt'[v].job
          PROVE  u = v
      <3>1. CASE u # w /\ v # w
        <4>1. attempt'[u] = attempt[u] /\ attempt'[v] = attempt[v] /\ lapses = 0
          BY <2>1, <2>6, <3>1
        <4>2. QED
          BY <1>2, <2>6, <4>1
      <3>2. CASE u = w /\ v # w
        <4>1. attempt'[v] = attempt[v] /\ attempt'[u].job = j /\ lapses = 0
          BY <2>1, <2>6, <3>2
        <4>2. QED
          BY <2>3, <2>6, <3>2, <4>1
      <3>3. CASE u # w /\ v = w
        <4>1. attempt'[u] = attempt[u] /\ attempt'[v].job = j /\ lapses = 0
          BY <2>1, <2>6, <3>3
        <4>2. QED
          BY <2>3, <2>6, <3>3, <4>1
      <3>4. QED
        BY <3>1, <3>2, <3>3
    <2>7. QED
      BY <1>4, <2>4, <2>5, <2>6
  <1>6. ASSUME NEW w \in Worker, DetectorStep(w), ~\E j \in Job : Begin(w, j)
        PROVE  SerialInv'
    <2>1. PICK j \in Job : j = attempt[w].job
      BY <1>3
    <2>2. /\ \A v \in Worker : v # w => attempt'[v] = attempt[v]
          /\ lapses' = lapses /\ attempt[w].pc # "idle"
          /\ attempt'[w].pc # "idle" => attempt'[w].job = j
      BY <1>6, <2>1, AttemptSteps
    <2>3. \/ /\ attempt[w].pc \notin {"advance", "complete"} /\ job' = job
             /\ attempt'[w].pc \notin {"idle", "advance"}
          \/ /\ attempt[w].pc = "complete" /\ attempt'[w].pc = "advance"
             /\ job' = [job EXCEPT ![j] = "closed"]
          \/ attempt'[w].pc = "idle" /\ (job' = job \/ job' = [job EXCEPT ![j] = "open"])
      BY <1>6, <2>1, AttemptSteps
    <2>4. /\ \A k \in Job : k # j => job'[k] = job[k]
          /\ job'[j] = job[j] \/ job'[j] \in {"open", "closed"}
          /\ attempt'[w].pc = "advance" => job'[j] = "closed"
          /\ attempt'[w].pc \notin {"idle", "advance"} =>
               job'[j] = job[j] /\ attempt[w].pc # "advance"
      BY <1>1, <2>3
    <2>5. \A v \in Worker :
            lapses = 0 /\ attempt[v].pc # "idle" /\ v # w => attempt[v].job # j
      BY <1>2, <2>1, <2>2
    <2>6. ASSUME NEW v \in Worker, attempt'[v].pc # "idle"
          PROVE  job'[attempt'[v].job] # "none"
      <3>1. CASE v = w
        BY <1>2, <2>1, <2>2, <2>4, <2>6, <3>1
      <3>2. CASE v # w
        <4>1. attempt'[v] = attempt[v] /\ attempt[v].job \in Job
          BY <1>3, <2>2, <3>2
        <4>2. job[attempt[v].job] # "none"
          BY <1>2, <2>6, <4>1
        <4>3. QED
          BY <2>4, <4>1, <4>2, ZenonT(60)
      <3>3. QED
        BY <3>1, <3>2
    <2>7. ASSUME NEW v \in Worker, lapses' = 0, attempt'[v].pc # "idle"
          PROVE  job'[attempt'[v].job] =
                   (IF attempt'[v].pc = "advance" THEN "closed" ELSE "claimed")
      <3>1. CASE v = w
        BY <1>2, <2>1, <2>2, <2>4, <2>7, <3>1
      <3>2. CASE v # w
        <4>1. /\ attempt'[v] = attempt[v] /\ attempt[v].job \in Job /\ lapses = 0
              /\ attempt[v].job # j
          BY <1>3, <2>2, <2>5, <2>7, <3>2
        <4>2. job'[attempt[v].job] = job[attempt[v].job]
          BY <2>4, <4>1
        <4>3. QED
          BY <1>2, <2>7, <4>1, <4>2
      <3>3. QED
        BY <3>1, <3>2
    <2>8. ASSUME NEW u \in Worker, NEW v \in Worker, lapses' = 0,
                attempt'[u].pc # "idle", attempt'[v].pc # "idle",
                attempt'[u].job = attempt'[v].job
          PROVE  u = v
      <3>1. CASE u # w /\ v # w
        <4>1. attempt'[u] = attempt[u] /\ attempt'[v] = attempt[v] /\ lapses = 0
          BY <2>2, <2>8, <3>1
        <4>2. QED
          BY <1>2, <2>8, <4>1
      <3>2. CASE u = w /\ v # w
        <4>1. attempt'[v] = attempt[v] /\ attempt'[u].job = j /\ lapses = 0
          BY <2>2, <2>8, <3>2
        <4>2. QED
          BY <2>5, <2>8, <3>2, <4>1
      <3>3. CASE u # w /\ v = w
        <4>1. attempt'[u] = attempt[u] /\ attempt'[v].job = j /\ lapses = 0
          BY <2>2, <2>8, <3>3
        <4>2. QED
          BY <2>5, <2>8, <3>3, <4>1
      <3>4. QED
        BY <3>1, <3>2, <3>3
    <2>9. QED
      BY <1>4, <2>6, <2>7, <2>8
  <1>7. ASSUME NEW j \in Job, Lapse(j) PROVE SerialInv'
    <2>1. attempt' = attempt /\ lapses' # 0 /\ job' = [job EXCEPT ![j] = "open"]
      BY <1>1, <1>7 DEF Lapse
    <2>2. \A k \in Job : job'[k] = job[k] \/ job'[k] = "open"
      BY <1>1, <2>1
    <2>3. \A v \in Worker : attempt'[v].pc # "idle" => job'[attempt'[v].job] # "none"
      BY <1>2, <1>3, <2>1, <2>2
    <2>4. QED
      BY <1>4, <2>1, <2>3
  <1>8. CASE ~(\E w \in Worker : DetectorStep(w)) /\ ~\E j \in Job : Lapse(j)
    <2>1. UNCHANGED <<attempt, job, lapses>>
      BY <1>8, OthersLeaveJobs
    <2>2. QED
      BY <1>2, <1>4, <2>1
  <1>9. QED
    BY <1>5, <1>6, <1>7, <1>8

\* There is an attempt at the job that is not past these points, or, after an
\* exception, another attempt will have to be made.
Pending(j, labels) ==
  \/ \E w \in Worker : attempt[w].job = j /\ attempt[w].pc \in labels
  \/ faults > 0 /\ lapses = 0 /\ job[j] = "open"

\* That stays so when no attempt but one that raises gets past the points.
LEMMA PendingStays ==
  ASSUME TypeInv, SerialInv, [Next]_vars, faults' = 0 \/ lapses' = 0,
         NEW j \in Job,
         NEW labels \in SUBSET {"tool", "writing", "read", "unlink", "begin", "ask",
                               "down", "write", "goals", "complete"},
         Pending(j, labels),
         \A w \in Worker :
           DetectorStep(w) /\ ~Raise(w) /\ attempt[w].job = j /\ attempt[w].pc \in labels
             => attempt'[w].pc \in labels,
         \A w \in Worker : Begin(w, j) => attempt'[w].pc \in labels
  PROVE  Pending(j, labels)'
  <1>1. /\ attempt \in [Worker -> Attempt] /\ faults \in Nat /\ lapses \in Nat
        /\ job \in [Job -> {"none", "open", "claimed", "closed"}]
    BY DEF TypeInv, TypeOK, Attempt
  <1>2. CASE \E w \in Worker : attempt[w].job = j /\ attempt[w].pc \in labels
    <2>1. PICK w \in Worker : attempt[w].job = j /\ attempt[w].pc \in labels
      BY <1>2
    <2>2. CASE attempt'[w] = attempt[w]
      BY <2>1, <2>2 DEF Pending
    <2>3. CASE DetectorStep(w)
      <3>1. ~\E k \in Job : Begin(w, k)
        BY <2>1 DEF Begin, At
      <3>2. CASE Raise(w)
        <4>1. /\ faults' = faults + 1 /\ lapses' = lapses
              /\ job' = [job EXCEPT ![j] = "open"]
          BY <2>1, <3>2 DEF Raise, JobOf
        <4>2. QED
          BY <1>1, <4>1 DEF Pending
      <3>3. CASE ~Raise(w)
        <4>1. attempt'[w].pc \in labels
          BY <2>1, <2>3, <3>3
        <4>2. attempt'[w].job = j
          BY <2>1, <2>3, <3>1, <3>3, <4>1, AttemptSteps
        <4>3. QED
          BY <4>1, <4>2 DEF Pending
      <3>4. QED
        BY <3>2, <3>3
    <2>4. CASE \E v \in Worker \ {w} : DetectorStep(v)
      <3>1. attempt'[w] = attempt[w]
        BY <2>4, AttemptSteps, BeginSteps
      <3>2. QED
        BY <2>2, <3>1
    <2>5. CASE \E k \in Job : Lapse(k)
      BY <2>2, <2>5 DEF Lapse
    <2>6. QED
      BY <2>2, <2>3, <2>4, <2>5, OthersLeaveJobs
  <1>3. CASE faults > 0 /\ lapses = 0 /\ job[j] = "open"
    <2>1. CASE \E k \in Job : Lapse(k)
      <3>1. faults' = faults /\ lapses' = lapses + 1
        BY <2>1 DEF Lapse
      <3>2. QED
        BY <1>1, <1>3, <3>1
    <2>2. ASSUME NEW w \in Worker, NEW k \in Job, Begin(w, k)
          PROVE  Pending(j, labels)'
      <3>1. /\ UNCHANGED <<faults, lapses>> /\ attempt'[w].job = k
            /\ job' = [job EXCEPT ![k] = "claimed"]
        BY <2>2, BeginSteps
      <3>2. CASE k = j
        BY <2>2, <3>1, <3>2 DEF Pending
      <3>3. CASE k # j
        BY <1>1, <1>3, <3>1, <3>3 DEF Pending
      <3>4. QED
        BY <3>2, <3>3
    <2>3. ASSUME NEW w \in Worker, DetectorStep(w), ~\E k \in Job : Begin(w, k)
          PROVE  Pending(j, labels)'
      <3>1. /\ lapses' = lapses /\ attempt[w].pc # "idle"
            /\ \/ job' = job
               \/ attempt[w].pc = "complete" /\ job' = [job EXCEPT ![attempt[w].job] = "closed"]
               \/ job' = [job EXCEPT ![attempt[w].job] = "open"]
        BY <2>3, AttemptSteps
      <3>2. attempt[w].pc = "complete" => attempt[w].job # j
        BY <1>3 DEF SerialInv, At, JobOf
      <3>3. job'[j] = "open"
        BY <1>1, <1>3, <3>1, <3>2
      <3>4. faults' > 0
        <4>1. faults' \in {faults, faults + 1}
          BY <2>3, ToolSteps
          DEF DetectorStep, CoverRunning, Answer, Sweep, ModelDown, RecordDown,
              WriteFinding, WriteEvidence, Cover, Synthesize, Complete, Advance,
              Raise, budget
        <4>2. QED
          BY <1>1, <1>3, <4>1
      <3>5. QED
        BY <1>3, <3>1, <3>3, <3>4 DEF Pending
    <2>4. CASE ~(\E w \in Worker : DetectorStep(w)) /\ ~\E k \in Job : Lapse(k)
      <3>1. UNCHANGED <<job, lapses>> /\ faults' \in {faults, faults + 1}
        BY <2>4, OthersLeaveJobs
      <3>2. QED
        BY <1>1, <1>3, <3>1 DEF Pending
    <2>5. QED
      BY <2>1, <2>2, <2>3, <2>4
  <1>4. QED
    BY <1>2, <1>3 DEF Pending

----------------------------------------------------------------------------
(* What a closed detector task has written. *)

\* The job is sure to find its hits: a tool's report is that of the attempt that
\* reads it, as long as nothing happened to the report and no other attempt did.
Trusted(j) ==
  /\ KindOf[j] \in {"rules", "sca"}
  /\ j \in Reporting => lapses = 0 /\ spoiled = 0

\* The first n rows of a hit's evidence are in the store, and its finding.
WrittenTo(hit, n) ==
  /\ StateOf(hit.finding) # "absent"
  /\ \A k \in 1..n : hit.kinds[k] \in Kinds(EvidenceOf(hit.finding))

Written(j, i) == WrittenTo(HitsOf[j][i], Len(HitsOf[j][i].kinds))

BeforeReport == {"tool", "writing", "read"}

\* An attempt at a job that is sure of its hits has written all but what is left
\* of them, once it has read its tool's report, and what it is past of the next
\* hit.
Wrote(a) ==
  Trusted(a.job) /\ a.pc # "idle" =>
    /\ a.pc \in BeforeReport \cup {"unlink", "write", "goals", "complete", "advance"}
    /\ a.pc \in {"goals", "complete", "advance"} => a.left = {}
    /\ a.pc \notin BeforeReport =>
         \A i \in DOMAIN HitsOf[a.job] \ a.left : Written(a.job, i)
    /\ a.row > 0 => WrittenTo(HitsOf[a.job][First(a.left)], a.row - 1)

RecordInv ==
  /\ \A w \in Worker : Wrote(attempt[w])
  /\ \A j \in Job : job[j] = "closed" /\ Trusted(j) =>
       \A i \in DOMAIN HitsOf[j] : Written(j, i)

\* While nothing spoils it, the report is that of the one attempt at its job.
OutputInv ==
  \A w \in Worker :
    /\ attempt[w].pc \in BeforeReport \cup {"unlink"} => attempt[w].job \in Reporting
    /\ lapses = 0 /\ spoiled = 0 =>
         /\ attempt[w].pc = "writing" => output[attempt[w].job] = "part"
         /\ attempt[w].pc = "read" => output[attempt[w].job] = "full"

\* Nothing is taken out of the store, and what went wrong is not undone.
Grows ==
  /\ evidence \subseteq evidence'
  /\ \A f \in Fingerprint : StateOf(f) # "absent" => StateOf(f)' # "absent"
  /\ \A j \in Job : Trusted(j)' => Trusted(j)

LEMMA TroublesGrow ==
  ASSUME TypeInv, [Next]_vars
  PROVE  faults <= faults' /\ lapses <= lapses' /\ spoiled <= spoiled'
  <1>1. faults \in Nat /\ lapses \in Nat /\ spoiled \in Nat
    BY DEF TypeInv, TypeOK
  <1>2. ASSUME NEW j \in Job, Lapse(j) \/ Tamper(j)
        PROVE  /\ faults' = faults /\ lapses' \in {lapses, lapses + 1}
               /\ spoiled' \in {spoiled, spoiled + 1}
    BY <1>2 DEF Lapse, Tamper
  <1>3. ASSUME NEW w \in Worker, DetectorStep(w), ~RunTool(w)
        PROVE  /\ lapses' = lapses /\ spoiled' = spoiled
               /\ faults' \in {faults, faults + 1}
    BY <1>3 DEF DetectorStep, Begin, CoverRunning, Answer, Sweep, ModelDown, RecordDown,
                WriteFinding, WriteEvidence, Cover, Synthesize, Complete, Advance,
                Raise, budget
  <1>4. ASSUME NEW w \in Worker, RunTool(w)
        PROVE  lapses' = lapses /\ faults' = faults /\ spoiled <= spoiled'
    BY <1>4, ToolSteps
  <1>5. CASE Judge \/ Write \/ Repair \/ UNCHANGED vars
    <2>1. /\ lapses' = lapses /\ spoiled' = spoiled
          /\ faults' \in {faults, faults + 1}
      BY <1>5 DEF Judge, ListFindings, ReadEvidence, AddContext, GiveVerdict, NoteGap,
                  CloseTriage, EnqueueReporter, TriageRaise, Write, ListSurvivors,
                  WriteReport, ReportRaise, Repair, OpenFix, ApplyFix, DiffTree, Branch,
                  PublishFix, RaiseFix, vars, budget
    <2>2. QED
      BY <1>1, <2>1
  <1>6. CASE Detect
    <2>1. \/ \E w \in Worker : DetectorStep(w)
          \/ \E j \in Job : Lapse(j) \/ Tamper(j)
      BY <1>6 DEF Detect, DetectorStep
    <2>2. QED
      BY <1>1, <1>2, <1>3, <1>4, <2>1
  <1>7. QED
    BY <1>5, <1>6 DEF Next

LEMMA NoTroubleBefore ==
  ASSUME TypeInv, [Next]_vars, faults' = 0 \/ lapses' = 0
  PROVE  faults = 0 \/ lapses = 0
  <1>1. faults \in Nat /\ lapses \in Nat
    BY DEF TypeInv, TypeOK
  <1>2. QED
    BY <1>1, TroublesGrow

LEMMA StoreGrows ==
  ASSUME GateInv, [Next]_vars
  PROVE  Grows
  <1>1. TypeInv
    BY DEF GateInv
  <1>2. \A j \in Job : Trusted(j)' => Trusted(j)
    <2>1. /\ lapses <= lapses' /\ spoiled <= spoiled'
          /\ lapses \in Nat /\ spoiled \in Nat
      BY <1>1, TroublesGrow DEF TypeInv, TypeOK
    <2>2. QED
      BY <2>1 DEF Trusted
  <1>3. CASE Detect \/ Write \/ UNCHANGED vars
    BY <1>1, <1>3, <1>2, DetectSteps, DetectGateInv DEF Grows
  <1>4. CASE Judge
    <2>1. evidence \subseteq evidence'
      BY <1>4 DEF Judge, ListFindings, ReadEvidence, AddContext, GiveVerdict, NoteGap,
                  AddRuleGap, CloseTriage, EnqueueReporter, TriageRaise, results,
                  AddEvidence, SetVerdict
    <2>2. QED
      BY <1>4, <1>2, <2>1, JudgeGateInv DEF Grows
  <1>5. CASE Repair
    <2>1. evidence' = evidence
      BY <1>5 DEF Repair, OpenFix, ApplyFix, DiffTree, Branch, PublishFix, RaiseFix,
                  SetVerdict, results
    <2>2. QED
      BY <1>5, <1>2, <2>1, RepairGateInv DEF Grows
  <1>6. QED
    BY <1>3, <1>4, <1>5 DEF Next

LEMMA HitOfJob ==
  ASSUME NEW j \in Job, NEW i \in DOMAIN HitsOf[j]
  PROVE  /\ HitsOf[j][i] \in Hit /\ HitsOf[j][i].finding \in Fingerprint
         /\ HitsOf[j][i].kinds \in Seq(EvidenceKind)
  <1>1. HitsOf[j] \in Seq(Hit)
    OBVIOUS
  <1>2. HitsOf[j][i] \in Hit
    BY <1>1
  <1>3. QED
    BY <1>2 DEF Hit

LEMMA WrittenStays ==
  ASSUME Grows, NEW hit, hit.finding \in Fingerprint, NEW n, WrittenTo(hit, n)
  PROVE  WrittenTo(hit, n)'
  <1>1. Kinds(EvidenceOf(hit.finding)) \subseteq Kinds(EvidenceOf(hit.finding)')
    BY DEF Grows, Kinds, EvidenceOf
  <1>2. StateOf(hit.finding)' # "absent"
    BY DEF Grows, WrittenTo
  <1>3. QED
    BY <1>1, <1>2 DEF WrittenTo, Kinds, StateOf

\* What an attempt has written stays written.
LEMMA WroteStays ==
  ASSUME Grows, NEW a \in Attempt, Wrote(a),
         a.pc = "write" => a.left \subseteq DOMAIN HitsOf[a.job],
         a.row > 0 => a.pc = "write" /\ a.left # {}
  PROVE  Wrote(a)'
  <1>1. a.job \in Job
    BY DEF Attempt
  <1>2. SUFFICES ASSUME Trusted(a.job), a.pc # "idle"
                 PROVE  Wrote(a)'
    BY <1>1 DEF Wrote, Grows
  <1>3. ASSUME a.pc \notin BeforeReport, NEW i \in DOMAIN HitsOf[a.job] \ a.left
        PROVE  Written(a.job, i)'
    BY <1>2, <1>1, <1>3, HitOfJob, WrittenStays DEF Wrote, Written
  <1>4. ASSUME a.row > 0
        PROVE  WrittenTo(HitsOf[a.job][First(a.left)], a.row - 1)'
    <2>1. First(a.left) \in DOMAIN HitsOf[a.job]
      BY <1>4, FirstIsLeft DEF Attempt
    <2>2. QED
      BY <1>2, <1>1, <1>4, <2>1, HitOfJob, WrittenStays DEF Wrote
  <1>5. QED
    BY <1>2, <1>3, <1>4 DEF Wrote

\* A step of one worker.
LEMMA OneWrites ==
  ASSUME TypeInv, Grows, RecordInv, NEW w \in Worker, NEW a,
         attempt' = [attempt EXCEPT ![w] = a], Wrote(a)',
         \A j \in Job : job'[j] = "closed" /\ Trusted(j) =>
           job[j] = "closed" \/ \A i \in DOMAIN HitsOf[j] : Written(j, i)
  PROVE  RecordInv'
  <1>1. \A q \in Worker : attempt[q] \in Attempt
    BY DEF TypeInv, TypeOK, Attempt
  <1>2. ASSUME NEW q \in Worker PROVE Wrote(attempt[q])'
    <2>1. CASE q = w
      <3>1. attempt'[q] = a
        BY <2>1 DEF TypeInv, TypeOK
      <3>2. QED
        BY <3>1 DEF Wrote
    <2>2. CASE q # w
      <3>1. attempt'[q] = attempt[q]
        BY <2>2 DEF TypeInv, TypeOK
      <3>2. Wrote(attempt[q])
        BY DEF RecordInv
      <3>3. QED
        BY <1>1, <3>1, <3>2, WroteStays DEF TypeInv, AttemptInv, At, JobOf, Wrote
    <2>3. QED
      BY <2>1, <2>2
  <1>3. ASSUME NEW j \in Job, job'[j] = "closed", Trusted(j)', NEW i \in DOMAIN HitsOf[j]
        PROVE  Written(j, i)'
    <2>1. Written(j, i)
      BY <1>3 DEF RecordInv, Grows
    <2>2. QED
      BY <2>1, HitOfJob, WrittenStays DEF Written
  <1>4. QED
    BY <1>2, <1>3 DEF RecordInv

\* What the next write of an attempt adds.
LEMMA WriteRecords ==
  ASSUME GateInv, RecordInv, Grows, NEW w \in Worker,
         WriteFinding(w) \/ WriteEvidence(w)
  PROVE  RecordInv'
  <1>1. PICK old : old = attempt[w]
    OBVIOUS
  <1> DEFINE i == First(old.left)
             hit == HitsOf[old.job][i]
             rows == Len(hit.kinds)
  <1>2. /\ TypeInv /\ old \in Attempt /\ old.pc = "write" /\ old.left # {}
        /\ job' = job
    BY <1>1 DEF GateInv, TypeInv, TypeOK, Attempt, At, WriteFinding, WriteEvidence,
                AttemptInv
  <1>3. /\ i \in old.left /\ i \in DOMAIN HitsOf[old.job] /\ old.job \in Job
        /\ hit \in Hit /\ hit.finding \in Fingerprint
        /\ hit.kinds \in Seq(EvidenceKind) /\ 1 <= rows
    <2>1. i \in old.left
      BY <1>2, FirstIsLeft DEF Attempt
    <2>2. i \in DOMAIN HitsOf[old.job] /\ old.job \in Job
      BY <1>1, <1>2, <2>1 DEF TypeInv, AttemptInv, At, JobOf, Attempt
    <2>3. QED
      BY <1>1, <1>2, <2>1, <2>2, HitOfJob, NextHitIsHit DEF NextHit, JobOf, At
  <1>4. hit = NextHit(w)
    BY <1>1 DEF NextHit, JobOf
  <1>5. Wrote(old)
    BY <1>1 DEF RecordInv
  <1>6. ASSUME Trusted(old.job), NEW k \in DOMAIN HitsOf[old.job] \ old.left
        PROVE  Written(old.job, k)'
    <2>1. Written(old.job, k)
      BY <1>2, <1>5, <1>6 DEF Wrote, BeforeReport
    <2>2. QED
      BY <1>3, <2>1, HitOfJob, WrittenStays DEF Written
  <1> HIDE DEF i, hit, rows
  <1>7. Trusted(old.job)' => Trusted(old.job)
    BY <1>3 DEF Grows
  <1>8. CASE WriteFinding(w)
    <2> DEFINE a == [old EXCEPT !.row = 1]
    <2>1. attempt' = [attempt EXCEPT ![w] = a]
      BY <1>1, <1>2, <1>8 DEF WriteFinding, TypeInv, TypeOK
    <2>2. a.job = old.job /\ a.left = old.left /\ a.pc = "write" /\ a.row = 1
      BY <1>2 DEF Attempt
    <2>3. StateOf(hit.finding)' # "absent"
      <3>1. UpsertFinding(hit) /\ hit.state # "absent"
        BY <1>3, <1>4, <1>8 DEF WriteFinding, Hit
      <3>2. findings \in [Fingerprint -> FindingRow]
        BY <1>2 DEF TypeInv, TypeOK, ResultsTypeOK
      <3>3. findings'[hit.finding] = Upserted(findings[hit.finding], hit)
        BY <1>3, <3>1, <3>2 DEF UpsertFinding
      <3>4. findings'[hit.finding].state # "absent"
        BY <1>3, <3>1, <3>2, <3>3 DEF Upserted, FindingRow
      <3>5. QED
        BY <3>4 DEF StateOf
    <2> HIDE DEF a
    <2>4. WrittenTo(hit, 0)'
      BY <2>3 DEF WrittenTo
    <2>5. Wrote(a)'
      <3>1. SUFFICES ASSUME Trusted(old.job) PROVE Wrote(a)'
        BY <1>7, <2>2 DEF Wrote, Trusted
      <3>2. QED
        BY <1>6, <2>2, <2>4, <3>1 DEF Wrote, hit, i
    <2>6. QED
      BY <1>2, <2>1, <2>5, OneWrites
  <1>9. CASE WriteEvidence(w)
    <2> DEFINE last == old.row = rows
               a == [old EXCEPT !.row = IF last THEN 0 ELSE @ + 1,
                                !.left = IF last THEN @ \ {First(@)} ELSE @]
    <2>1. attempt' = [attempt EXCEPT ![w] = a]
      BY <1>1, <1>2, <1>4, <1>9, ZenonT(60)
      DEF WriteEvidence, TypeInv, TypeOK, rows, hit
    <2>2. /\ a.job = old.job /\ a.pc = "write"
          /\ a.left = (IF last THEN old.left \ {i} ELSE old.left)
          /\ a.row = (IF last THEN 0 ELSE old.row + 1)
      BY <1>2 DEF Attempt, i
    <2>3. old.row \in Nat /\ old.row > 0 /\ old.row <= rows /\ rows \in Nat
      BY <1>1, <1>2, <1>3, <1>4, <1>9
      DEF WriteEvidence, TypeInv, AttemptInv, Attempt, rows, hit
    <2>4. AddEvidence(hit.finding, hit.kinds[old.row], hit.cited)
      BY <1>1, <1>4, <1>9 DEF WriteEvidence, hit
    <2>5. hit.kinds[old.row] \in Kinds(EvidenceOf(hit.finding))'
      <3>1. [finding |-> hit.finding, kind |-> hit.kinds[old.row], cited |-> hit.cited]
              \in EvidenceOf(hit.finding)'
        BY <2>4 DEF AddEvidence, EvidenceOf
      <3>2. QED
        BY <3>1 DEF Kinds
    <2>6. Trusted(old.job) => WrittenTo(hit, old.row)'
      <3>1. SUFFICES ASSUME Trusted(old.job) PROVE WrittenTo(hit, old.row)'
        OBVIOUS
      <3>2. WrittenTo(hit, old.row - 1)
        BY <1>2, <1>5, <2>3, <3>1 DEF Wrote, hit, i
      <3>3. WrittenTo(hit, old.row - 1)'
        BY <1>3, <3>2, WrittenStays
      <3>4. QED
        BY <2>3, <2>5, <3>3, SMTT(30) DEF WrittenTo
    <2> HIDE DEF a
    <2>7. Wrote(a)'
      <3>1. SUFFICES ASSUME Trusted(old.job) PROVE Wrote(a)'
        BY <1>7, <2>2 DEF Wrote, Trusted
      <3>2. CASE last
        <4>1. Written(old.job, i)'
          BY <2>6, <3>1, <3>2 DEF Written, hit, rows
        <4>2. a.left = old.left \ {i} /\ a.row = 0
          BY <2>2, <3>2
        <4>3. \A k \in DOMAIN HitsOf[old.job] \ a.left : Written(old.job, k)'
          BY <1>6, <3>1, <4>1, <4>2
        <4>4. QED
          BY <2>2, <4>2, <4>3 DEF Wrote
      <3>3. CASE ~last
        <4>1. a.left = old.left /\ a.row = old.row + 1 /\ a.row - 1 = old.row
          BY <2>2, <2>3, <3>3
        <4>2. QED
          BY <1>6, <2>2, <2>6, <3>1, <4>1 DEF Wrote, hit, i
      <3>4. QED
        BY <3>2, <3>3
    <2>8. QED
      BY <1>2, <2>1, <2>7, OneWrites
  <1>10. QED
    BY <1>8, <1>9

\* A worker moves on, gives up, or has not begun to write.
LEMMA MoveRecords ==
  ASSUME GateInv, RecordInv, Grows, NEW w \in Worker,
         \/ \E j \in Job : Begin(w, j)
         \/ CoverRunning(w) \/ Answer(w) \/ Sweep(w) \/ ModelDown(w) \/ RecordDown(w)
         \/ Cover(w) \/ Synthesize(w) \/ Complete(w) \/ Advance(w) \/ Raise(w)
  PROVE  RecordInv'
  <1>1. PICK old : old = attempt[w]
    OBVIOUS
  <1>2. TypeInv /\ old \in Attempt /\ Wrote(old) /\ attempt \in [Worker -> Attempt]
    BY <1>1 DEF GateInv, TypeInv, TypeOK, Attempt, RecordInv
  <1>3. \A q \in Worker : Wrote(attempt[q]) /\ attempt[q] \in Attempt
    BY <1>2 DEF RecordInv
  <1>4. /\ old.pc = "write" => old.left \subseteq DOMAIN HitsOf[old.job]
        /\ old.row > 0 => old.pc = "write" /\ old.left # {}
    BY <1>1, <1>2 DEF TypeInv, AttemptInv, At, JobOf
  <1>5. Wrote(old)'
    BY <1>2, <1>4, WroteStays
  <1>6. old.job \in Job
    BY <1>2 DEF Attempt
  <1>7. ASSUME NEW label, Goto(w, label),
               Trusted(old.job) => /\ label \in {"goals", "complete", "advance"}
                                   /\ old.left = {}
                                   /\ old.pc \notin BeforeReport \cup {"idle"}
        PROVE  \E a : attempt' = [attempt EXCEPT ![w] = a] /\ Wrote(a)'
    <2> DEFINE a == [old EXCEPT !.pc = label]
    <2>1. attempt' = [attempt EXCEPT ![w] = a]
      BY <1>1, <1>2, <1>7 DEF Goto
    <2>2. a.job = old.job /\ a.left = old.left /\ a.row = old.row /\ a.pc = label
      BY <1>2 DEF Attempt
    <2> HIDE DEF a
    <2>3. CASE ~Trusted(old.job)
      BY <1>6, <2>1, <2>2, <2>3 DEF Wrote, Grows
    <2>4. CASE Trusted(old.job)
      <3>1. /\ label \in {"goals", "complete", "advance"} /\ old.left = {}
            /\ ~(old.row > 0) /\ old.pc \notin BeforeReport \cup {"idle"}
        BY <1>4, <1>7, <2>4
      <3>2. QED
        BY <1>5, <2>1, <2>2, <3>1 DEF Wrote, BeforeReport
    <2>5. QED
      BY <2>3, <2>4
  <1>8. CASE \E j \in Job : Begin(w, j)
    <2>1. PICK j \in Job : Begin(w, j)
      BY <1>8
    <2> DEFINE left == IF KindOf[j] \in {"rules", "sca"} /\ j \notin Reporting
                       THEN DOMAIN HitsOf[j] ELSE {}
               pc == CASE j \in Reporting -> "tool"
                       [] KindOf[j] \in {"rules", "sca"} /\ j \notin Reporting -> "write"
                       [] KindOf[j] = "antares" -> "begin"
                       [] KindOf[j] = "llm" -> "ask"
               a == [job |-> j, row |-> 0, sent |-> KindOf[j] \in {"rules", "sca"},
                     left |-> left, pc |-> pc]
    <2>2. attempt' = [attempt EXCEPT ![w] = a]
      BY <2>1 DEF Begin
    <2>3. Trusted(j)' => \/ pc = "write" /\ left = DOMAIN HitsOf[j]
                         \/ pc = "tool"
      BY DEF Trusted
    <2> HIDE DEF left, pc
    <2>4. a.job = j /\ a.row = 0 /\ a.left = left /\ a.pc = pc
      OBVIOUS
    <2> HIDE DEF a
    <2>5. Wrote(a)'
      <3>1. SUFFICES ASSUME Trusted(j)' PROVE Wrote(a)'
        BY <2>4 DEF Wrote, Trusted
      <3>2. QED
        BY <2>3, <2>4, <3>1 DEF Wrote, BeforeReport
    <2>6. \A k \in Job : job'[k] = "closed" => job[k] = "closed"
      BY <1>2, <2>1 DEF Begin, TypeInv, TypeOK
    <2>7. QED
      BY <1>2, <2>2, <2>5, <2>6, OneWrites
  <1>9. CASE CoverRunning(w) \/ Answer(w) \/ Sweep(w) \/ ModelDown(w) \/ RecordDown(w)
    <2>1. old.pc \in {"begin", "ask", "down"} /\ job' = job
      BY <1>1, <1>9 DEF CoverRunning, Answer, Sweep, ModelDown, RecordDown, At
    <2>2. ~Trusted(old.job)
      BY <1>2, <2>1 DEF Wrote, BeforeReport
    <2>3. CASE CoverRunning(w) \/ ModelDown(w) \/ RecordDown(w)
      <3>1. \E label : Goto(w, label)
        BY <2>3 DEF CoverRunning, ModelDown, RecordDown
      <3>2. QED
        BY <1>2, <1>7, <2>1, <2>2, <3>1, OneWrites
    <2>4. CASE Answer(w) \/ Sweep(w)
      <3>1. PICK found, sent :
              attempt' = [attempt EXCEPT ![w].pc = "write", ![w].left = found,
                                         ![w].sent = sent]
        BY <2>4 DEF Answer, Sweep, Told
      <3> DEFINE a == [old EXCEPT !.pc = "write", !.left = found, !.sent = sent]
      <3>2. attempt' = [attempt EXCEPT ![w] = a]
        BY <1>1, <1>2, <3>1
      <3>3. a.job = old.job
        BY <1>2 DEF Attempt
      <3> HIDE DEF a
      <3>4. Wrote(a)'
        BY <1>6, <2>2, <3>3 DEF Wrote, Grows
      <3>5. QED
        BY <1>2, <2>1, <3>2, <3>4, OneWrites
    <2>5. QED
      BY <1>9, <2>3, <2>4
  <1>10. CASE Cover(w) \/ Synthesize(w)
    <2>1. Trusted(old.job) => old.left = {} /\ old.pc \notin BeforeReport \cup {"idle"}
      BY <1>1, <1>2, <1>10 DEF Cover, Synthesize, At, Wrote, BeforeReport
    <2>2. /\ job' = job
          /\ \E label \in {"goals", "complete"} : Goto(w, label)
      BY <1>10 DEF Cover, Synthesize
    <2>3. QED
      BY <1>2, <1>7, <2>1, <2>2, OneWrites
  <1>11. CASE Complete(w)
    <2>1. old.pc = "complete" /\ Goto(w, "advance") /\ JobOf(w) = old.job
      BY <1>1, <1>11 DEF Complete, At, JobOf
    <2>2. Trusted(old.job) =>
            old.left = {} /\ \A i \in DOMAIN HitsOf[old.job] : Written(old.job, i)
      BY <1>2, <2>1 DEF Wrote, BeforeReport
    <2>3. \A j \in Job : job'[j] = "closed" => job[j] = "closed" \/ j = old.job
      BY <1>2, <1>11, <2>1 DEF Complete, TypeInv, TypeOK
    <2>4. PICK a : attempt' = [attempt EXCEPT ![w] = a] /\ Wrote(a)'
      BY <1>7, <2>1, <2>2 DEF BeforeReport
    <2>5. QED
      BY <1>2, <2>2, <2>3, <2>4, OneWrites
  <1>12. CASE Advance(w) \/ Raise(w)
    <2>1. attempt' = [attempt EXCEPT ![w] = Idle]
      BY <1>12 DEF Advance, Raise
    <2>2. \A j \in Job : job'[j] = "closed" => job[j] = "closed"
      BY <1>2, <1>12 DEF Advance, Raise, TypeInv, TypeOK
    <2>3. Idle.pc = "idle"
      BY DEF Idle
    <2>4. PICK a : a = Idle
      OBVIOUS
    <2>5. Wrote(a)'
      BY <2>3, <2>4 DEF Wrote
    <2>6. QED
      BY <1>2, <2>1, <2>2, <2>4, <2>5, OneWrites
  <1>13. QED
    BY <1>8, <1>9, <1>10, <1>11, <1>12

\* A report that is read says all; what is before that asks for nothing.
LEMMA ToolRecords ==
  ASSUME GateInv, RecordInv, OutputInv, Grows, NEW w \in Worker, RunTool(w)
  PROVE  RecordInv'
  <1>1. PICK old : old = attempt[w]
    OBVIOUS
  <1>2. /\ TypeInv /\ old \in Attempt /\ Wrote(old) /\ old.job \in Job
        /\ attempt \in [Worker -> Attempt] /\ job' = job
    BY <1>1, ToolSteps DEF GateInv, TypeInv, TypeOK, Attempt, RecordInv
  <1>3. PICK label \in {"writing", "read", "unlink", "write"},
          left \in {attempt[w].left, {}, DOMAIN HitsOf[JobOf(w)]} :
       /\ attempt' = [attempt EXCEPT ![w].pc = label, ![w].left = left]
       /\ label \in {"write", "unlink"} => left \subseteq DOMAIN HitsOf[JobOf(w)]
       /\ attempt[w].pc = "read" \/ left = attempt[w].left
    BY <1>2, ToolSteps, ZenonT(40)
  <1> DEFINE a == [old EXCEPT !.pc = label, !.left = left]
  <1>4. attempt' = [attempt EXCEPT ![w] = a]
    BY <1>1, <1>2, <1>3
  <1>5. a.job = old.job /\ a.left = left /\ a.row = old.row /\ a.pc = label
    BY <1>2 DEF Attempt
  <1> HIDE DEF a
  <1>6. old.pc = "read" \/ left = old.left
    BY <1>1, <1>3
  <1>7. old.pc \in {"tool", "writing", "read", "unlink"} /\ ~(old.row > 0)
    BY <1>1, <1>2, ToolSteps DEF TypeInv, AttemptInv, At
  <1>8. Wrote(a)'
    <2>1. SUFFICES ASSUME Trusted(a.job)'
                   PROVE  Wrote(a)'
      BY DEF Wrote
    <2>2. Trusted(old.job)
      BY <1>2, <1>5, <2>1 DEF Grows
    <2>3. CASE ReadReport(w)
      <3>1. old.pc = "read" /\ old.job \in Reporting
        BY <1>1, <2>3 DEF ReadReport, At, OutputInv, BeforeReport
      <3>2. output[JobOf(w)] = "full" /\ JobOf(w) = old.job
        BY <1>1, <2>2, <3>1 DEF Trusted, OutputInv, JobOf
      <3>3. attempt'[w].left = DOMAIN HitsOf[old.job]
        BY <1>2, <2>3, <3>2 DEF ReadReport, Attempt
      <3>4. a.left = DOMAIN HitsOf[a.job]
        BY <1>2, <1>4, <1>5, <3>3
      <3>5. QED
        BY <1>3, <1>5, <1>7, <1>6, <3>4 DEF Wrote, BeforeReport
    <2>4. CASE UnlinkReport(w)
      <3>1. old.pc = "unlink" /\ a.pc = "write" /\ a.left = old.left
        <4>1. old.pc = "unlink" /\ attempt'[w].pc = "write"
          BY <1>1, <1>2, <2>4 DEF UnlinkReport, Goto, At, Attempt
        <4>2. QED
          BY <1>2, <1>3, <1>4, <1>5, <1>6, <4>1
      <3>2. Wrote(old)'
        BY <1>1, <1>2, <3>1, WroteStays DEF TypeInv, AttemptInv, At
      <3>3. QED
        BY <1>5, <1>7, <2>1, <3>1, <3>2 DEF Wrote, BeforeReport
    <2>5. CASE OpenReport(w) \/ EndReport(w) \/ FailReport(w)
      <3>1. attempt'[w].pc \in BeforeReport
        BY <1>2, <2>5 DEF OpenReport, EndReport, FailReport, Goto, BeforeReport, Attempt
      <3>2. a.pc \in BeforeReport
        BY <1>2, <1>4, <3>1
      <3>3. QED
        BY <1>5, <1>7, <3>2 DEF Wrote, BeforeReport
    <2>6. QED
      BY <2>3, <2>4, <2>5 DEF RunTool
  <1>9. QED
    BY <1>2, <1>4, <1>8, OneWrites

\* Steps that are no worker's leave the attempts alone and close no job.
LEMMA NextRecordInv ==
  ASSUME GateInv, RecordInv, OutputInv, [Next]_vars
  PROVE  RecordInv'
  <1>1. TypeInv /\ Grows
    BY StoreGrows DEF GateInv
  <1>2. ASSUME attempt' = attempt,
               \A j \in Job : job'[j] = "closed" => job[j] = "closed"
        PROVE  RecordInv'
    <2>1. ASSUME NEW w \in Worker PROVE Wrote(attempt[w])'
      BY <1>1, <1>2, WroteStays
      DEF RecordInv, TypeInv, TypeOK, AttemptInv, Attempt, At, JobOf, Wrote
    <2>2. ASSUME NEW j \in Job, job'[j] = "closed", Trusted(j)', NEW i \in DOMAIN HitsOf[j]
          PROVE  Written(j, i)'
      <3>1. Written(j, i)
        BY <1>1, <1>2, <2>2 DEF RecordInv, Grows
      <3>2. QED
        BY <1>1, <3>1, HitOfJob, WrittenStays DEF Written
    <2>3. QED
      BY <2>1, <2>2 DEF RecordInv
  <1>3. CASE Detect
    <2>1. ASSUME NEW j \in Job, Lapse(j) \/ Tamper(j) PROVE RecordInv'
      BY <1>1, <1>2, <2>1 DEF Lapse, Tamper, TypeInv, TypeOK
    <2>2. QED
      BY <1>1, <1>3, <2>1, WriteRecords, MoveRecords, ToolRecords DEF Detect
  <1>4. CASE Judge \/ Write \/ Repair \/ UNCHANGED vars
    <2>1. attempt' = attempt /\ job' = job
      BY <1>4 DEF Judge, ListFindings, ReadEvidence, AddContext, GiveVerdict, NoteGap,
                  CloseTriage, EnqueueReporter, TriageRaise, Write, ListSurvivors,
                  WriteReport, ReportRaise, Repair, OpenFix, ApplyFix, DiffTree, Branch,
                  PublishFix, RaiseFix, vars, detecting
    <2>2. QED
      BY <1>2, <2>1
  <1>5. QED
    BY <1>3, <1>4 DEF Next

\* The steps of one worker leave the reports of other jobs alone.
LEMMA OutputStays ==
  ASSUME TypeInv, SerialInv, OutputInv, [Next]_vars
  PROVE  OutputInv'
  <1>1. /\ attempt \in [Worker -> Attempt] /\ lapses \in Nat /\ spoiled \in Nat
        /\ output \in [Job -> {"none", "part", "full"}]
        /\ lapses <= lapses' /\ spoiled <= spoiled'
    BY TroublesGrow DEF TypeInv, TypeOK, Attempt
  <1>2. \A v \in Worker : attempt[v].job \in Job
    BY <1>1 DEF Attempt
  <1>3. ASSUME attempt' = attempt, spoiled' = 0 => output' = output
        PROVE  OutputInv'
    BY <1>1, <1>3 DEF OutputInv
  <1>4. ASSUME NEW w \in Worker,
               \A v \in Worker : v # w => attempt'[v] = attempt[v],
               \A j \in Job : j # attempt[w].job => output'[j] = output[j],
               attempt[w].pc = "idle" => output' = output,
               attempt'[w].pc \in BeforeReport \cup {"unlink"}
                 => attempt'[w].job \in Reporting,
               lapses' = 0 /\ spoiled' = 0 =>
                 /\ attempt'[w].pc = "writing" => output'[attempt'[w].job] = "part"
                 /\ attempt'[w].pc = "read" => output'[attempt'[w].job] = "full"
        PROVE  OutputInv'
    <2>1. ASSUME NEW v \in Worker, v # w,
                 attempt'[v].pc \in BeforeReport \cup {"unlink"}
          PROVE  /\ attempt'[v].job \in Reporting
                 /\ lapses' = 0 /\ spoiled' = 0 =>
                      /\ attempt'[v].pc = "writing" => output'[attempt'[v].job] = "part"
                      /\ attempt'[v].pc = "read" => output'[attempt'[v].job] = "full"
      <3>1. attempt'[v] = attempt[v] /\ attempt[v].pc # "idle"
        BY <1>4, <2>1 DEF BeforeReport
      <3>2. lapses = 0 => output'[attempt[v].job] = output[attempt[v].job]
        BY <1>2, <1>4, <2>1, <3>1 DEF SerialInv, At, JobOf
      <3>3. QED
        BY <1>1, <2>1, <3>1, <3>2 DEF OutputInv
    <2>2. QED
      BY <1>4, <2>1 DEF OutputInv, BeforeReport
  <1>5. ASSUME NEW w \in Worker, NEW j \in Job, Begin(w, j)
        PROVE  OutputInv'
    <2>1. /\ \A v \in Worker : v # w => attempt'[v] = attempt[v]
          /\ output' = output /\ attempt'[w].job = j
          /\ attempt'[w].pc \in {"begin", "ask", "write", "tool"}
      BY <1>5, BeginSteps, ZenonT(60) DEF Begin
    <2>2. attempt'[w].pc = "tool" => j \in Reporting
      BY <1>1, <1>5 DEF Begin, DetectorKind
    <2>3. QED
      BY <1>4, <2>1, <2>2 DEF BeforeReport
  <1>6. ASSUME NEW w \in Worker, DetectorStep(w), ~RunTool(w), ~\E j \in Job : Begin(w, j)
        PROVE  OutputInv'
    <2>1. \A v \in Worker : v # w => attempt'[v] = attempt[v]
      BY <1>6, AttemptSteps
    <2>2. /\ \A j \in Job : j # attempt[w].job => output'[j] = output[j]
          /\ attempt[w].pc # "idle"
      BY <1>1, <1>6 DEF DetectorStep, CoverRunning, Answer, Sweep, ModelDown,
                        RecordDown, WriteFinding, WriteEvidence, Cover, Synthesize,
                        Complete, Advance, Raise, At, JobOf
    <2>3. attempt'[w].pc \notin BeforeReport \cup {"unlink"}
      <3>1. CASE CoverRunning(w) \/ ModelDown(w) \/ RecordDown(w) \/ Cover(w) \/ Synthesize(w)
                 \/ Complete(w)
        <4>1. PICK label \in {"ask", "down", "complete", "goals", "advance"} : Goto(w, label)
          BY <3>1 DEF CoverRunning, ModelDown, RecordDown, Cover, Synthesize, Complete
        <4>2. QED
          BY <1>1, <4>1 DEF Goto, BeforeReport, Attempt
      <3>2. CASE Answer(w) \/ Sweep(w)
        <4>1. PICK found, sent : Told(w, found, sent)
          BY <3>2 DEF Answer, Sweep
        <4>2. QED
          BY <1>1, <4>1 DEF Told, BeforeReport, Attempt
      <3>3. CASE WriteFinding(w)
        BY <1>1, <3>3 DEF WriteFinding, At, BeforeReport, Attempt
      <3>4. CASE WriteEvidence(w)
        <4>1. PICK row, left : attempt' = [attempt EXCEPT ![w].row = row, ![w].left = left]
          BY <3>4 DEF WriteEvidence
        <4>2. QED
          BY <1>1, <3>4, <4>1 DEF WriteEvidence, At, BeforeReport, Attempt
      <3>5. CASE Advance(w) \/ Raise(w)
        BY <1>1, <3>5 DEF Advance, Raise, Idle, BeforeReport
      <3>6. QED
        BY <1>6, <3>1, <3>2, <3>3, <3>4, <3>5 DEF DetectorStep
    <2>4. QED
      BY <1>4, <2>1, <2>2, <2>3 DEF BeforeReport
  <1>7. ASSUME NEW w \in Worker, RunTool(w)
        PROVE  OutputInv'
    <2>1. PICK label \in {"writing", "read", "unlink", "write"},
            left \in {attempt[w].left, {}, DOMAIN HitsOf[JobOf(w)]} :
         /\ attempt' = [attempt EXCEPT ![w].pc = label, ![w].left = left]
         /\ label \in {"write", "unlink"} => left \subseteq DOMAIN HitsOf[JobOf(w)]
         /\ attempt[w].pc = "read" \/ left = attempt[w].left
      BY <1>7, ToolSteps, ZenonT(40)
    <2>2. /\ \A v \in Worker : v # w => attempt'[v] = attempt[v]
          /\ attempt'[w].pc = label /\ attempt'[w].job = attempt[w].job
      BY <1>1, <2>1 DEF Attempt
    <2>3. /\ attempt[w].pc \in {"tool", "writing", "read", "unlink"}
          /\ attempt[w].job \in Reporting
      BY <1>7, ToolSteps DEF OutputInv, BeforeReport
    <2>4. \A j \in Job : j # attempt[w].job => output'[j] = output[j]
      BY <1>1, <1>7 DEF RunTool, OpenReport, EndReport, FailReport, ReadReport,
                        UnlinkReport, JobOf
    <2>5. ASSUME lapses' = 0, spoiled' = 0
          PROVE  /\ label = "writing" => output'[attempt[w].job] = "part"
                 /\ label = "read" => output'[attempt[w].job] = "full"
      <3>1. lapses = 0 /\ spoiled = 0
        BY <1>1, <2>5
      <3>2. CASE OpenReport(w)
        <4>1. attempt'[w].pc = "writing" /\ output' = [output EXCEPT ![attempt[w].job] = "part"]
          BY <1>1, <3>2 DEF OpenReport, Goto, JobOf, Attempt
        <4>2. QED
          BY <1>1, <1>2, <2>2, <4>1
      <3>3. CASE EndReport(w)
        <4>1. ~Beside(w)
          BY <2>3, <3>1 DEF Beside, SerialInv, At, JobOf
        <4>2. output[attempt[w].job] = "part"
          BY <3>1, <3>3 DEF EndReport, At, OutputInv
        <4>3. attempt'[w].pc = "read" /\ output' = [output EXCEPT ![attempt[w].job] = "full"]
          BY <1>1, <3>3, <4>1, <4>2 DEF EndReport, Goto, JobOf, Attempt
        <4>4. QED
          BY <1>1, <1>2, <2>2, <4>3
      <3>4. CASE FailReport(w)
        BY <2>5, <3>1, <3>4 DEF FailReport
      <3>5. CASE ReadReport(w) \/ UnlinkReport(w)
        <4>1. attempt'[w].pc \in {"unlink", "write"}
          BY <1>1, <3>5 DEF ReadReport, UnlinkReport, Goto, Attempt
        <4>2. QED
          BY <2>2, <4>1
      <3>6. QED
        BY <1>7, <3>2, <3>3, <3>4, <3>5 DEF RunTool
    <2>6. QED
      BY <1>4, <2>2, <2>3, <2>4, <2>5
  <1>8. ASSUME NEW j \in Job, Lapse(j) \/ Tamper(j)
        PROVE  OutputInv'
    BY <1>1, <1>3, <1>8 DEF Lapse, Tamper
  <1>9. CASE Judge \/ Write \/ Repair \/ UNCHANGED vars
    <2>1. attempt' = attempt /\ output' = output
      BY <1>9 DEF Judge, ListFindings, ReadEvidence, AddContext, GiveVerdict, NoteGap,
                  CloseTriage, EnqueueReporter, TriageRaise, Write, ListSurvivors,
                  WriteReport, ReportRaise, Repair, OpenFix, ApplyFix, DiffTree, Branch,
                  PublishFix, RaiseFix, vars, detecting
    <2>2. QED
      BY <1>3, <2>1
  <1>10. CASE Detect
    <2>1. \/ \E w \in Worker : DetectorStep(w)
          \/ \E j \in Job : Lapse(j) \/ Tamper(j)
      BY <1>10 DEF Detect, DetectorStep
    <2>2. QED
      BY <1>5, <1>6, <1>7, <1>8, <2>1
  <1>11. QED
    BY <1>9, <1>10 DEF Next

\* Whatever failed and whatever overlapped: when a task of the rule detectors or
\* of SCA is closed, every finding and every row of evidence of it is there; of
\* a tool with a report, when no claim lapsed and nothing happened to a report.
THEOREM ClosedIsRecorded == Spec => []ClosedMeansRecorded
  <1> DEFINE Inv == GateInv /\ SerialInv /\ OutputInv /\ RecordInv
  <1>1. Init => Inv
    BY InitGateInv DEF Init, RecordInv, Wrote, Idle, OutputInv, BeforeReport, SerialInv,
                       At
  <1>2. Inv /\ [Next]_vars => Inv'
    BY NextGateInv, SerialStays, OutputStays, NextRecordInv DEF GateInv
  <1>3. Inv => ClosedMeansRecorded
    <2>1. \A j \in Job : \A i \in DOMAIN HitsOf[j] :
            DOMAIN HitsOf[j][i].kinds = 1..Len(HitsOf[j][i].kinds)
      BY HitOfJob
    <2>2. QED
      BY <2>1 DEF RecordInv, Trusted, Written, WrittenTo, ClosedMeansRecorded
  <1>4. QED
    BY <1>1, <1>2, <1>3, PTL DEF Spec

----------------------------------------------------------------------------
(* Coverage. *)

\* Until a goal's attempt has written the goal's coverage.
BeforeCover ==
  {"tool", "writing", "read", "unlink", "begin", "ask", "write"}

Covering == {"down", "goals", "complete", "advance"}

CoverInv ==
  /\ \A w \in Worker : attempt[w].pc = "begin" => KindOf[attempt[w].job] = "antares"
  /\ \A w \in Worker : attempt[w].pc \in Covering /\ KindOf[attempt[w].job] # "llm" =>
       coverage[GoalOf[attempt[w].job]] # "none"
  /\ \A j \in Job : job[j] = "closed" /\ KindOf[j] # "llm" => coverage[GoalOf[j]] # "none"
  /\ faults = 0 \/ lapses = 0 =>
       \A g \in Goal : coverage[g] = "running" =>
         \E j \in Job : KindOf[j] = "antares" /\ GoalOf[j] = g /\ Pending(j, BeforeCover)

\* Who writes coverage, and what.
LEMMA CoverageSteps ==
  ASSUME TypeInv, [Next]_vars
  PROVE  \/ coverage' = coverage
         \/ \E w \in Worker :
              LET g == GoalOf[attempt[w].job]
              IN \/ /\ CoverRunning(w) /\ coverage' = [coverage EXCEPT ![g] = "running"]
                    /\ attempt[w].pc = "begin" /\ attempt'[w].pc = "ask"
                    /\ attempt'[w].job = attempt[w].job
                 \/ \E state \in {"error", "attempted", "done"} :
                      coverage' = [coverage EXCEPT ![g] = state]
  <1>1. attempt \in [Worker -> Attempt]
    BY DEF TypeInv, TypeOK, Attempt
  <1>2. ASSUME NEW w \in Worker, CoverRunning(w)
        PROVE  /\ coverage' = [coverage EXCEPT ![GoalOf[attempt[w].job]] = "running"]
               /\ attempt[w].pc = "begin" /\ attempt'[w].pc = "ask"
               /\ attempt'[w].job = attempt[w].job
    BY <1>1, <1>2 DEF CoverRunning, SetCoverage, Goto, At, JobOf, Attempt
  <1>3. ASSUME NEW w \in Worker, ModelDown(w)
        PROVE  coverage' = [coverage EXCEPT ![GoalOf[attempt[w].job]] = "error"]
    BY <1>3 DEF ModelDown, SetCoverage, JobOf
  <1>4. ASSUME NEW w \in Worker, Cover(w)
        PROVE  coverage' = coverage \/ \E state \in {"attempted", "done"} :
                 coverage' = [coverage EXCEPT ![GoalOf[attempt[w].job]] = state]
    BY <1>4 DEF Cover, SetCoverage, JobOf, results
  <1>5. ASSUME NEW w \in Worker,
               \/ \E j \in Job : Begin(w, j)
               \/ Answer(w) \/ Sweep(w) \/ RecordDown(w) \/ WriteFinding(w)
               \/ WriteEvidence(w) \/ Synthesize(w) \/ Complete(w) \/ Advance(w) \/ Raise(w)
        PROVE  coverage' = coverage
    BY <1>5 DEF Begin, Answer, Sweep, RecordDown, WriteFinding, WriteEvidence,
                Synthesize, Complete, Advance, Raise, UpsertFinding, AddEvidence,
                results
  <1>6. ASSUME NEW w \in Worker, RunTool(w) PROVE coverage' = coverage
    BY <1>6, ToolSteps DEF results
  <1>7. ASSUME NEW j \in Job, Lapse(j) PROVE coverage' = coverage
    BY <1>7 DEF Lapse, results
  <1>8. CASE ~(\E w \in Worker : DetectorStep(w)) /\ ~\E j \in Job : Lapse(j)
    BY <1>8, OthersLeaveJobs
  <1>9. CASE \E w \in Worker : DetectorStep(w)
    <2>1. PICK w \in Worker : DetectorStep(w)
      BY <1>9
    <2>2. QED
      BY <1>2, <1>3, <1>4, <1>5, <1>6, <2>1 DEF DetectorStep
  <1>10. QED
    BY <1>7, <1>8, <1>9

\* Attempts come to an end only after they have written coverage.
LEMMA CoverMoves ==
  ASSUME TypeInv, CoverInv, NEW w \in Worker, DetectorStep(w)
  PROVE  /\ attempt'[w].pc = "begin" => KindOf[attempt'[w].job] = "antares"
         /\ attempt'[w].pc \in Covering /\ KindOf[attempt'[w].job] # "llm" =>
              \/ attempt[w].pc \in Covering /\ attempt'[w].job = attempt[w].job
              \/ coverage'[GoalOf[attempt'[w].job]] # "none"
         /\ /\ attempt[w].pc \in BeforeCover /\ KindOf[attempt[w].job] = "antares"
            /\ ~Raise(w)
            => \/ attempt'[w].pc \in BeforeCover
               \/ coverage'[GoalOf[attempt[w].job]] # "running"
  <1>1. /\ attempt \in [Worker -> Attempt] /\ attempt[w].job \in Job
        /\ coverage \in [Goal -> CoverageState] /\ GoalOf[attempt[w].job] \in Goal
    BY DEF TypeInv, TypeOK, ResultsTypeOK, Attempt
  <1>2. CASE \E j \in Job : Begin(w, j)
    <2>1. PICK j \in Job : Begin(w, j)
      BY <1>2
    <2>2. QED
      BY <2>1, BeginSteps DEF Covering, BeforeCover
  <1>3. CASE CoverRunning(w) \/ RecordDown(w) \/ Synthesize(w) \/ Complete(w)
    <2>1. PICK label \in {"ask", "complete", "advance"} : Goto(w, label)
      BY <1>3 DEF CoverRunning, RecordDown, Synthesize, Complete
    <2>2. attempt'[w].pc = label /\ attempt'[w].job = attempt[w].job
      BY <1>1, <2>1 DEF Goto, Attempt
    <2>3. CASE CoverRunning(w)
      <3>1. label = "ask"
        BY <1>1, <2>2, <2>3 DEF CoverRunning, Goto
      <3>2. QED
        BY <2>2, <3>1 DEF Covering, BeforeCover
    <2>4. CASE RecordDown(w) \/ Synthesize(w) \/ Complete(w)
      <3>1. attempt[w].pc \in Covering /\ attempt[w].pc \notin BeforeCover
        BY <2>4 DEF RecordDown, Synthesize, Complete, At, Covering, BeforeCover
      <3>2. QED
        BY <2>1, <2>2, <3>1
    <2>5. QED
      BY <1>3, <2>3, <2>4
  <1>4. CASE ModelDown(w)
    <2>1. attempt'[w].pc = "down" /\ attempt'[w].job = attempt[w].job
      BY <1>1, <1>4 DEF ModelDown, Goto, Attempt
    <2>2. coverage'[GoalOf[attempt[w].job]] = "error"
      BY <1>1, <1>4 DEF ModelDown, SetCoverage, JobOf
    <2>3. QED
      BY <2>1, <2>2
  <1>5. CASE Cover(w)
    <2>1. PICK label \in {"goals", "complete"} : Goto(w, label)
      BY <1>5 DEF Cover
    <2>2. attempt'[w].pc = label /\ attempt'[w].job = attempt[w].job
      BY <1>1, <2>1 DEF Goto, Attempt
    <2>3. KindOf[attempt[w].job] # "llm" =>
            coverage'[GoalOf[attempt[w].job]] \in {"done", "attempted"}
      BY <1>1, <1>5 DEF Cover, SetCoverage, JobOf
    <2>4. QED
      BY <2>1, <2>2, <2>3
  <1>6. CASE Answer(w) \/ Sweep(w) \/ WriteFinding(w) \/ WriteEvidence(w)
    <2>1. attempt'[w].pc = "write"
      <3>1. CASE Answer(w) \/ Sweep(w)
        <4>1. PICK found, sent : Told(w, found, sent)
          BY <3>1 DEF Answer, Sweep
        <4>2. QED
          BY <1>1, <4>1 DEF Told, Attempt
      <3>2. CASE WriteFinding(w)
        BY <1>1, <3>2 DEF WriteFinding, At, Attempt
      <3>3. CASE WriteEvidence(w)
        <4>1. PICK row, left : attempt' = [attempt EXCEPT ![w].row = row, ![w].left = left]
          BY <3>3 DEF WriteEvidence
        <4>2. QED
          BY <1>1, <3>3, <4>1 DEF WriteEvidence, At, Attempt
      <3>4. QED
        BY <1>6, <3>1, <3>2, <3>3
    <2>2. QED
      BY <2>1 DEF Covering, BeforeCover
  <1>7. CASE Advance(w) \/ Raise(w)
    <2>1. attempt'[w].pc = "idle"
      BY <1>1, <1>7 DEF Advance, Raise, Idle
    <2>2. Advance(w) => attempt[w].pc = "advance"
      BY DEF Advance, At
    <2>3. QED
      BY <1>7, <2>1, <2>2 DEF Covering, BeforeCover
  <1>8. CASE RunTool(w)
    <2>1. PICK label \in {"writing", "read", "unlink", "write"},
              left \in {attempt[w].left, {}, DOMAIN HitsOf[JobOf(w)]} :
            /\ attempt' = [attempt EXCEPT ![w].pc = label, ![w].left = left]
            /\ label \in {"write", "unlink"} =>
                 left \subseteq DOMAIN HitsOf[JobOf(w)]
            /\ attempt[w].pc = "read" \/ left = attempt[w].left
      BY <1>8, ToolSteps, ZenonT(40)
    <2>2. attempt'[w].pc = label
      BY <1>1, <2>1 DEF Attempt
    <2>3. QED
      BY <2>1, <2>2 DEF Covering, BeforeCover
  <1>9. QED
    BY <1>2, <1>3, <1>4, <1>5, <1>6, <1>7, <1>8 DEF DetectorStep

LEMMA CoverInvStays ==
  ASSUME TypeInv, SerialInv, CoverInv, [Next]_vars
  PROVE  CoverInv'
  <1>1. /\ attempt \in [Worker -> Attempt] /\ coverage \in [Goal -> CoverageState]
        /\ faults \in Nat /\ lapses \in Nat
        /\ job \in [Job -> {"none", "open", "claimed", "closed"}]
    BY DEF TypeInv, TypeOK, ResultsTypeOK, Attempt
  <1>2. /\ \A w \in Worker : attempt[w].job \in Job
        /\ \A j \in Job : GoalOf[j] \in Goal
    BY <1>1 DEF Attempt
  <1>3. \A g \in Goal : coverage[g] # "none" => coverage'[g] # "none"
    <2>1. ASSUME NEW g \in Goal, NEW state \in {"running", "error", "attempted", "done"},
                 coverage' = [coverage EXCEPT ![g] = state]
          PROVE  \A h \in Goal : coverage[h] # "none" => coverage'[h] # "none"
      BY <1>1, <2>1
    <2>2. QED
      BY <1>2, <2>1, CoverageSteps
  <1>4. ASSUME NEW w \in Worker
        PROVE  \/ attempt'[w] = attempt[w]
               \/ DetectorStep(w)
    <2>1. ASSUME NEW v \in Worker, v # w, DetectorStep(v) PROVE attempt'[w] = attempt[w]
      <3>1. CASE \E j \in Job : Begin(v, j)
        <4>1. PICK j \in Job : Begin(v, j)
          BY <3>1
        <4>2. QED
          BY <2>1, <4>1, BeginSteps
      <3>2. CASE ~\E j \in Job : Begin(v, j)
        <4>1. \A u \in Worker : u # v => attempt'[u] = attempt[u]
          BY <2>1, <3>2, AttemptSteps
        <4>2. QED
          BY <2>1, <4>1
      <3>3. QED
        BY <3>1, <3>2
    <2>2. ASSUME NEW j \in Job, Lapse(j) PROVE attempt'[w] = attempt[w]
      BY <2>2 DEF Lapse
    <2>3. QED
      BY <2>1, <2>2, OthersLeaveJobs
  <1>5. ASSUME NEW w \in Worker
        PROVE  /\ attempt'[w].pc = "begin" => KindOf[attempt'[w].job] = "antares"
               /\ attempt'[w].pc \in Covering /\ KindOf[attempt'[w].job] # "llm" =>
                    coverage'[GoalOf[attempt'[w].job]] # "none"
    <2>1. CASE attempt'[w] = attempt[w]
      <3>1. PICK j \in Job : j = attempt[w].job
        BY <1>2
      <3>2. attempt'[w].pc = "begin" => KindOf[attempt'[w].job] = "antares"
        BY <2>1 DEF CoverInv
      <3>3. attempt[w].pc \in Covering /\ KindOf[j] # "llm" =>
              coverage[GoalOf[j]] # "none"
        BY <3>1 DEF CoverInv
      <3>4. QED
        BY <1>2, <1>3, <2>1, <3>1, <3>2, <3>3
    <2>2. CASE DetectorStep(w)
      <3>1. attempt'[w].pc = "begin" => KindOf[attempt'[w].job] = "antares"
        BY <2>2, CoverMoves
      <3>2. ASSUME attempt'[w].pc \in Covering, KindOf[attempt'[w].job] # "llm"
            PROVE  coverage'[GoalOf[attempt'[w].job]] # "none"
        <4>1. \/ attempt[w].pc \in Covering /\ attempt'[w].job = attempt[w].job
              \/ coverage'[GoalOf[attempt'[w].job]] # "none"
          BY <2>2, <3>2, CoverMoves
        <4>2. CASE attempt[w].pc \in Covering /\ attempt'[w].job = attempt[w].job
          <5>1. PICK j \in Job : j = attempt[w].job
            BY <1>2
          <5>2. coverage[GoalOf[j]] # "none"
            BY <3>2, <4>2, <5>1 DEF CoverInv
          <5>3. coverage'[GoalOf[j]] # "none"
            BY <1>2, <1>3, <5>2
          <5>4. QED
            BY <4>2, <5>1, <5>3
        <4>3. QED
          BY <4>1, <4>2
      <3>3. QED
        BY <3>1, <3>2
    <2>3. QED
      BY <1>4, <2>1, <2>2
  <1>6. ASSUME NEW j \in Job, job'[j] = "closed", KindOf[j] # "llm"
        PROVE  coverage'[GoalOf[j]] # "none"
    <2>1. CASE job[j] = "closed"
      BY <1>2, <1>3, <1>6, <2>1 DEF CoverInv
    <2>2. CASE job[j] # "closed"
      <3>1. PICK w \in Worker : DetectorStep(w)
        <4>1. ASSUME NEW k \in Job, Lapse(k) PROVE job'[j] # "closed"
          BY <1>1, <2>2, <4>1 DEF Lapse
        <4>2. QED
          BY <1>6, <2>2, <4>1, OthersLeaveJobs
      <3>2. ASSUME NEW k \in Job, Begin(w, k) PROVE FALSE
        BY <1>1, <1>6, <2>2, <3>2, BeginSteps
      <3>3. attempt[w].pc = "complete" /\ j = attempt[w].job
        <4>1. \/ job' = job
              \/ /\ attempt[w].pc = "complete"
                 /\ job' = [job EXCEPT ![attempt[w].job] = "closed"]
              \/ job' = [job EXCEPT ![attempt[w].job] = "open"]
          BY <3>1, <3>2, AttemptSteps
        <4>2. QED
          BY <1>1, <1>2, <1>6, <2>2, <4>1
      <3>4. QED
        BY <1>2, <1>3, <1>6, <3>3 DEF CoverInv, Covering
    <2>3. QED
      BY <2>1, <2>2
  <1>7. ASSUME faults' = 0 \/ lapses' = 0, NEW g \in Goal, coverage'[g] = "running"
        PROVE  \E j \in Job :
                 KindOf[j] = "antares" /\ GoalOf[j] = g /\ Pending(j, BeforeCover)'
    <2>1. CASE \E w \in Worker : CoverRunning(w) /\ GoalOf[attempt[w].job] = g
      <3>1. PICK w \in Worker : CoverRunning(w) /\ GoalOf[attempt[w].job] = g
        BY <2>1
      <3>2. /\ attempt[w].pc = "begin" /\ attempt'[w].pc = "ask"
            /\ attempt'[w].job = attempt[w].job
        BY <1>1, <3>1 DEF CoverRunning, Goto, At, Attempt
      <3>3. KindOf[attempt[w].job] = "antares"
        BY <3>2 DEF CoverInv
      <3>4. Pending(attempt[w].job, BeforeCover)'
        BY <3>2 DEF Pending, BeforeCover
      <3>5. PICK j \in Job : j = attempt[w].job
        BY <1>2
      <3>6. Pending(j, BeforeCover)'
        BY <3>2, <3>5 DEF Pending, BeforeCover
      <3>7. QED
        BY <3>1, <3>3, <3>5, <3>6
    <2>2. CASE ~\E w \in Worker : CoverRunning(w) /\ GoalOf[attempt[w].job] = g
      <3>1. coverage[g] = "running"
        <4>1. ASSUME NEW w \in Worker, CoverRunning(w),
                     coverage' = [coverage EXCEPT ![GoalOf[attempt[w].job]] = "running"]
              PROVE  coverage[g] = "running"
          BY <1>1, <1>7, <2>2, <4>1
        <4>2. ASSUME NEW h \in Goal, NEW state \in {"error", "attempted", "done"},
                     coverage' = [coverage EXCEPT ![h] = state]
              PROVE  coverage[g] = "running"
          BY <1>1, <1>7, <4>2
        <4>3. QED
          BY <1>2, <1>7, <4>1, <4>2, CoverageSteps
      <3>2. faults = 0 \/ lapses = 0
        BY <1>1, <1>7, NoTroubleBefore
      <3>3. PICK j \in Job :
              KindOf[j] = "antares" /\ GoalOf[j] = g /\ Pending(j, BeforeCover)
        BY <3>1, <3>2 DEF CoverInv
      <3>4. ASSUME NEW w \in Worker, DetectorStep(w), ~Raise(w), attempt[w].job = j,
                   attempt[w].pc \in BeforeCover
            PROVE  attempt'[w].pc \in BeforeCover
        BY <1>7, <3>3, <3>4, CoverMoves
      <3>5. \A w \in Worker : Begin(w, j) => attempt'[w].pc \in BeforeCover
        BY BeginSteps DEF BeforeCover
      <3>6. BeforeCover \in
              SUBSET {"tool", "writing", "read", "unlink", "begin", "ask",
                      "down", "write", "goals", "complete"}
        BY DEF BeforeCover
      <3> HIDE DEF BeforeCover
      <3>7. PICK labels : labels = BeforeCover
        OBVIOUS
      <3>8. Pending(j, labels)'
        BY <1>7, <3>3, <3>4, <3>5, <3>6, <3>7, PendingStays
      <3>9. Pending(j, BeforeCover)'
        BY <3>7, <3>8 DEF BeforeCover
      <3>10. QED
        BY <3>3, <3>9
    <2>3. QED
      BY <2>1, <2>2
  <1>8. QED
    BY <1>5, <1>6, <1>7 DEF CoverInv, BeforeCover, Pending

LEMMA CoverInvariant == Spec => [](TypeInv /\ SerialInv /\ CoverInv)
  <1>1. Init => SerialInv /\ CoverInv
    <2>1. ASSUME Init PROVE SerialInv /\ CoverInv
      <3>1. /\ \A w \in Worker : attempt[w].pc = "idle"
            /\ \A j \in Job : job[j] \in {"open", "none"}
            /\ \A g \in Goal : coverage[g] = "none"
        BY <2>1 DEF Init, Idle, ResultsInit
      <3>2. SerialInv
        BY <3>1 DEF SerialInv, At
      <3>3. CoverInv
        BY <3>1 DEF CoverInv, Covering
      <3>4. QED
        BY <3>2, <3>3
    <2>2. QED
      BY <2>1
  <1>2. TypeInv /\ SerialInv /\ CoverInv /\ [Next]_vars => SerialInv' /\ CoverInv'
    BY SerialStays, CoverInvStays
  <1>3. QED
    BY <1>1, <1>2, TypeInvariant, PTL DEF Spec

\* Whatever is retried, a goal whose attempts are over is not left running;
\* run_antares_localization, upsert_coverage and release_task in between.
THEOREM GoalsAreSettled == Spec => []CoverageSettles
  <1>1. ASSUME TypeInv, SerialInv, CoverInv PROVE CoverageSettles
    <2> DEFINE Jobs(g) == {j \in Job : GoalOf[j] = g /\ job[j] # "none"}
    <2>1. SUFFICES
            ASSUME NEW g \in Goal,
                   Jobs(g) # {}, \A j \in Jobs(g) : job[j] = "closed" /\ ~Live(j),
                   faults = 0 \/ lapses = 0
            PROVE  \/ coverage[g] \in {"error", "attempted", "done"}
                   \/ coverage[g] = "none" /\ \A j \in Jobs(g) : KindOf[j] = "llm"
      BY Zenon DEF CoverageSettles
    <2>2. coverage[g] \in CoverageState
      BY <1>1 DEF TypeInv, TypeOK, ResultsTypeOK
    <2>3. ASSUME coverage[g] = "running" PROVE FALSE
      <3>1. PICK j \in Job : GoalOf[j] = g /\ Pending(j, BeforeCover)
        BY <1>1, <2>1, <2>3 DEF CoverInv
      <3>2. CASE \E w \in Worker : attempt[w].job = j /\ attempt[w].pc \in BeforeCover
        <4>1. PICK w \in Worker : attempt[w].job = j /\ attempt[w].pc \in BeforeCover
          BY <3>2
        <4>2. Live(j) /\ job[j] # "none"
          BY <1>1, <4>1 DEF Live, At, JobOf, BeforeCover, SerialInv
        <4>3. QED
          BY <2>1, <3>1, <4>2
      <3>3. CASE job[j] = "open"
        BY <2>1, <3>1, <3>3
      <3>4. QED
        BY <3>1, <3>2, <3>3 DEF Pending
    <2>4. ASSUME coverage[g] = "none", NEW j \in Jobs(g) PROVE KindOf[j] = "llm"
      BY <1>1, <2>1, <2>4 DEF CoverInv
    <2>5. QED
      BY <2>2, <2>3, <2>4 DEF CoverageState
  <1>2. QED
    BY <1>1, CoverInvariant, PTL

----------------------------------------------------------------------------
(* The goals that the SCA findings give. *)

\* There are finitely many SCA findings, and only the SCA job writes them.
LEMMA ScaFinite == IsFiniteSet(ScaFindings)
  <1>1. CASE \A j \in Job : KindOf[j] # "sca"
    <2>1. ScaFindings = {}
      BY <1>1 DEF ScaFindings
    <2>2. QED
      BY <2>1, FS_EmptySet
  <1>2. CASE \E j \in Job : KindOf[j] = "sca"
    <2>1. PICK j \in Job : KindOf[j] = "sca"
      BY <1>2
    <2> DEFINE hits == HitsOf[j]
               Named == [i \in 1..Len(hits) |-> hits[i].finding]
    <2>2. /\ hits \in Seq(Hit) /\ Len(hits) \in Nat /\ DOMAIN hits = 1..Len(hits)
          /\ \A i \in 1..Len(hits) : hits[i] \in Hit
      OBVIOUS
    <2>3. ASSUME NEW f \in ScaFindings PROVE \E i \in 1..Len(hits) : hits[i].finding = f
      <3>1. PICK k \in Job :
              KindOf[k] = "sca" /\ \E i \in DOMAIN HitsOf[k] : HitsOf[k][i].finding = f
        BY DEF ScaFindings
      <3>2. k = j
        BY <2>1, <3>1, ClassesAssumption DEF ClassesAssumption
      <3>3. QED
        BY <2>2, <3>1, <3>2
    <2>4. ASSUME NEW i \in 1..Len(hits) PROVE hits[i].finding \in ScaFindings
      <3>1. hits[i].finding \in Fingerprint
        BY <2>2, HitTypes
      <3>2. QED
        BY <2>1, <2>2, <3>1 DEF ScaFindings
    <2>5. Named \in Surjection(1..Len(hits), ScaFindings)
      BY <2>3, <2>4 DEF Surjection
    <2>6. QED
      BY <2>2, <2>5, FS_Interval, FS_Surjection
  <1>3. QED
    BY <1>1, <1>2

LEMMA ScaHasItsClass ==
  /\ \A f \in ScaFindings : f \in Fingerprint /\ ClassOf[f] = "vulnerable-dependency"
  /\ \A j \in Job : DownOf[j].finding \notin ScaFindings
  BY ClassesAssumption DEF ScaFindings, ClassesAssumption

\* Who writes to findings.
LEMMA FindingSteps ==
  ASSUME TypeInv, [Next]_vars
  PROVE  \/ findings' = findings
         \/ \E w \in Worker : WriteFinding(w) \/ RecordDown(w)
         \/ \E f \in Fingerprint : \E verdict, state :
              state # "absent" /\ SetVerdict(f, verdict, state)
  <1>1. CASE Detect \/ Write \/ UNCHANGED vars
    <2>1. CASE \E w \in Worker : WriteFinding(w) \/ RecordDown(w)
      BY <2>1
    <2>2. CASE \E w \in Worker : WriteEvidence(w)
      BY <2>2 DEF WriteEvidence, AddEvidence
    <2>3. CASE \A w \in Worker : ~WriteFinding(w) /\ ~WriteEvidence(w) /\ ~RecordDown(w)
      BY <1>1, <2>3, QuietSteps
    <2>4. QED
      BY <2>1, <2>2, <2>3
  <1>2. CASE Judge
    <2>1. triager.cur \in Fingerprint
      BY DEF TypeInv, TypeOK
    <2>2. CASE GiveVerdict
      BY <2>1, <2>2 DEF GiveVerdict
    <2>3. CASE ~GiveVerdict
      BY <1>2, <2>3 DEF Judge, ListFindings, ReadEvidence, AddContext, NoteGap,
                        AddRuleGap, CloseTriage, EnqueueReporter, TriageRaise, results,
                        AddEvidence
    <2>4. QED
      BY <2>2, <2>3
  <1>3. CASE Repair
    <2>1. PICK r \in Request :
            \/ \E f \in Fingerprint : OpenFix(r, f)
            \/ ApplyFix(r) \/ DiffTree(r) \/ Branch(r) \/ PublishFix(r) \/ RaiseFix(r)
      BY <1>3 DEF Repair
    <2>2. CASE PublishFix(r)
      BY <2>2 DEF PublishFix, TypeInv, TypeOK
    <2>3. CASE ~PublishFix(r)
      BY <2>1, <2>3 DEF OpenFix, ApplyFix, DiffTree, Branch, RaiseFix, results
    <2>4. QED
      BY <2>2, <2>3
  <1>4. QED
    BY <1>1, <1>2, <1>3 DEF Next

\* What makes a finding grave, and its advisory, change only when an attempt
\* of the SCA job writes a finding, which it does before it makes goals.
LEMMA GradeSteps ==
  ASSUME TypeInv, [Next]_vars
  PROVE  \/ \A f \in ScaFindings : /\ findings'[f].severity = findings[f].severity
                                 /\ findings'[f].rule = findings[f].rule
         \/ \E w \in Worker : /\ KindOf[attempt[w].job] = "sca"
                              /\ attempt'[w].pc = "write"
                              /\ attempt'[w].job = attempt[w].job
  <1>1. /\ findings \in [Fingerprint -> FindingRow] /\ attempt \in [Worker -> Attempt]
        /\ \A f \in ScaFindings : f \in Fingerprint
    BY ScaHasItsClass DEF TypeInv, TypeOK, ResultsTypeOK, Attempt
  <1>2. ASSUME NEW hit \in Hit, UpsertFinding(hit), hit.finding \notin ScaFindings
        PROVE  \A f \in ScaFindings : findings'[f] = findings[f]
    BY <1>1, <1>2 DEF UpsertFinding
  <1>3. ASSUME NEW w \in Worker, WriteFinding(w)
        PROVE  \/ \A f \in ScaFindings : findings'[f] = findings[f]
               \/ /\ KindOf[attempt[w].job] = "sca" /\ attempt'[w].pc = "write"
                  /\ attempt'[w].job = attempt[w].job
    <2>1. /\ attempt[w].pc = "write" /\ UpsertFinding(NextHit(w)) /\ NextHit(w) \in Hit
          /\ First(attempt[w].left) \in attempt[w].left
      BY <1>3, NextHitIsHit DEF WriteFinding, At
    <2>2. attempt'[w].pc = "write" /\ attempt'[w].job = attempt[w].job
      BY <1>1, <1>3, <2>1 DEF WriteFinding, Attempt
    <2>3. PICK j \in Job : j = attempt[w].job
      BY <1>1 DEF Attempt
    <2>4. PICK i \in DOMAIN HitsOf[j] : NextHit(w) = HitsOf[j][i]
      BY <2>1, <2>3 DEF TypeInv, AttemptInv, NextHit, At, JobOf
    <2>5. CASE KindOf[j] = "sca"
      BY <2>2, <2>3, <2>5
    <2>6. CASE KindOf[j] # "sca"
      <3>1. ClassOf[NextHit(w).finding] # "vulnerable-dependency"
        BY <2>4, <2>6, ClassesAssumption DEF ClassesAssumption
      <3>2. NextHit(w).finding \notin ScaFindings
        BY <3>1, ScaHasItsClass
      <3>3. QED
        BY <1>2, <2>1, <3>2
    <2>7. QED
      BY <2>5, <2>6
  <1>4. ASSUME NEW w \in Worker, RecordDown(w)
        PROVE  \A f \in ScaFindings : findings'[f] = findings[f]
    <2>1. PICK j \in Job : j = attempt[w].job
      BY <1>1 DEF Attempt
    <2>2. UpsertFinding(DownOf[j]) /\ DownOf[j] \in Hit /\ DownOf[j].finding \notin ScaFindings
      BY <1>4, <2>1, ScaHasItsClass DEF RecordDown, JobOf
    <2>3. QED
      BY <1>2, <2>2
  <1>5. ASSUME NEW g \in Fingerprint, NEW verdict, NEW state, SetVerdict(g, verdict, state),
               NEW f \in Fingerprint
        PROVE  findings'[f].severity = findings[f].severity /\ findings'[f].rule = findings[f].rule
    <2>1. findings' = [findings EXCEPT ![g] =
                         [findings[g] EXCEPT !.verdict = verdict, !.state = state]]
      BY <1>1, <1>5 DEF SetVerdict, FindingRow
    <2>2. findings[g] \in FindingRow
      BY <1>1
    <2>3. CASE f = g
      <3>1. findings'[g] = [findings[g] EXCEPT !.verdict = verdict, !.state = state]
        BY <1>1, <2>1
      <3>2. QED
        BY <2>2, <2>3, <3>1 DEF FindingRow
    <2>4. CASE f # g
      BY <1>1, <2>1, <2>4
    <2>5. QED
      BY <2>3, <2>4
  <1>6. CASE \E g \in Fingerprint : \E verdict, state : SetVerdict(g, verdict, state)
    BY <1>1, <1>5, <1>6
  <1>7. QED
    BY <1>3, <1>4, <1>6, FindingSteps

\* Goals are added to, when the SCA job makes some.
LEMMA GoalSteps ==
  ASSUME [Next]_vars, ~\E w \in Worker : Synthesize(w)
  PROVE  goals' = goals
  <1>1. ASSUME NEW w \in Worker, DetectorStep(w) PROVE goals' = goals
    BY <1>1 DEF DetectorStep, Begin, CoverRunning, Answer, Sweep, ModelDown, RecordDown,
                WriteFinding, WriteEvidence, Cover, Complete, Advance, Raise, RunTool,
                OpenReport, EndReport, FailReport, ReadReport, UnlinkReport
  <1>2. ASSUME NEW j \in Job, Lapse(j) PROVE goals' = goals
    BY <1>2 DEF Lapse
  <1>3. QED
    BY <1>1, <1>2, OthersLeaveJobs

\* Every grave SCA finding has a goal, or as many as are allowed went to others
\* that are as grave.
WorstHaveGoals ==
  \A f \in ScaFindings :
    Grave(f) /\ findings[f].rule \notin goals =>
      ScaCap <= Cardinality({g \in ScaFindings :
                               findings[g].rule \in goals /\ AsGraveAs(g, f)})

\* Until an attempt of the SCA job has made goals.
BeforeGoals == {"tool", "writing", "read", "unlink", "write", "goals"}

\* ... or an attempt of the SCA job will make goals yet.
WorstInv ==
  /\ \A f \in Fingerprint : StateOf(f) = "absent" => findings[f] = NoFinding
  /\ faults = 0 \/ lapses = 0 =>
       \/ WorstHaveGoals
       \/ \E j \in Job : KindOf[j] = "sca" /\ Pending(j, BeforeGoals)

\* Goals that are added and findings that stay as grave do no harm.
LEMMA WorstStays ==
  ASSUME WorstHaveGoals, goals \subseteq goals',
         \A f \in ScaFindings : /\ findings'[f].severity = findings[f].severity
                               /\ findings'[f].rule = findings[f].rule
  PROVE  WorstHaveGoals'
  <1>1. SUFFICES
          ASSUME NEW f \in ScaFindings, Grave(f)', findings'[f].rule \notin goals'
          PROVE  ScaCap <= Cardinality({g \in ScaFindings :
                             findings'[g].rule \in goals' /\ AsGraveAs(g, f)'})
    BY DEF WorstHaveGoals, ScaFindings
  <1> DEFINE Before == {g \in ScaFindings : findings[g].rule \in goals /\ AsGraveAs(g, f)}
             After == {g \in ScaFindings : findings'[g].rule \in goals' /\ AsGraveAs(g, f)'}
  <1>2. ScaCap <= Cardinality(Before)
    BY <1>1 DEF WorstHaveGoals, Grave
  <1>3. Before \subseteq After
    BY <1>1 DEF AsGraveAs
  <1>4. IsFiniteSet(After) /\ IsFiniteSet(Before)
    BY ScaFinite, FS_Subset
  <1>5. Cardinality(Before) <= Cardinality(After)
    BY <1>3, <1>4, FS_Subset
  <1>6. ScaCap \in Nat /\ Cardinality(Before) \in Int /\ Cardinality(After) \in Int
    BY <1>4, FS_CardinalityType
  <1> HIDE DEF Before, After
  <1>7. ScaCap <= Cardinality(After)
    BY <1>2, <1>5, <1>6
  <1>8. QED
    BY <1>7 DEF After

\* The cut at the limit keeps those that are as grave as the ones it drops.
LEMMA SynthesizeWorst ==
  ASSUME TypeInv, WorstInv, NEW w \in Worker, Synthesize(w)
  PROVE  WorstHaveGoals'
  <1> DEFINE Known == {f \in ScaFindings : StateOf(f) # "absent" /\ Grave(f)}
  <1>1. PICK some \in WorstFew(Known) : goals' = goals \cup {findings[f].rule : f \in some}
    BY DEF Synthesize
  <1>2. findings' = findings
    BY DEF Synthesize, results
  <1>3. SUFFICES
          ASSUME NEW f \in ScaFindings, Grave(f), findings[f].rule \notin goals'
          PROVE  ScaCap <= Cardinality({g \in ScaFindings :
                             findings[g].rule \in goals' /\ AsGraveAs(g, f)})
    BY <1>2 DEF WorstHaveGoals, ScaFindings, Grave, AsGraveAs
  <1> DEFINE After == {g \in ScaFindings : findings[g].rule \in goals' /\ AsGraveAs(g, f)}
  <1>4. f \in Known \ some
    <2>1. f \in Fingerprint /\ findings[f] # NoFinding
      BY <1>3, ScaHasItsClass DEF Grave, NoFinding
    <2>2. f \in Known
      BY <1>3, <2>1 DEF WorstInv
    <2>3. f \notin some
      BY <1>1, <1>3
    <2>4. QED
      BY <2>2, <2>3
  <1>5. /\ some \subseteq Known /\ Cardinality(some) = ScaCap
        /\ \A g \in some : AsGraveAs(g, f)
    BY <1>1, <1>4 DEF WorstFew
  <1>6. some \subseteq After
    BY <1>1, <1>5
  <1>7. IsFiniteSet(After)
    BY ScaFinite, FS_Subset
  <1>8. Cardinality(some) <= Cardinality(After)
    BY <1>6, <1>7, FS_Subset
  <1>9. QED
    BY <1>5, <1>8

\* The SCA job's attempts make goals before they end.
LEMMA ScaMoves ==
  ASSUME TypeInv, NEW w \in Worker, DetectorStep(w), ~Raise(w), ~Synthesize(w),
         KindOf[attempt[w].job] = "sca", attempt[w].pc \in BeforeGoals
  PROVE  attempt'[w].pc \in BeforeGoals
  <1>1. attempt \in [Worker -> Attempt]
    BY DEF TypeInv, TypeOK, Attempt
  <1>2. RunTool(w) \/ WriteFinding(w) \/ WriteEvidence(w) \/ Cover(w)
    BY DEF BeforeGoals, DetectorStep, Begin, CoverRunning, Answer, Sweep, ModelDown,
           RecordDown, Synthesize, Complete, Advance, At
  <1>3. CASE WriteFinding(w)
    BY <1>1, <1>3 DEF WriteFinding, At, Attempt, BeforeGoals
  <1>4. CASE WriteEvidence(w)
    <2>1. PICK row, left : attempt' = [attempt EXCEPT ![w].row = row, ![w].left = left]
      BY <1>4 DEF WriteEvidence
    <2>2. QED
      BY <1>1, <1>4, <2>1 DEF WriteEvidence, At, Attempt, BeforeGoals
  <1>5. CASE Cover(w)
    BY <1>1, <1>5 DEF Cover, Goto, JobOf, Attempt, BeforeGoals
  <1>6. CASE RunTool(w)
    <2>1. PICK label \in {"writing", "read", "unlink", "write"},
              left \in {attempt[w].left, {}, DOMAIN HitsOf[JobOf(w)]} :
            /\ attempt' = [attempt EXCEPT ![w].pc = label, ![w].left = left]
            /\ label \in {"write", "unlink"} =>
                 left \subseteq DOMAIN HitsOf[JobOf(w)]
            /\ attempt[w].pc = "read" \/ left = attempt[w].left
      BY <1>6, ToolSteps, ZenonT(40)
    <2>2. attempt'[w].pc = label
      BY <1>1, <2>1 DEF Attempt
    <2>3. QED
      BY <2>1, <2>2 DEF BeforeGoals
  <1>7. QED
    BY <1>2, <1>3, <1>4, <1>5, <1>6

LEMMA WorstInvStays ==
  ASSUME TypeInv, SerialInv, WorstInv, [Next]_vars
  PROVE  WorstInv'
  <1>1. /\ findings \in [Fingerprint -> FindingRow] /\ attempt \in [Worker -> Attempt]
        /\ \A w \in Worker : attempt[w].job \in Job
    BY DEF TypeInv, TypeOK, ResultsTypeOK, Attempt
  <1>2. ASSUME NEW f \in Fingerprint, StateOf(f)' = "absent"
        PROVE  findings'[f] = NoFinding
    <2>1. findings'[f] = findings[f]
      <3>1. ASSUME NEW hit \in Hit, UpsertFinding(hit) PROVE findings'[f] = findings[f]
        <4>1. f # hit.finding
          <5>1. ASSUME f = hit.finding PROVE FALSE
            <6>1. findings'[f] = Upserted(findings[f], hit) /\ findings[f] \in FindingRow
              BY <1>1, <3>1, <5>1 DEF UpsertFinding
            <6>2. Upserted(findings[f], hit).state =
                    IF findings[f].state = "absent" THEN hit.state ELSE findings[f].state
              BY <6>1 DEF Upserted, FindingRow
            <6>3. QED
              BY <1>2, <3>1, <6>1, <6>2, HitTypes DEF StateOf
          <5>2. QED
            BY <5>1
        <4>2. QED
          BY <1>1, <3>1, <4>1, HitTypes DEF UpsertFinding
      <3>2. ASSUME NEW w \in Worker, WriteFinding(w) \/ RecordDown(w)
            PROVE  \E hit \in Hit : UpsertFinding(hit)
        BY <1>1, <3>2, NextHitIsHit DEF WriteFinding, RecordDown, JobOf
      <3>3. ASSUME NEW g \in Fingerprint, NEW verdict, NEW state, state # "absent",
                   SetVerdict(g, verdict, state)
            PROVE  findings'[f] = findings[f]
        BY <1>2, <3>3, VerdictStates
      <3>4. QED
        BY <3>1, <3>2, <3>3, FindingSteps
    <2>2. QED
      BY <1>2, <2>1 DEF StateOf, WorstInv
  <1>3. ASSUME faults' = 0 \/ lapses' = 0
        PROVE  \/ WorstHaveGoals'
               \/ \E j \in Job : KindOf[j] = "sca" /\ Pending(j, BeforeGoals)'
    <2>1. CASE \E w \in Worker : /\ KindOf[attempt[w].job] = "sca"
                                 /\ attempt'[w].pc = "write"
                                 /\ attempt'[w].job = attempt[w].job
      <3>1. PICK w \in Worker : /\ KindOf[attempt[w].job] = "sca"
                                /\ attempt'[w].pc = "write"
                                /\ attempt'[w].job = attempt[w].job
        BY <2>1
      <3>2. PICK j \in Job : j = attempt[w].job
        BY <1>1
      <3>3. Pending(j, BeforeGoals)'
        BY <3>1, <3>2 DEF Pending, BeforeGoals
      <3>4. QED
        BY <3>1, <3>2, <3>3
    <2>2. CASE \E w \in Worker : Synthesize(w)
      BY <2>2, SynthesizeWorst
    <2>3. ASSUME \A f \in ScaFindings : /\ findings'[f].severity = findings[f].severity
                                       /\ findings'[f].rule = findings[f].rule,
                 ~\E w \in Worker : Synthesize(w)
          PROVE  \/ WorstHaveGoals'
                 \/ \E j \in Job : KindOf[j] = "sca" /\ Pending(j, BeforeGoals)'
      <3>1. CASE WorstHaveGoals
        BY <2>3, <3>1, GoalSteps, WorstStays
      <3>2. CASE ~WorstHaveGoals
        <4>1. PICK j \in Job : KindOf[j] = "sca" /\ Pending(j, BeforeGoals)
          BY <1>3, <3>2, NoTroubleBefore DEF WorstInv
        <4>2. ASSUME NEW w \in Worker, DetectorStep(w), ~Raise(w), attempt[w].job = j,
                     attempt[w].pc \in BeforeGoals
              PROVE  attempt'[w].pc \in BeforeGoals
          BY <1>1, <2>3, <4>1, <4>2, ScaMoves
        <4>3. \A w \in Worker : Begin(w, j) => attempt'[w].pc \in BeforeGoals
          BY <4>1, BeginSteps DEF BeforeGoals
        <4>4. PICK labels : labels = BeforeGoals
          OBVIOUS
        <4>5. labels \in SUBSET {"tool", "writing", "read", "unlink", "begin", "ask",
                                 "down", "write", "goals", "complete"}
          BY <4>4 DEF BeforeGoals
        <4>6. Pending(j, labels)'
          BY <1>3, <4>1, <4>2, <4>3, <4>4, <4>5, PendingStays
        <4>7. Pending(j, BeforeGoals)'
          BY <4>4, <4>6
        <4>8. QED
          BY <4>1, <4>7
      <3>3. QED
        BY <3>1, <3>2
    <2>4. QED
      BY <2>1, <2>2, <2>3, GradeSteps
  <1>4. QED
    BY <1>2, <1>3 DEF WorstInv, Pending, ScaFindings, BeforeGoals

\* Whatever is retried, the cap never drops an advisory for a lesser one;
\* synthesize_sca_antares_goals, upsert_finding and release_task in between.
THEOREM WorstAdvisoriesFirst == Spec => []WorstGetGoals
  <1>1. Init => WorstInv
    <2>1. ASSUME Init PROVE WorstInv
      <3>1. \A f \in Fingerprint : findings[f] = NoFinding
        BY <2>1 DEF Init, ResultsInit
      <3>2. \A f \in ScaFindings : ~Grave(f)
        BY <3>1, ScaHasItsClass DEF Grave, NoFinding
      <3>3. QED
        BY <3>1, <3>2 DEF WorstInv, WorstHaveGoals
    <2>2. QED
      BY <2>1
  <1>2. TypeInv /\ SerialInv /\ WorstInv /\ [Next]_vars => WorstInv'
    BY WorstInvStays
  <1>3. ASSUME WorstInv PROVE WorstGetGoals
    <2>1. SUFFICES ASSUME NEW j \in Job, KindOf[j] = "sca", job[j] = "closed", ~Live(j),
                          faults = 0 \/ lapses = 0
                   PROVE  WorstHaveGoals
      BY DEF WorstGetGoals, WorstHaveGoals
    <2>2. ASSUME NEW k \in Job, KindOf[k] = "sca", Pending(k, BeforeGoals)
          PROVE  FALSE
      <3>1. k = j
        BY <2>1, <2>2, ClassesAssumption DEF ClassesAssumption
      <3>2. QED
        BY <2>1, <2>2, <3>1 DEF Pending, Live, At, JobOf, BeforeGoals
    <2>3. QED
      BY <1>3, <2>1, <2>2 DEF WorstInv
  <1>4. QED
    BY <1>1, <1>2, <1>3, CoverInvariant, PTL DEF Spec
=============================================================================
