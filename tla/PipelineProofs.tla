--------------------------- MODULE PipelineProofs ---------------------------
(***************************************************************************)
(* Stages of a scan are enqueued once and the reporter after the triage,   *)
(* for any number of detector threads, goals, exceptions, dead threads and *)
(* lapsed heartbeats.                                                      *)
(***************************************************************************)
EXTENDS Pipeline, TaskStoreProofs, FiniteSetTheorems

Antares == "detector.antares"
Secrets == "detector.secrets"

Busy(w) == pc[w] \notin {"idle", "exit", "dead"}

\* A worker holds a row of its own family.
HoldsOwn ==
  \A w \in Agent : Busy(w) => cur[w].task \in Task /\ RoleOf(w) \in RolesOf(w)

NothingBeforeSeed == main = "seed" => Task = {}

\* OneRowPerStage, without counting.
OneRow ==
  \A t, u \in Task : tasks[t].role = tasks[u].role /\ tasks[t].role # Antares => t = u

\* The secrets row is the first of the detectors' and so a sentinel for them.
SentinelFirst ==
  RoleEnqueued(Secrets) \/ \A t \in Task : tasks[t].role \notin Detectors \ {Antares}

\* The rows _enqueue_detectors still has to insert are not there yet.
ToCome(rows) ==
  /\ rows # << >>
  /\ \A i, j \in DOMAIN rows : rows[i].role = rows[j].role /\ rows[i].role # Antares => i = j
  /\ \A i \in DOMAIN rows : rows[i].role # Antares => ~RoleEnqueued(rows[i].role)
  /\ RoleEnqueued(Secrets) \/ rows[1].role = Secrets

LoopOf(w) ==
  /\ pc[w] = "goals" => todo[w] # << >> /\ \A i \in DOMAIN todo[w] : todo[w][i].role = Antares
  /\ pc[w] = "enqueue" => w = "cartographer" /\ ToCome(todo[w])

\* With the reporter enqueued the triager has nothing left to do.
TriagerDone ==
  /\ RoleEnqueued("triager")
  /\ \A t \in Task : tasks[t].role = "triager" => tasks[t].state = "closed"
  /\ ~Busy("triager")

TriageInv ==
  /\ RoleEnqueued("reporter") => TriagerDone
  /\ pc["triager"] = "advance" => tasks[cur["triager"].task].state = "closed"

StageInv ==
  /\ HoldsOwn /\ NothingBeforeSeed
  /\ OneRow /\ SentinelFirst /\ \A w \in Agent : LoopOf(w)
  /\ TriageInv

PipeInv == TypeOK /\ StoreInv /\ StageInv

----------------------------------------------------------------------------
(* Roles, rows and threads. *)

\* A thread has one role, or is a detector.
LEMMA Threads ==
  /\ \A w \in Agent : IF w \in Singletons THEN RolesOf(w) = {w} ELSE RolesOf(w) = Detectors
  /\ Singletons \subseteq Agent
  /\ Singletons \cap Detectors = {}
  /\ Role = Singletons \cup Detectors
  /\ Secrets \in Detectors /\ Antares \in Detectors /\ Secrets # Antares
  BY PipelineAssumption DEF PipelineAssumption, RolesOf, Singletons, Detectors, PipelineRoles, Secrets, Antares

\* What the enqueue loops insert: detectors' rows.
LEMMA GoalRowsFacts ==
  ASSUME NEW goals \in Seq(Payload)
  PROVE  /\ Len(GoalRows(goals)) = Len(goals)
         /\ GoalRows(goals) \in Seq([role : {Antares}, payload : Payload])
         /\ \A i \in DOMAIN GoalRows(goals) : GoalRows(goals)[i].role = Antares
  <1>1. DOMAIN goals = 1..Len(goals) /\ Len(goals) \in Nat
        /\ \A i \in 1..Len(goals) : goals[i] \in Payload
    BY LenProperties, ElementOfSeq
  <1>2. \A i \in 1..Len(goals) : Row("detector.antares", goals[i])
                                  \in [role : {Antares}, payload : Payload]
    BY <1>1 DEF Row, Antares
  <1>3. GoalRows(goals) = [i \in 1..Len(goals) |-> Row("detector.antares", goals[i])]
    BY <1>1 DEF GoalRows
  <1>4. QED
    BY <1>1, <1>2, <1>3 DEF Antares, Row

\* Three sequences one after the other.
LEMMA ThreeParts ==
  ASSUME NEW S, NEW A \in Seq(S), NEW B \in Seq(S), NEW C \in Seq(S)
  PROVE  LET n == Len(A) + Len(B)
         IN /\ A \o B \o C \in Seq(S) /\ Len(A) \in Nat /\ Len(B) \in Nat /\ Len(C) \in Nat
            /\ DOMAIN (A \o B \o C) = 1..(n + Len(C))
            /\ \A i \in 1..(n + Len(C)) :
                 (A \o B \o C)[i] = IF i <= Len(A) THEN A[i]
                                     ELSE IF i <= n THEN B[i - Len(A)] ELSE C[i - n]
  <1> DEFINE D == A \o B
             n == Len(A) + Len(B)
  <1>1. Len(A) \in Nat /\ Len(B) \in Nat /\ Len(C) \in Nat
    BY LenProperties
  <1>2. /\ D \in Seq(S) /\ Len(D) = n
        /\ \A i \in 1..n : D[i] = IF i <= Len(A) THEN A[i] ELSE B[i - Len(A)]
    BY ConcatProperties
  <1> HIDE DEF D
  <1>3. /\ D \o C \in Seq(S) /\ Len(D \o C) = n + Len(C)
        /\ \A i \in 1..(n + Len(C)) : (D \o C)[i] = IF i <= n THEN D[i] ELSE C[i - n]
    <2>1. /\ D \o C \in Seq(S) /\ Len(D \o C) = Len(D) + Len(C)
          /\ \A i \in 1..(Len(D) + Len(C)) :
               (D \o C)[i] = IF i <= Len(D) THEN D[i] ELSE C[i - Len(D)]
      <3> HIDE DEF n
      <3>1. D \in Seq(S)
        BY <1>2
      <3>2. QED
        BY ONLY <3>1, C \in Seq(S), ConcatProperties
    <2> HIDE DEF n
    <2>2. QED
      BY <1>2, <2>1
  <1>4. DOMAIN (D \o C) = 1..(n + Len(C))
    BY <1>3, LenProperties
  <1>5. \A i \in 1..(n + Len(C)) :
          (D \o C)[i] = IF i <= Len(A) THEN A[i] ELSE IF i <= n THEN B[i - Len(A)] ELSE C[i - n]
    BY <1>1, <1>2, <1>3
  <1>6. QED
    BY <1>1, <1>3, <1>4, <1>5 DEF D

LEMMA SeedRowsFacts ==
  /\ SeedRows \in Seq([role : Detectors, payload : Payload])
  /\ SeedRows # << >> /\ SeedRows[1].role = Secrets
  /\ 2 \in DOMAIN SeedRows /\ SeedRows[2].role = "detector.sca"
  /\ \A i, j \in DOMAIN SeedRows :
       SeedRows[i].role = SeedRows[j].role /\ SeedRows[i].role # Antares => i = j
  <1> DEFINE R == [role : Detectors, payload : Payload]
             A == << Row("detector.secrets", NoGoal), Row("detector.sca", NoGoal),
                     Row("detector.codeguard", NoGoal) >>
             B == IF EnableAntares THEN GoalRows(Goals) ELSE << >>
             C == IF EnableLlmCodeguard THEN << Row("detector.codeguard_llm", NoGoal) >>
                  ELSE << >>
  <1>1. /\ A \in Seq(R) /\ Len(A) = 3
        /\ A[1].role = Secrets /\ A[2].role = "detector.sca"
        /\ A[3].role = "detector.codeguard"
    BY PipelineAssumption DEF PipelineAssumption, Row, Detectors, Secrets
  <1>2. /\ B \in Seq(R) /\ Len(B) \in Nat
        /\ \A i \in 1..Len(B) : B[i].role = Antares
    <2>1. CASE EnableAntares
      <3>1. B = GoalRows(Goals) /\ Goals \in Seq(Payload)
        BY <2>1, PipelineAssumption DEF PipelineAssumption
      <3>2. /\ Len(B) = Len(Goals) /\ B \in Seq([role : {Antares}, payload : Payload])
            /\ \A i \in DOMAIN B : B[i].role = Antares
        BY <3>1, GoalRowsFacts
      <3> HIDE DEF B
      <3>3. B \in Seq(R)
        BY <3>2, SeqMonotonic DEF Detectors, Antares
      <3>4. QED
        BY <3>2, <3>3, LenProperties
    <2>2. CASE ~EnableAntares
      <3>1. B = << >>
        BY <2>2
      <3> HIDE DEF B, R
      <3>2. QED
        BY <3>1, EmptySeq
    <2>3. QED
      BY <2>1, <2>2
  <1>3. /\ C \in Seq(R) /\ Len(C) \in {0, 1}
        /\ \A i \in 1..Len(C) : C[i].role = "detector.codeguard_llm"
    <2>1. Row("detector.codeguard_llm", NoGoal) \in R
      BY PipelineAssumption DEF PipelineAssumption, Row, Detectors
    <2>2. Row("detector.codeguard_llm", NoGoal).role = "detector.codeguard_llm"
      BY DEF Row
    <2> DEFINE r == Row("detector.codeguard_llm", NoGoal)
    <2> HIDE DEF R, r
    <2>3. << r >> \in Seq(R) /\ Len(<< r >>) = 1 /\ << r >>[1] = r
      BY <2>1 DEF r
    <2>4. << >> \in Seq(R) /\ Len(<< >>) = 0
      BY EmptySeq
    <2>5. C = << r >> \/ C = << >>
      BY DEF r
    <2>6. QED
      BY <2>2, <2>3, <2>4, <2>5 DEF r
  <1>4. SeedRows = (A \o B) \o C
    BY DEF SeedRows
  <1> HIDE DEF A, B, C, R
  <1> DEFINE n == 3 + Len(B)
  <1>5. /\ SeedRows \in Seq(R) /\ Len(B) \in Nat /\ Len(C) \in Nat
        /\ DOMAIN SeedRows = 1..(n + Len(C))
        /\ \A i \in 1..(n + Len(C)) :
             SeedRows[i] = IF i <= 3 THEN A[i] ELSE IF i <= n THEN B[i - 3] ELSE C[i - n]
    <2>1. LET m == Len(A) + Len(B)
          IN /\ SeedRows \in Seq(R) /\ Len(B) \in Nat /\ Len(C) \in Nat
             /\ DOMAIN SeedRows = 1..(m + Len(C))
             /\ \A i \in 1..(m + Len(C)) :
                  SeedRows[i] = IF i <= Len(A) THEN A[i]
                                ELSE IF i <= m THEN B[i - Len(A)] ELSE C[i - m]
      <3>1. A \in Seq(R) /\ B \in Seq(R) /\ C \in Seq(R)
        BY <1>1, <1>2, <1>3
      <3> HIDE DEF n
      <3>2. QED
        BY ONLY <1>4, <3>1, ThreeParts
    <2>2. QED
      BY <1>1, <2>1
  <1>6. \A i \in 1..(n + Len(C)) :
          /\ i = 1 => SeedRows[i].role = Secrets
          /\ i = 2 => SeedRows[i].role = "detector.sca"
          /\ i = 3 => SeedRows[i].role = "detector.codeguard"
          /\ i > 3 /\ i <= n => SeedRows[i].role = Antares
          /\ i > n => i = n + 1 /\ SeedRows[i].role = "detector.codeguard_llm"
    <2> SUFFICES ASSUME NEW i \in 1..(n + Len(C))
                 PROVE  /\ i = 1 => SeedRows[i].role = Secrets
                        /\ i = 2 => SeedRows[i].role = "detector.sca"
                        /\ i = 3 => SeedRows[i].role = "detector.codeguard"
                        /\ i > 3 /\ i <= n => SeedRows[i].role = Antares
                        /\ i > n => i = n + 1 /\ SeedRows[i].role = "detector.codeguard_llm"
      OBVIOUS
    <2>1. i \in Nat /\ n \in Nat /\ i <= n + Len(C) /\ n >= 3
      BY <1>5
    <2>2. i <= 3 => SeedRows[i] = A[i]
      BY <1>5
    <2>3. i > 3 /\ i <= n => SeedRows[i] = B[i - 3] /\ i - 3 \in 1..Len(B)
      BY <1>5, <2>1
    <2>4. i > n => SeedRows[i] = C[i - n] /\ i - n \in 1..Len(C)
      BY <1>5, <2>1
    <2>5. i > n => i = n + 1
      BY <1>3, <2>1
    <2>6. QED
      BY <1>1, <1>2, <1>3, <2>1, <2>2, <2>3, <2>4, <2>5
  <1>7. SeedRows # << >>
    BY <1>5
  <1>8. \A i \in DOMAIN SeedRows : \A j \in DOMAIN SeedRows :
          SeedRows[i].role = SeedRows[j].role /\ SeedRows[i].role # Antares => i = j
    <2> SUFFICES ASSUME NEW i \in 1..(n + Len(C)), NEW j \in 1..(n + Len(C)),
                        SeedRows[i].role = SeedRows[j].role, SeedRows[i].role # Antares
                 PROVE  i = j
      BY <1>5
    <2>1. i \in Nat /\ j \in Nat /\ n \in Nat
      BY <1>5
    <2>2. \A k \in 1..(n + Len(C)) :
            /\ SeedRows[k].role = "detector.secrets" => k = 1 \/ k > 3
            /\ k > 3 /\ k <= n => SeedRows[k].role = "detector.antares"
            /\ k \in Nat
      BY <1>5, <1>6 DEF Secrets, Antares
    <2>3. i \in {1, 2, 3} \/ i = n + 1
      BY <1>6, <2>1, <2>2 DEF Antares
    <2>4. j \in {1, 2, 3} \/ j = n + 1
      BY <1>6, <2>1, <2>2 DEF Antares
    <2>5. SeedRows[i].role = IF i = 1 THEN "detector.secrets" ELSE IF i = 2 THEN "detector.sca"
                             ELSE IF i = 3 THEN "detector.codeguard" ELSE "detector.codeguard_llm"
      BY <1>6, <2>1, <2>3 DEF Secrets
    <2>6. SeedRows[j].role = IF j = 1 THEN "detector.secrets" ELSE IF j = 2 THEN "detector.sca"
                             ELSE IF j = 3 THEN "detector.codeguard" ELSE "detector.codeguard_llm"
      BY <1>6, <2>1, <2>4 DEF Secrets
    <2>7. QED
      BY <2>3, <2>4, <2>5, <2>6
  <1>9. /\ SeedRows[1].role = Secrets
        /\ 2 \in DOMAIN SeedRows /\ SeedRows[2].role = "detector.sca"
    BY <1>5, <1>6
  <1>10. QED
    BY <1>5, <1>7, <1>8, <1>9 DEF R

LEMMA ScaRowsFacts ==
  /\ ScaRows \in Seq([role : Detectors, payload : Payload])
  /\ \A i \in DOMAIN ScaRows : ScaRows[i].role = Antares
  <1>1. CASE EnableAntares
    <2>1. ScaRows = GoalRows(ScaGoals) /\ ScaGoals \in Seq(Payload)
      BY <1>1, PipelineAssumption DEF PipelineAssumption, ScaRows
    <2>2. /\ ScaRows \in Seq([role : {Antares}, payload : Payload])
          /\ \A i \in DOMAIN ScaRows : ScaRows[i].role = Antares
      BY <2>1, GoalRowsFacts
    <2>3. QED
      BY <2>2, SeqMonotonic DEF Detectors, Antares
  <1>2. CASE ~EnableAntares
    <2>1. ScaRows = << >>
      BY <1>2 DEF ScaRows
    <2>2. QED
      BY <2>1, EmptySeq
  <1>3. QED
    BY <1>1, <1>2

LEMMA JobFacts ==
  /\ \A j \in Jobs : j.role \in Detectors /\ j.payload \in Payload
  /\ SeedRows \in Seq(Jobs) /\ ScaRows \in Seq(Jobs)
  <1> DEFINE R == [role : Detectors, payload : Payload]
  <1>1. SeedRows \in Seq(R) /\ ScaRows \in Seq(R)
    BY SeedRowsFacts, ScaRowsFacts
  <1>2. \A S : \A seq \in Seq(S) : /\ \A i \in DOMAIN seq : seq[i] \in S
                                 /\ DOMAIN seq = 1..Len(seq) /\ Len(seq) \in Nat
    BY LenProperties, ElementOfSeq
  <1>3. \A S : \A seq \in Seq(S) : \A T :
          (\A i \in DOMAIN seq : seq[i] \in T) => seq \in Seq(T)
    BY <1>2, LenProperties
  <1> HIDE DEF R
  <1>4. Jobs \subseteq R
    BY <1>1, <1>2 DEF Jobs, ItemsOf
  <1>5. SeedRows \in Seq(Jobs) /\ ScaRows \in Seq(Jobs)
    BY <1>1, <1>3 DEF Jobs, ItemsOf
  <1>6. QED
    BY <1>4, <1>5 DEF R

----------------------------------------------------------------------------
(* What a step keeps, by what it does to the rows. *)

\* No worker but w moves.
Alone(w) ==
  \A v \in Agent : v # w => pc'[v] = pc[v] /\ cur'[v] = cur[v] /\ todo'[v] = todo[v]

SameRows == Task' = Task /\ \A t \in Task : tasks'[t].role = tasks[t].role

\* A task that is closed is opened again only by the worker that goes from it.
ReopensOwn(w) ==
  \A t \in Task : tasks[t].state = "closed" /\ tasks'[t].state # "closed" =>
    tasks[t].role \in RolesOf(w) /\ Busy(w) /\ ~Busy(w)'

\* Where w is after the step.
Arrives(w) ==
  /\ Busy(w)' => cur'[w].task \in Task /\ tasks[cur'[w].task].role \in RolesOf(w)
  /\ Busy(w)' /\ ~Busy(w) => tasks[cur'[w].task].state = "open"
  /\ pc'[w] = "advance" =>
       /\ Busy(w) /\ cur'[w] = cur[w]
       /\ pc[w] = "advance" \/ tasks'[cur[w].task].state = "closed"

\* No row is added.
LEMMA StepKeeps ==
  ASSUME PipeInv, TypeOK', StoreInv', NEW w \in Agent, Alone(w), SameRows,
         ReopensOwn(w), Arrives(w), LoopOf(w)', main' = "seed" => main = "seed"
  PROVE  PipeInv'
  <1>1. StageInv
    BY DEF PipeInv
  <1>2. \A r : RoleEnqueued(r)' = RoleEnqueued(r)
    BY DEF SameRows, RoleEnqueued
  <1>3. HoldsOwn'
    BY <1>1 DEF StageInv, HoldsOwn, Alone, Arrives, SameRows, Busy, RoleOf, RolesOf
  <1>4. NothingBeforeSeed' /\ OneRow' /\ SentinelFirst'
    BY <1>1, <1>2 DEF StageInv, SameRows, NothingBeforeSeed, OneRow, SentinelFirst
  <1>5. \A v \in Agent : LoopOf(v)'
    BY <1>1, <1>2 DEF StageInv, Alone, LoopOf, ToCome
  <1>6. "triager" \in Agent /\ RolesOf("triager") = {"triager"}
        /\ \A v \in Agent : "triager" \in RolesOf(v) => v = "triager"
    BY Threads DEF Singletons, Detectors
  <1>7. RoleEnqueued("reporter") => TriagerDone'
    <2> SUFFICES ASSUME RoleEnqueued("reporter") PROVE TriagerDone'
      OBVIOUS
    <2>1. TriagerDone
      BY <1>1 DEF StageInv, TriageInv
    <2>2. \A t \in Task : tasks[t].role = "triager" => tasks'[t].state = "closed"
      BY <1>6, <2>1 DEF ReopensOwn, TriagerDone
    <2>3. ~Busy("triager")'
      BY <1>6, <2>1 DEF Alone, Arrives, TriagerDone, Busy
    <2>4. QED
      BY <1>2, <2>1, <2>2, <2>3 DEF TriagerDone, SameRows
  <1>8. ASSUME pc'["triager"] = "advance"
        PROVE  tasks'[cur'["triager"].task].state = "closed"
    <2>1. CASE w = "triager"
      <3>1. CASE pc[w] = "advance"
        <4>1. /\ cur'[w] = cur[w] /\ cur[w].task \in Task
              /\ tasks[cur[w].task].state = "closed" /\ Busy(w)'
          BY <1>1, <1>8, <2>1, <3>1 DEF Arrives, StageInv, HoldsOwn, TriageInv, Busy
        <4>2. QED
          BY <2>1, <4>1 DEF ReopensOwn
      <3>2. QED
        BY <1>8, <2>1, <3>1 DEF Arrives
    <2>2. CASE w # "triager"
      <3>1. pc["triager"] = "advance" /\ cur'["triager"] = cur["triager"]
        BY <1>6, <1>8, <2>2 DEF Alone
      <3>2. /\ cur["triager"].task \in Task
            /\ tasks[cur["triager"].task].role = "triager"
            /\ tasks[cur["triager"].task].state = "closed"
        BY <1>1, <1>6, <3>1 DEF StageInv, HoldsOwn, TriageInv, Busy, RoleOf
      <3>3. QED
        BY <1>6, <2>2, <3>1, <3>2 DEF ReopensOwn
    <2>3. QED
      BY <2>1, <2>2
  <1>9. TriageInv'
    BY <1>2, <1>7, <1>8 DEF TriageInv
  <1>10. QED
    BY <1>3, <1>4, <1>5, <1>9 DEF PipeInv, StageInv

LEMMA RowAdded ==
  ASSUME StoreTypeOK, NEW role \in Role, NEW payload, AddTask(role, payload)
  PROVE  /\ \E n : /\ Task' = Task \cup {n} /\ n \notin Task
                   /\ \A t \in Task : tasks'[t] = tasks[t]
                   /\ tasks'[n].role = role
         /\ \A r : RoleEnqueued(r)' <=> RoleEnqueued(r) \/ r = role
  <1> DEFINE n == Len(tasks) + 1
  <1>1. /\ Task = 1..Len(tasks) /\ Len(tasks) \in Nat
        /\ tasks \in Seq(TaskRow)
    BY TaskFacts DEF StoreTypeOK
  <1>2. /\ Len(tasks') = n /\ tasks'[n] = NewRow(role, payload)
        /\ \A t \in 1..Len(tasks) : tasks'[t] = tasks[t]
    BY <1>1 DEF AddTask
  <1>3. Task' = 1..n
    BY <1>1, <1>2 DEF Task, AddTask
  <1>4. /\ Task' = Task \cup {n} /\ n \notin Task
        /\ \A t \in Task : tasks'[t] = tasks[t]
        /\ tasks'[n].role = role
    BY <1>1, <1>2, <1>3 DEF NewRow
  <1> HIDE DEF n
  <1>5. \A r : RoleEnqueued(r)' <=> RoleEnqueued(r) \/ r = role
    BY <1>4 DEF RoleEnqueued
  <1>6. QED
    BY <1>4, <1>5

\* One row is added.
LEMMA AddKeeps ==
  ASSUME PipeInv, TypeOK', StoreInv', NEW w \in Agent, Alone(w),
         NEW role \in Role, NEW payload, AddTask(role, payload), main' # "seed",
         LoopOf(w)',
         Busy(w)' => Busy(w) /\ cur'[w] = cur[w] /\ pc'[w] # "advance",
         role # Antares => ~RoleEnqueued(role),
         role \in Detectors \ {Antares} =>
           /\ w = "cartographer"
           /\ RoleEnqueued(Secrets) \/ role = Secrets,
         role = "reporter" => w = "triager" /\ pc[w] = "advance" /\ ~Busy(w)'
  PROVE  PipeInv'
  <1>1. StageInv /\ StoreTypeOK
    BY DEF PipeInv, StoreInv
  <1>2. PICK n : /\ Task' = Task \cup {n} /\ n \notin Task
                 /\ \A t \in Task : tasks'[t] = tasks[t]
                 /\ tasks'[n].role = role
    BY <1>1, RowAdded
  <1>3. \A r : RoleEnqueued(r)' <=> RoleEnqueued(r) \/ r = role
    BY <1>1, RowAdded
  <1>4. HoldsOwn'
    BY <1>1, <1>2 DEF StageInv, HoldsOwn, Alone, Busy, RoleOf, RolesOf
  <1>5. OneRow'
    BY <1>1, <1>2 DEF StageInv, OneRow, RoleEnqueued
  <1>6. SentinelFirst'
    BY <1>1, <1>2, <1>3 DEF StageInv, SentinelFirst
  <1>7. ASSUME NEW v \in Agent, v # w PROVE LoopOf(v)'
    <2>1. pc'[v] = pc[v] /\ todo'[v] = todo[v] /\ LoopOf(v)
      BY <1>1, <1>7 DEF StageInv, Alone
    <2>2. ASSUME pc[v] = "enqueue" PROVE v = "cartographer" /\ ToCome(todo[v])'
      <3>1. v = "cartographer" /\ ToCome(todo[v])
        BY <2>1, <2>2 DEF LoopOf
      <3>2. role \notin Detectors \ {Antares}
        BY <1>7, <3>1
      <3>3. todo[v] \in Seq(Jobs)
        BY DEF PipeInv, TypeOK
      <3>4. \A i \in DOMAIN todo[v] : todo[v][i].role \in Detectors
        BY <3>3, JobFacts, LenProperties, ElementOfSeq
      <3>5. ASSUME NEW i \in DOMAIN todo[v], NEW r, r = todo[v][i].role, r # Antares
            PROVE  ~RoleEnqueued(r)'
        BY <1>3, <3>1, <3>2, <3>4, <3>5 DEF ToCome
      <3>6. QED
        BY <1>3, <2>1, <3>1, <3>5 DEF ToCome
    <2>3. QED
      BY <2>1, <2>2 DEF LoopOf
  <1>8. "triager" \in Agent /\ RolesOf("triager") = {"triager"}
    BY Threads DEF Singletons
  <1>9. RoleEnqueued("reporter")' => TriagerDone'
    <2>1. CASE role = "reporter"
      <3>1. /\ w = "triager" /\ pc[w] = "advance" /\ ~Busy(w)'
            /\ tasks[cur[w].task].state = "closed"
            /\ cur[w].task \in Task /\ tasks[cur[w].task].role = "triager"
        BY <1>1, <1>8, <2>1 DEF StageInv, TriageInv, HoldsOwn, Busy, RoleOf
      <3>2. \A t \in Task : tasks[t].role = "triager" => t = cur[w].task
        BY <1>1, <3>1 DEF StageInv, OneRow, Antares
      <3>3. QED
        BY <1>2, <1>3, <2>1, <3>1, <3>2 DEF TriagerDone, RoleEnqueued
    <2>2. CASE role # "reporter" /\ RoleEnqueued("reporter")
      <3>1. TriagerDone
        BY <1>1, <2>2 DEF StageInv, TriageInv
      <3>2. role # "triager"
        BY <3>1 DEF TriagerDone, Antares
      <3>3. ~Busy("triager")'
        BY <1>8, <3>1 DEF TriagerDone, Alone, Busy
      <3>4. QED
        BY <1>2, <1>3, <3>1, <3>2, <3>3 DEF TriagerDone
    <2>3. QED
      BY <1>3, <2>1, <2>2
  <1>10. ASSUME pc'["triager"] = "advance"
         PROVE  tasks'[cur'["triager"].task].state = "closed"
    <2>1. "triager" # w
      BY <1>10 DEF Busy
    <2>2. pc["triager"] = "advance" /\ cur'["triager"] = cur["triager"]
      BY <1>8, <1>10, <2>1 DEF Alone
    <2>3. cur["triager"].task \in Task /\ tasks[cur["triager"].task].state = "closed"
      BY <1>1, <1>8, <2>2 DEF StageInv, HoldsOwn, TriageInv, Busy
    <2>4. QED
      BY <1>2, <2>2, <2>3
  <1>11. TriageInv'
    BY <1>9, <1>10 DEF TriageInv
  <1>12. QED
    BY <1>4, <1>5, <1>6, <1>7, <1>11 DEF PipeInv, StageInv, NothingBeforeSeed

----------------------------------------------------------------------------
(* The steps of a worker. *)

LEMMA StoreSame ==
  ASSUME StoreInv, UNCHANGED store
  PROVE  StoreInv' /\ SameRows /\ tasks' = tasks /\ Task' = Task
  BY DEF store, StoreInv, StoreTypeOK, ClaimedIffClaimRow, ClaimsOn, Task,
         AttemptsFollowReleases, HandedOutThrice, SameRows

LEMMA RestFacts ==
  ASSUME TypeOK, NEW w \in Agent, Rest(w)
  PROVE  /\ pc'[w] \in {"idle", "exit"} /\ ~Busy(w)'
         /\ \A v \in Agent : v # w => pc'[v] = pc[v] /\ cur'[v] = cur[v]
         /\ pc' \in [Agent -> {"idle", "start", "run", "goals", "complete", "advance",
                              "enqueue", "barrier", "exit", "dead"}]
         /\ cur' \in [Agent -> [task : Nat, attempt : Nat]]
  BY DEF TypeOK, Rest, Goto, NoTask, Busy

\* The worker goes on with its task; the store is not touched.
LEMMA MoveKeeps ==
  ASSUME PipeInv, TypeOK', NEW w \in Agent, Busy(w),
         NEW label \in {"run", "goals", "complete", "enqueue", "barrier"}, Goto(w, label),
         UNCHANGED <<store, cur, main>>,
         \A v \in Agent : v # w => todo'[v] = todo[v],
         LoopOf(w)'
  PROVE  PipeInv'
  <1>1. StoreInv' /\ SameRows /\ tasks' = tasks
    BY StoreSame DEF PipeInv
  <1>2. pc'[w] = label /\ \A v \in Agent : v # w => pc'[v] = pc[v]
    BY DEF PipeInv, TypeOK, Goto
  <1>3. Alone(w) /\ ReopensOwn(w)
    BY <1>1, <1>2 DEF Alone, ReopensOwn
  <1>4. Arrives(w)
    BY <1>2 DEF Arrives, PipeInv, StageInv, HoldsOwn, RoleOf
  <1>5. QED
    BY <1>1, <1>3, <1>4, StepKeeps

\* The worker's task is over, and only that one may be opened again.
LEMMA RestKeeps ==
  ASSUME PipeInv, TypeOK', StoreInv', NEW w \in Agent, Busy(w), Rest(w), SameRows,
         \A t \in Task : tasks[t].state = "closed" /\ tasks'[t].state # "closed"
                        => t = cur[w].task,
         \A v \in Agent : v # w => todo'[v] = todo[v],
         main' = main
  PROVE  PipeInv'
  <1>1. /\ pc'[w] \in {"idle", "exit"} /\ ~Busy(w)'
        /\ \A v \in Agent : v # w => pc'[v] = pc[v] /\ cur'[v] = cur[v]
    BY RestFacts DEF PipeInv
  <1>2. Alone(w) /\ Arrives(w) /\ LoopOf(w)'
    BY <1>1 DEF Alone, Arrives, LoopOf
  <1>3. RoleOf(w) \in RolesOf(w)
    BY DEF PipeInv, StageInv, HoldsOwn
  <1>4. ReopensOwn(w)
    BY <1>1, <1>3 DEF ReopensOwn, RoleOf
  <1>5. QED
    BY <1>2, <1>4, StepKeeps

\* What claim_task, complete_task and release_task do to the rows.
LEMMA RowChanges ==
  ASSUME StoreInv, NEW t \in Task
  PROVE  /\ Claimed(tasks[t]).role = tasks[t].role
         /\ Closed(tasks[t]).role = tasks[t].role
         /\ Released(tasks[t]).role = tasks[t].role
         /\ Closed(tasks[t]).state = "closed"
         /\ \A row \in {Claimed(tasks[t]), Closed(tasks[t]), Released(tasks[t])} :
              tasks' = [tasks EXCEPT ![t] = row] =>
                /\ SameRows /\ tasks'[t] = row
                /\ \A u \in Task : u # t => tasks'[u] = tasks[u]
  <1>1. tasks[t] \in TaskRow /\ StoreTypeOK
    BY TaskFacts DEF StoreInv
  <1>2. /\ Claimed(tasks[t]) \in TaskRow /\ Closed(tasks[t]) \in TaskRow
        /\ Released(tasks[t]) \in TaskRow /\ Closed(tasks[t]).state = "closed"
    BY <1>1, RowUpdates
  <1>3. /\ Claimed(tasks[t]).role = tasks[t].role
        /\ Closed(tasks[t]).role = tasks[t].role
        /\ Released(tasks[t]).role = tasks[t].role
    BY <1>1 DEF TaskRow, Claimed, Closed, Released
  <1>4. ASSUME NEW row \in {Claimed(tasks[t]), Closed(tasks[t]), Released(tasks[t])},
               tasks' = [tasks EXCEPT ![t] = row]
        PROVE  /\ SameRows /\ tasks'[t] = row
               /\ \A u \in Task : u # t => tasks'[u] = tasks[u]
    <2>1. row \in TaskRow /\ row.role = tasks[t].role
      BY <1>2, <1>3
    <2>2. /\ Task' = Task
          /\ \A u \in Task : tasks'[u] = IF u = t THEN row ELSE tasks[u]
      BY <1>1, <1>4, <2>1, RowReplaced
    <2>3. QED
      BY <2>1, <2>2 DEF SameRows
  <1>5. QED
    BY <1>2, <1>3, <1>4

LEMMA TakeTaskKeeps ==
  ASSUME PipeInv, NEW w \in Agent, TakeTask(w)
  PROVE  PipeInv'
  <1>1. PICK t \in Task : /\ ClaimTask(w, RolesOf(w), t)
                          /\ cur' = [cur EXCEPT ![w] = [task |-> t,
                                                        attempt |-> tasks[t].attempts + 1]]
    BY DEF TakeTask
  <1>2. pc[w] = "idle" /\ pc' = [pc EXCEPT ![w] = "start"]
        /\ UNCHANGED <<todo, results, cancelled, control, budget, history>>
    BY DEF TakeTask, Goto
  <1>3. TypeOK /\ StoreInv
    BY DEF PipeInv
  <1>4. StoreInv'
    BY <1>1, <1>3, ClaimTaskKeepsInv
  <1>5. /\ tasks[t].state = "open" /\ tasks[t].role \in RolesOf(w)
        /\ tasks' = [tasks EXCEPT ![t] = Claimed(tasks[t])]
    BY <1>1 DEF ClaimTask, NextOpen, TasksIn
  <1>6. SameRows /\ \A u \in Task : u # t => tasks'[u] = tasks[u]
    BY <1>3, <1>5, RowChanges
  <1>7. t \in Nat /\ tasks[t].attempts + 1 \in Nat
    BY <1>3, TaskFacts DEF StoreInv, TaskRow
  <1>8. TypeOK'
    BY <1>1, <1>2, <1>3, <1>4, <1>7
       DEF TypeOK, StoreInv, results, control, budget, history
  <1>9. /\ pc'[w] = "start" /\ cur'[w].task = t
        /\ \A v \in Agent : v # w => pc'[v] = pc[v] /\ cur'[v] = cur[v]
    BY <1>1, <1>2, <1>3 DEF TypeOK
  <1>10. Alone(w) /\ Arrives(w) /\ LoopOf(w)' /\ main' = main
    BY <1>2, <1>5, <1>9 DEF Alone, Arrives, LoopOf, Busy, control
  <1>11. ReopensOwn(w)
    BY <1>5, <1>6 DEF ReopensOwn
  <1>12. QED
    BY <1>4, <1>6, <1>8, <1>10, <1>11, StepKeeps

\* release_task and the end of the task.
LEMMA GiveUpKeeps ==
  ASSUME PipeInv, NEW w \in Agent, Busy(w), Rest(w),
         ReleaseTask(cur[w].task) \/ UNCHANGED store,
         todo' \in [Agent -> Seq(Jobs)], \A v \in Agent : v # w => todo'[v] = todo[v],
         faults' \in 0..MaxFaults, lost' \in BOOLEAN,
         UNCHANGED <<results, cancelled, control, deaths, lapses, early>>
  PROVE  PipeInv'
  <1>1. TypeOK /\ StoreInv /\ cur[w].task \in Task
    BY DEF PipeInv, StageInv, HoldsOwn
  <1>2. /\ StoreInv' /\ SameRows
        /\ \A t \in Task : t # cur[w].task => tasks'[t] = tasks[t]
    <2>1. CASE UNCHANGED store
      BY <1>1, <2>1, StoreSame
    <2>2. CASE ReleaseTask(cur[w].task)
      BY <1>1, <2>2, RowChanges, ReleaseTaskKeepsInv DEF ReleaseTask
    <2>3. QED
      BY <2>1, <2>2
  <1>3. TypeOK'
    BY <1>1, <1>2, RestFacts DEF TypeOK, StoreInv, results, control
  <1>4. QED
    BY <1>2, <1>3, RestKeeps DEF control

LEMMA CancelledKeeps ==
  ASSUME PipeInv, NEW w \in Agent, Cancelled(w)
  PROVE  PipeInv'
  <1>1. /\ Busy(w) /\ Rest(w) /\ ReleaseTask(cur[w].task)
        /\ UNCHANGED <<todo, results, cancelled, control, budget, history>>
    BY DEF Cancelled, Busy
  <1>2. /\ todo' \in [Agent -> Seq(Jobs)] /\ faults' \in 0..MaxFaults /\ lost' \in BOOLEAN
    BY <1>1 DEF PipeInv, TypeOK, budget, history
  <1>3. QED
    BY <1>1, <1>2, GiveUpKeeps DEF budget, history

LEMMA FailKeeps ==
  ASSUME PipeInv, NEW w \in Agent, Fail(w)
  PROVE  PipeInv'
  <1>1. /\ Busy(w) /\ Rest(w)
        /\ ReleaseTask(cur[w].task) \/ UNCHANGED store
        /\ faults + deaths < MaxFaults /\ faults' = faults + 1
        /\ todo' = [todo EXCEPT ![w] = << >>]
        /\ UNCHANGED <<results, cancelled, control, deaths, lapses, early>>
    BY DEF Fail, Busy
  <1>2. /\ faults \in 0..MaxFaults /\ deaths \in Nat /\ MaxFaults \in Nat
        /\ lost \in BOOLEAN
    BY PipelineAssumption DEF PipelineAssumption, PipeInv, TypeOK
  <1>3. faults' \in 0..MaxFaults
    BY <1>1, <1>2
  <1>4. lost' \in BOOLEAN
    <2>1. \/ lost' = lost
          \/ lost' = (lost \/ pc[w] \in {"advance", "enqueue", "barrier"})
      BY Zenon DEF Fail
    <2>2. QED
      BY <1>2, <2>1
  <1>5. todo \in [Agent -> Seq(Jobs)] /\ << >> \in Seq(Jobs)
    BY DEF PipeInv, TypeOK
  <1>6. /\ todo' \in [Agent -> Seq(Jobs)]
        /\ \A v \in Agent : v # w => todo'[v] = todo[v]
    BY <1>1, <1>5
  <1>7. QED
    BY <1>1, <1>3, <1>4, <1>6, GiveUpKeeps

LEMMA DieKeeps ==
  ASSUME PipeInv, NEW w \in Agent, Die(w)
  PROVE  PipeInv'
  <1>1. TypeOK /\ StoreInv' /\ SameRows /\ tasks' = tasks
    BY StoreSame DEF PipeInv, Die
  <1>2. /\ pc[w] = "idle" /\ pc' = [pc EXCEPT ![w] = "dead"]
        /\ deaths < MaxDeaths /\ deaths' = deaths + 1 /\ MaxDeaths \in Nat
        /\ UNCHANGED <<store, cur, todo, results, cancelled, control, faults, lapses, history>>
    BY PipelineAssumption DEF PipelineAssumption, Die, Goto
  <1>3. TypeOK'
    BY <1>1, <1>2 DEF TypeOK, StoreInv, store, results, control, history
  <1>4. pc'[w] = "dead" /\ \A v \in Agent : v # w => pc'[v] = pc[v]
    BY <1>1, <1>2 DEF TypeOK
  <1>5. Alone(w) /\ Arrives(w) /\ LoopOf(w)' /\ ReopensOwn(w) /\ main' = main
    BY <1>1, <1>2, <1>4 DEF Alone, Arrives, LoopOf, ReopensOwn, Busy, control
  <1>6. QED
    BY <1>1, <1>3, <1>5, StepKeeps

\* The steps of handle_task but the enqueue loop of SCA.
LEMMA HandleKeeps ==
  ASSUME PipeInv, NEW w \in Agent,
         Start(w) \/ Index(w) \/ Detect(w) \/ Triage(w) \/ Report(w)
  PROVE  PipeInv'
  <1>1. TypeOK /\ StoreInv
    BY DEF PipeInv
  <1>3. CASE Start(w) \/ Index(w) \/ Triage(w) \/ Report(w)
    <2>1. PICK label \in {"run", "complete"} : Goto(w, label)
      BY <1>3 DEF Start, Index, Triage, Report
    <2>2. /\ Busy(w) /\ UNCHANGED <<store, cur, todo, cancelled, control, budget, history>>
      BY <1>3 DEF Start, Index, Triage, Report, Busy, results
    <2>3. /\ finding' \in [Jobs -> {"none", "candidate", "judged"}]
          /\ snapshot' \subseteq Jobs /\ reported' \subseteq Jobs
      BY <1>1, <1>3 DEF TypeOK, Start, Index, Triage, Report, JobsIn, results
    <2>4. TypeOK'
      BY <1>1, <2>1, <2>2, <2>3
         DEF TypeOK, StoreTypeOK, Goto, store, control, budget, history
    <2>5. pc'[w] = label
      BY <1>1, <2>1 DEF Goto, TypeOK
    <2>6. LoopOf(w)'
      BY <2>5 DEF LoopOf
    <2>7. QED
      BY <2>1, <2>2, <2>4, <2>6, MoveKeeps DEF control
  <1>4. CASE Detect(w)
    <2> DEFINE job == JobOf(cur[w].task)
               rows == IF job.role = "detector.sca" THEN ScaRows ELSE << >>
    <2>1. /\ Busy(w)
          /\ \E f \in {"candidate", "judged"} : finding' = [finding EXCEPT ![job] = f]
          /\ todo' = [todo EXCEPT ![w] = rows]
          /\ Goto(w, IF rows = << >> THEN "complete" ELSE "goals")
          /\ UNCHANGED <<store, cur, snapshot, reported, cancelled, control, budget, history>>
      BY <1>4 DEF Detect, Busy
    <2>2. rows \in Seq(Jobs) /\ \A i \in DOMAIN rows : rows[i].role = Antares
      <3>1. CASE job.role = "detector.sca"
        BY <3>1, JobFacts, ScaRowsFacts
      <3>2. CASE job.role # "detector.sca"
        BY <3>2
      <3>3. QED
        BY <3>1, <3>2
    <2> HIDE DEF rows, job
    <2>3. PICK label \in {"goals", "complete"} :
            Goto(w, label) /\ (label = "goals" => rows # << >>)
      BY <2>1
    <2>4. finding' \in [Jobs -> {"none", "candidate", "judged"}]
      BY <1>1, <2>1 DEF TypeOK
    <2>5. /\ todo' \in [Agent -> Seq(Jobs)] /\ todo'[w] = rows
          /\ \A v \in Agent : v # w => todo'[v] = todo[v]
      BY <1>1, <2>1, <2>2 DEF TypeOK
    <2>6. TypeOK'
      BY <1>1, <2>1, <2>3, <2>4, <2>5
         DEF TypeOK, StoreTypeOK, Goto, store, control, budget, history
    <2>7. pc'[w] = label
      BY <1>1, <2>3 DEF Goto, TypeOK
    <2>8. LoopOf(w)'
      BY <2>2, <2>3, <2>5, <2>7 DEF LoopOf
    <2>9. QED
      BY <2>1, <2>3, <2>5, <2>6, <2>8, MoveKeeps DEF control
  <1>5. QED
    BY <1>3, <1>4

LEMMA CompleteKeeps ==
  ASSUME PipeInv, NEW w \in Agent, Complete(w)
  PROVE  PipeInv'
  <1> DEFINE t == cur[w].task
  <1>1. /\ pc[w] = "complete" /\ CompleteTask(t) /\ pc' = [pc EXCEPT ![w] = "advance"]
        /\ UNCHANGED <<cur, todo, results, cancelled, control, budget, history>>
    BY DEF Complete, Goto
  <1>2. TypeOK /\ StoreInv /\ t \in Task /\ tasks[t].role \in RolesOf(w)
    BY <1>1 DEF PipeInv, StageInv, HoldsOwn, Busy, RoleOf
  <1>3. StoreInv'
    BY <1>1, <1>2, CompleteTaskKeepsInv
  <1>4. /\ SameRows /\ tasks'[t].state = "closed"
        /\ \A u \in Task : u # t => tasks'[u] = tasks[u]
    BY <1>1, <1>2, RowChanges DEF CompleteTask
  <1>5. TypeOK'
    BY <1>1, <1>2, <1>3 DEF TypeOK, StoreInv, results, control, budget, history
  <1>6. pc'[w] = "advance" /\ \A v \in Agent : v # w => pc'[v] = pc[v]
    BY <1>1, <1>2 DEF TypeOK
  <1>7. Alone(w) /\ Arrives(w) /\ LoopOf(w)' /\ ReopensOwn(w) /\ main' = main
    BY <1>1, <1>2, <1>4, <1>6 DEF Alone, Arrives, LoopOf, ReopensOwn, Busy, control
  <1>8. QED
    BY <1>3, <1>4, <1>5, <1>7, StepKeeps

\* One row of an enqueue loop.
LEMMA AddNextKeeps ==
  ASSUME PipeInv, NEW w \in Agent, AddNext(w)
  PROVE  PipeInv'
  <1> DEFINE rows == todo[w]
             role == rows[1].role
             payload == rows[1].payload
  <1>1. /\ TypeOK /\ StoreInv /\ rows \in Seq(Jobs) /\ LoopOf(w)
        /\ NothingBeforeSeed /\ HoldsOwn
    BY DEF PipeInv, StageInv, TypeOK
  <1>2. /\ pc[w] \in {"enqueue", "goals"} /\ Busy(w)
        /\ AddTask(Head(rows).role, Head(rows).payload)
        /\ todo' = [todo EXCEPT ![w] = Tail(rows)]
        /\ UNCHANGED <<results, cancelled, control, budget, history>>
    BY DEF AddNext, Busy
  <1>3. rows # << >>
    BY <1>1, <1>2 DEF LoopOf, ToCome
  <1>4. /\ Len(rows) \in Nat /\ 1 <= Len(rows) /\ DOMAIN rows = 1..Len(rows)
        /\ Head(rows) = rows[1] /\ rows[1] \in Jobs /\ Tail(rows) \in Seq(Jobs)
        /\ Len(Tail(rows)) = Len(rows) - 1
        /\ DOMAIN Tail(rows) = 1..(Len(rows) - 1)
        /\ \A i \in 1..(Len(rows) - 1) : Tail(rows)[i] = rows[i + 1]
        /\ Len(rows) > 1 => Tail(rows) # << >>
    <2>1. /\ Tail(rows) \in Seq(Jobs) /\ Len(Tail(rows)) = Len(rows) - 1
          /\ \A i \in 1..Len(Tail(rows)) : Tail(rows)[i] = rows[i + 1]
          /\ Head(rows) \in Jobs
      BY <1>1, <1>3, HeadTailProperties
    <2>2. Len(rows) \in Nat \ {0} /\ DOMAIN rows = 1..Len(rows)
      BY <1>1, <1>3, EmptySeq, LenProperties
    <2>3. DOMAIN Tail(rows) = 1..Len(Tail(rows))
      BY <2>1, LenProperties
    <2>4. Head(rows) = rows[1]
      BY <1>1, <1>3
    <2>5. Len(<< >>) = 0
      OBVIOUS
    <2> HIDE DEF rows
    <2>6. Len(rows) > 1 => Tail(rows) # << >>
      <3> DEFINE rest == Tail(rows)
                 n == Len(rows)
      <3>1. Len(rest) = n - 1 /\ n \in Nat
        BY <2>1, <2>2
      <3> HIDE DEF rest, n
      <3>2. n > 1 => rest # << >>
        BY <2>5, <3>1
      <3>3. QED
        BY <3>2 DEF rest, n
    <2>7. QED
      BY <2>1, <2>2, <2>3, <2>4, <2>6
  <1>5. /\ role \in Detectors /\ role \in Role /\ payload \in Payload
        /\ AddTask(role, payload)
    BY <1>2, <1>4, JobFacts, Threads
  <1>6. /\ todo'[w] = Tail(rows) /\ \A v \in Agent : v # w => todo'[v] = todo[v]
        /\ todo' \in [Agent -> Seq(Jobs)]
    BY <1>1, <1>2, <1>4 DEF TypeOK
  <1>7. \/ /\ Len(rows) > 1 /\ UNCHANGED <<pc, cur>>
        \/ /\ Len(rows) = 1 /\ pc[w] = "goals" /\ Goto(w, "complete") /\ UNCHANGED cur
        \/ /\ Len(rows) = 1 /\ Rest(w)
    <2>1. IF Len(rows) > 1 THEN UNCHANGED <<pc, cur>>
          ELSE IF pc[w] = "goals" THEN Goto(w, "complete") /\ UNCHANGED cur ELSE Rest(w)
      BY DEF AddNext
    <2> HIDE DEF rows
    <2>2. Len(rows) > 1 \/ Len(rows) = 1
      BY <1>4
    <2>3. QED
      BY <2>1, <2>2, Zenon
  <1>8. /\ pc' \in [Agent -> {"idle", "start", "run", "goals", "complete", "advance",
                             "enqueue", "barrier", "exit", "dead"}]
        /\ cur' \in [Agent -> [task : Nat, attempt : Nat]]
        /\ \A v \in Agent : v # w => pc'[v] = pc[v] /\ cur'[v] = cur[v]
        /\ Busy(w)' => Busy(w) /\ cur'[w] = cur[w] /\ pc'[w] # "advance"
        /\ pc'[w] \in {"goals", "enqueue"} => Len(rows) > 1 /\ pc'[w] = pc[w]
    <2> HIDE DEF rows
    <2>1. CASE Len(rows) > 1 /\ UNCHANGED <<pc, cur>>
      BY <1>1, <1>2, <2>1 DEF TypeOK, Busy
    <2>2. CASE Goto(w, "complete") /\ UNCHANGED cur
      BY <1>1, <1>2, <2>2 DEF TypeOK, Goto
    <2>3. CASE Rest(w)
      BY <1>1, <2>3, RestFacts
    <2>4. QED
      BY <1>7, <2>1, <2>2, <2>3
  <1>9. StoreInv'
    BY <1>1, <1>5, AddTaskKeepsInv
  <1>10. TypeOK'
    BY <1>1, <1>2, <1>6, <1>8, <1>9
       DEF TypeOK, StoreInv, results, control, budget, history
  <1> HIDE DEF rows, role, payload
  <1>11. pc'[w] = "goals" =>
           todo'[w] # << >> /\ \A i \in DOMAIN todo'[w] : todo'[w][i].role = Antares
    <2> SUFFICES ASSUME pc'[w] = "goals"
                 PROVE  Tail(rows) # << >> /\ \A i \in DOMAIN Tail(rows) : Tail(rows)[i].role = Antares
      BY <1>6
    <2>1. pc[w] = "goals" /\ Len(rows) > 1
      BY <1>8
    <2>2. \A i \in 1..Len(rows) : rows[i].role = Antares
      BY <1>1, <1>4, <2>1 DEF LoopOf, rows
    <2>3. \A i \in 1..(Len(rows) - 1) : i + 1 \in 1..Len(rows)
      BY <1>4
    <2>4. QED
      BY <1>4, <2>1, <2>2, <2>3
  <1>12. ASSUME pc'[w] = "enqueue" PROVE w = "cartographer" /\ ToCome(todo[w])'
    <2>1. w = "cartographer" /\ ToCome(rows) /\ Len(rows) > 1
      BY <1>1, <1>8, <1>12 DEF LoopOf, rows
    <2>2. \A r : RoleEnqueued(r)' <=> RoleEnqueued(r) \/ r = role
      BY <1>1, <1>5, RowAdded DEF StoreInv
    <2>3. Tail(rows) # << >>
      BY <1>4, <2>1
    <2>4. ASSUME NEW i \in DOMAIN Tail(rows), NEW j \in DOMAIN Tail(rows),
                 Tail(rows)[i].role = Tail(rows)[j].role, Tail(rows)[i].role # Antares
          PROVE  i = j
      <3>1. i \in Nat /\ j \in Nat /\ i + 1 \in DOMAIN rows /\ j + 1 \in DOMAIN rows
        <4>1. i \in 1..(Len(rows) - 1) /\ j \in 1..(Len(rows) - 1)
          BY <1>4, <2>4
        <4>2. DOMAIN rows = 1..Len(rows) /\ Len(rows) \in Nat
          BY <1>4
        <4>3. QED
          BY <4>1, <4>2
      <3>2. i + 1 = j + 1
        BY <1>4, <2>1, <2>4, <3>1 DEF ToCome
      <3>3. QED
        BY <3>1, <3>2
    <2>5. ASSUME NEW i \in DOMAIN Tail(rows), NEW r, r = Tail(rows)[i].role, r # Antares
          PROVE  ~RoleEnqueued(r)'
      <3>1. i \in Nat /\ i + 1 \in DOMAIN rows /\ 1 \in DOMAIN rows /\ i + 1 # 1
            /\ r = rows[i + 1].role
        BY <1>4, <2>5
      <3>2. ~RoleEnqueued(r) /\ r # role
        BY <2>1, <2>5, <3>1 DEF ToCome, role
      <3>3. QED
        BY <2>2, <3>2
    <2>6. RoleEnqueued(Secrets)'
      BY <2>1, <2>2 DEF ToCome, role
    <2>7. QED
      BY <1>6, <2>1, <2>3, <2>4, <2>5, <2>6 DEF ToCome
  <1>13. LoopOf(w)'
    BY <1>11, <1>12 DEF LoopOf
  <1>14. role # Antares =>
           /\ ~RoleEnqueued(role) /\ w = "cartographer"
           /\ RoleEnqueued(Secrets) \/ role = Secrets
    BY <1>1, <1>2, <1>4 DEF LoopOf, ToCome, role, rows
  <1>15. main' # "seed"
    BY <1>1, <1>2 DEF NothingBeforeSeed, HoldsOwn, control
  <1>16. role # "reporter" /\ Alone(w)
    BY <1>5, <1>6, <1>8 DEF Detectors, Alone
  <1>17. QED
    BY <1>5, <1>8, <1>9, <1>10, <1>13, <1>14, <1>15, <1>16, AddKeeps

\* add_task_if_absent of a stage, after which the worker rests.
LEMMA AddIfAbsentKeeps ==
  ASSUME PipeInv, NEW w \in Agent, Busy(w), Rest(w),
         NEW role \in {"cartographer", "triager", "reporter"},
         AddTaskIfAbsent(role, NoGoal),
         role = "reporter" => w = "triager" /\ pc[w] = "advance",
         UNCHANGED <<todo, results, cancelled, control, budget, history>>
  PROVE  PipeInv'
  <1>1. TypeOK /\ StoreInv /\ NothingBeforeSeed /\ HoldsOwn
    BY DEF PipeInv, StageInv
  <1>2. role \in Role \ Detectors /\ NoGoal \in Payload
    BY Threads, PipelineAssumption DEF PipelineAssumption, Singletons
  <1>3. StoreInv'
    BY <1>1, <1>2, AddTaskIfAbsentKeepsInv
  <1>4. TypeOK'
    BY <1>1, <1>3, RestFacts DEF TypeOK, StoreInv, results, control, budget, history
  <1>5. main' = main /\ todo' = todo
    BY DEF control
  <1>6. CASE UNCHANGED store
    <2>1. SameRows /\ tasks' = tasks
      BY <1>1, <1>6, StoreSame
    <2>2. QED
      BY <1>3, <1>4, <1>5, <2>1, RestKeeps
  <1>7. CASE AddTask(role, NoGoal) /\ ~RoleEnqueued(role)
    <2>1. /\ ~Busy(w)' /\ pc'[w] \in {"idle", "exit"} /\ Alone(w)
      BY <1>1, <1>5, RestFacts DEF Alone
    <2>2. LoopOf(w)'
      BY <2>1 DEF LoopOf
    <2>3. main' # "seed"
      BY <1>1, <1>5 DEF NothingBeforeSeed, HoldsOwn
    <2>4. role \notin Detectors \ {Antares}
      BY <1>2
    <2>5. QED
      BY <1>2, <1>3, <1>4, <1>7, <2>1, <2>2, <2>3, <2>4, AddKeeps
  <1>8. QED
    BY <1>6, <1>7 DEF AddTaskIfAbsent

LEMMA NextStageKeeps ==
  ASSUME PipeInv, NEW w \in Agent, NextStage(w) \/ PassBarrier(w)
  PROVE  PipeInv'
  <1>1. CASE PassBarrier(w)
    BY <1>1, AddIfAbsentKeeps DEF PassBarrier, Busy
  <1>2. CASE NextStage(w)
    <2>1. /\ pc[w] = "advance" /\ RoleOf(w) \in {"indexer", "triager"} /\ Busy(w) /\ Rest(w)
          /\ UNCHANGED <<todo, results, cancelled, control, budget, history>>
      BY <1>2 DEF NextStage, Busy
    <2>2. PICK role \in {"cartographer", "reporter"} :
            /\ AddTaskIfAbsent(role, NoGoal)
            /\ role = "reporter" => RoleOf(w) = "triager"
      BY <1>2, <2>1 DEF NextStage
    <2>3. RoleOf(w) \in RolesOf(w)
      BY <2>1 DEF PipeInv, StageInv, HoldsOwn
    <2>4. role = "reporter" => w = "triager"
      BY <2>2, <2>3, Threads DEF Singletons, Detectors
    <2>5. QED
      BY <2>1, <2>2, <2>4, AddIfAbsentKeeps
  <1>3. QED
    BY <1>1, <1>2

\* The steps of advance_after that insert nothing.
LEMMA AdvanceKeeps ==
  ASSUME PipeInv, NEW w \in Agent, EnqueueDetectors(w) \/ CheckBarrier(w) \/ Close(w)
  PROVE  PipeInv'
  <1>1. TypeOK /\ StoreInv /\ HoldsOwn /\ SentinelFirst
    BY DEF PipeInv, StageInv
  <1>2. /\ pc[w] = "advance" /\ Busy(w)
        /\ UNCHANGED <<store, results, cancelled, control, budget, lost>>
    BY DEF EnqueueDetectors, CheckBarrier, Close, Busy, history
  <1>3. StoreInv' /\ SameRows /\ tasks' = tasks
    BY <1>1, <1>2, StoreSame
  <1>4. early' \in BOOLEAN
    <2>1. \/ early' = early
          \/ early' = (early \/ pc["cartographer"] = "enqueue" \/ ~Enqueued(SeedRows))
      BY DEF EnqueueDetectors, CheckBarrier, Close, history
    <2>2. early \in BOOLEAN
      BY <1>1 DEF TypeOK
    <2>3. QED
      BY <2>1, <2>2
  <1>5. CASE Rest(w) /\ UNCHANGED todo
    <2>1. TypeOK'
      BY <1>1, <1>2, <1>3, <1>4, <1>5, RestFacts
         DEF TypeOK, StoreInv, results, control, budget
    <2>2. QED
      BY <1>2, <1>3, <1>5, <2>1, RestKeeps DEF control
  <1>6. CASE Goto(w, "barrier") /\ UNCHANGED <<cur, todo>>
    <2>1. TypeOK'
      BY <1>1, <1>2, <1>3, <1>4, <1>6 DEF TypeOK, StoreInv, Goto, results, control, budget
    <2>2. LoopOf(w)'
      BY <1>1, <1>6 DEF LoopOf, Goto, TypeOK
    <2>3. QED
      BY <1>2, <1>6, <2>1, <2>2, MoveKeeps DEF control
  <1>7. CASE /\ EnqueueDetectors(w) /\ ~RoleEnqueued("detector.secrets")
             /\ Goto(w, "enqueue") /\ todo' = [todo EXCEPT ![w] = SeedRows] /\ UNCHANGED cur
    <2>1. /\ todo' \in [Agent -> Seq(Jobs)] /\ todo'[w] = SeedRows
          /\ \A v \in Agent : v # w => todo'[v] = todo[v]
      BY <1>1, <1>7, JobFacts DEF TypeOK
    <2>2. TypeOK'
      BY <1>1, <1>2, <1>3, <1>4, <1>7, <2>1
         DEF TypeOK, StoreInv, Goto, results, control, budget
    <2>3. w = "cartographer"
      <3>1. RoleOf(w) \in RolesOf(w) /\ RoleOf(w) = "cartographer"
        BY <1>1, <1>2, <1>7 DEF HoldsOwn, EnqueueDetectors
      <3>2. QED
        BY <3>1, Threads DEF Singletons, Detectors
    <2>4. \A i \in DOMAIN SeedRows : SeedRows[i].role \in Detectors
      BY JobFacts DEF Jobs, ItemsOf
    <2>5. \A r \in Detectors \ {Antares} : ~RoleEnqueued(r)
      BY <1>1, <1>7 DEF SentinelFirst, RoleEnqueued, Secrets
    <2>6. ToCome(SeedRows)
      BY <2>4, <2>5, SeedRowsFacts DEF ToCome
    <2>7. LoopOf(w)'
      <3>1. pc'[w] = "enqueue"
        BY <1>1, <1>7 DEF TypeOK, Goto
      <3>2. \A r : RoleEnqueued(r)' = RoleEnqueued(r)
        BY <1>3 DEF RoleEnqueued, SameRows
      <3>3. QED
        BY <2>1, <2>3, <2>6, <3>1, <3>2 DEF LoopOf, ToCome
    <2>8. QED
      BY <1>2, <1>7, <2>1, <2>2, <2>7, MoveKeeps DEF control
  <1>8. QED
    BY <1>5, <1>6, <1>7 DEF EnqueueDetectors, CheckBarrier, Close

----------------------------------------------------------------------------
(* The steps that are no worker's. *)

\* The workers stand still and closed tasks stay closed.
LEMMA StillKeeps ==
  ASSUME PipeInv, TypeOK', StoreInv', SameRows, UNCHANGED local,
         \A t \in Task : tasks[t].state = "closed" => tasks'[t].state = "closed",
         main' = "seed" => main = "seed"
  PROVE  PipeInv'
  <1>1. \A v \in Agent : pc'[v] = pc[v] /\ cur'[v] = cur[v] /\ todo'[v] = todo[v]
    BY DEF local
  <1>2. PICK w \in Agent : w = "triager"
    BY Threads DEF Singletons
  <1>3. Alone(w) /\ ReopensOwn(w)
    BY <1>1 DEF Alone, ReopensOwn
  <1>4. Arrives(w)
    BY <1>1 DEF Arrives, Busy, PipeInv, StageInv, HoldsOwn, RoleOf
  <1>5. \A r : RoleEnqueued(r)' = RoleEnqueued(r)
    BY DEF SameRows, RoleEnqueued
  <1>6. LoopOf(w)'
    BY <1>1, <1>5 DEF PipeInv, StageInv, LoopOf, ToCome
  <1>7. QED
    BY <1>3, <1>4, <1>6, StepKeeps

LEMMA BeatKeeps ==
  ASSUME PipeInv, NEW w \in Agent, Beat(w)
  PROVE  PipeInv'
  <1>1. StoreInv' /\ tasks' = tasks
    BY HeartbeatKeepsInv DEF PipeInv, Beat, Heartbeat
  <1>2. UNCHANGED <<local, results, cancelled, control, budget, history>>
    BY DEF Beat
  <1>3. TypeOK'
    BY <1>1, <1>2 DEF PipeInv, TypeOK, StoreInv, local, results, control, budget, history
  <1>4. QED
    BY <1>1, <1>2, <1>3, StillKeeps DEF SameRows, Task, control

LEMMA LapseKeeps ==
  ASSUME PipeInv, NEW c \in claims, Lapse(c)
  PROVE  PipeInv'
  <1> DEFINE old == [c EXCEPT !.fresh = FALSE]
  <1>1. old \in ClaimRow /\ old.task = c.task
    BY DEF PipeInv, TypeOK, StoreTypeOK, ClaimRow
  <1>2. /\ claims' = (claims \ {c}) \cup {old} /\ tasks' = tasks /\ Task' = Task
        /\ UNCHANGED <<local, results, cancelled, control, faults, deaths, history>>
    BY DEF Lapse, Task
  <1> HIDE DEF old
  <1>3. StoreTypeOK'
    BY <1>1, <1>2 DEF PipeInv, TypeOK, StoreTypeOK
  <1>4. ClaimedIffClaimRow'
    BY <1>1, <1>2 DEF PipeInv, StoreInv, ClaimedIffClaimRow, ClaimsOn
  <1>5. StoreInv'
    BY <1>2, <1>3, <1>4 DEF PipeInv, StoreInv, AttemptsFollowReleases, HandedOutThrice
  <1>6. lapses' \in 0..MaxLapses
    BY PipelineAssumption DEF PipelineAssumption, PipeInv, TypeOK, Lapse
  <1>7. TypeOK'
    BY <1>2, <1>3, <1>6 DEF PipeInv, TypeOK, local, results, control, history
  <1>8. QED
    BY <1>2, <1>5, <1>7, StillKeeps DEF SameRows, control

LEMMA ReapKeeps ==
  ASSUME PipeInv, Reap
  PROVE  PipeInv'
  <1>1. StoreInv /\ ReclaimStaleClaims
        /\ UNCHANGED <<local, results, cancelled, control, budget, history>>
    BY DEF PipeInv, Reap
  <1>2. StoreInv' /\ Task' = Task
    BY <1>1, ReclaimKeepsInv
  <1>3. ASSUME NEW t \in Task
        PROVE  /\ tasks'[t].role = tasks[t].role
               /\ tasks[t].state = "closed" => tasks'[t] = tasks[t]
    <2>1. tasks'[t] = IF \E c \in StaleClaims : c.task = t THEN Released(tasks[t]) ELSE tasks[t]
      BY <1>1 DEF ReclaimStaleClaims
    <2>2. Released(tasks[t]).role = tasks[t].role
      BY <1>1, RowChanges
    <2>3. \A c \in StaleClaims : tasks[c.task].state = "claimed"
      BY DEF StaleClaims
    <2>4. QED
      BY <2>1, <2>2, <2>3
  <1>4. TypeOK'
    BY <1>1, <1>2 DEF PipeInv, TypeOK, StoreInv, local, results, control, budget, history
  <1>5. QED
    BY <1>1, <1>2, <1>3, <1>4, StillKeeps DEF SameRows, control

LEMMA MainKeeps ==
  ASSUME PipeInv, Stop \/ MainCancelled \/ MainRead \/ MainFail \/ MainClose
                  \/ UNCHANGED vars
  PROVE  PipeInv'
  <1>1. TypeOK /\ StoreInv
    BY DEF PipeInv
  <1>2. UNCHANGED <<store, local, results, deaths, lapses, history>>
    BY DEF Stop, MainCancelled, MainRead, MainFail, MainClose, vars, budget
  <1>3. StoreInv' /\ SameRows /\ tasks' = tasks
    BY <1>1, <1>2, StoreSame
  <1>4. /\ main' \in {"seed", "poll", "stopping", "closed"}
        /\ main' = "seed" => main = "seed"
        /\ cancelled' \in BOOLEAN
        /\ outcome' \in {"none", "done", "blocked", "cancelled", "error"}
        /\ runState' \in {"open", "cancelled"}
    BY <1>1 DEF TypeOK, Stop, MainCancelled, MainRead, MainFail, MainClose, vars, control,
                RunTerminalTaskState
  <1>5. faults' \in 0..MaxFaults
    BY <1>1, PipelineAssumption
       DEF PipelineAssumption, TypeOK, Stop, MainCancelled, MainRead, MainFail, MainClose,
           vars, budget
  <1>6. TypeOK'
    BY <1>1, <1>2, <1>3, <1>4, <1>5 DEF TypeOK, StoreInv, local, results, history
  <1>7. QED
    BY <1>2, <1>3, <1>4, <1>6, StillKeeps

LEMMA SeedKeeps ==
  ASSUME PipeInv, Seed
  PROVE  PipeInv'
  <1>1. /\ AddTask("indexer", NoGoal) /\ main = "seed" /\ main' = "poll"
        /\ UNCHANGED <<local, results, cancelled, outcome, runState, budget, history>>
    BY DEF Seed
  <1>2. TypeOK /\ StoreInv /\ Task = {} /\ HoldsOwn
    BY <1>1 DEF PipeInv, StageInv, NothingBeforeSeed
  <1>3. "indexer" \in Role \ Detectors /\ NoGoal \in Payload
    BY Threads, PipelineAssumption DEF PipelineAssumption, Singletons
  <1>4. StoreInv'
    BY <1>1, <1>2, <1>3, AddTaskKeepsInv
  <1>5. TypeOK'
    BY <1>1, <1>2, <1>4 DEF TypeOK, StoreInv, local, results, budget, history
  <1>6. PICK w \in Agent : w = "indexer"
    BY Threads DEF Singletons
  <1>7. Alone(w) /\ ~Busy(w) /\ ~Busy(w)'
    BY <1>1, <1>2 DEF Alone, HoldsOwn, Busy, local
  <1>8. LoopOf(w)'
    BY <1>7 DEF LoopOf, Busy
  <1>9. ~RoleEnqueued("indexer")
    BY <1>2 DEF RoleEnqueued
  <1>10. QED
    BY <1>1, <1>3, <1>4, <1>5, <1>7, <1>8, <1>9, AddKeeps

----------------------------------------------------------------------------
(* Theorems. *)

LEMMA InitPipeInv == Init => PipeInv
  <1> SUFFICES ASSUME Init PROVE PipeInv
    OBVIOUS
  <1>1. tasks = << >> /\ claims = {} /\ Task = {}
    BY DEF Init, StoreInit, Task
  <1>2. TypeOK
    <2>1. StoreTypeOK
      BY <1>1 DEF StoreTypeOK
    <2>2. /\ pc \in [Agent -> {"idle", "start", "run", "goals", "complete", "advance",
                               "enqueue", "barrier", "exit", "dead"}]
          /\ cur \in [Agent -> [task : Nat, attempt : Nat]]
          /\ todo \in [Agent -> Seq(Jobs)]
          /\ finding \in [Jobs -> {"none", "candidate", "judged"}]
      BY DEF Init, NoTask
    <2>3. faults \in 0..MaxFaults /\ deaths \in 0..MaxDeaths /\ lapses \in 0..MaxLapses
      BY PipelineAssumption DEF PipelineAssumption, Init
    <2>4. /\ snapshot \subseteq Jobs /\ reported \subseteq Jobs
          /\ {cancelled, early, lost} \subseteq BOOLEAN
          /\ main \in {"seed", "poll", "stopping", "closed"}
          /\ outcome \in {"none", "done", "blocked", "cancelled", "error"}
          /\ runState \in {"open", "cancelled"}
      BY DEF Init
    <2>5. QED
      BY <2>1, <2>2, <2>3, <2>4 DEF TypeOK
  <1>3. StoreInv
    BY <1>1, <1>2 DEF TypeOK, StoreInv, ClaimedIffClaimRow, AttemptsFollowReleases,
                      HandedOutThrice
  <1>4. \A w \in Agent : pc[w] = "idle"
    BY DEF Init
  <1>5. HoldsOwn /\ (\A w \in Agent : LoopOf(w)) /\ pc["triager"] = "idle"
    BY <1>4, Threads DEF HoldsOwn, Busy, LoopOf, Singletons
  <1>6. NothingBeforeSeed /\ OneRow /\ SentinelFirst /\ TriageInv
    BY <1>1, <1>5 DEF NothingBeforeSeed, OneRow, SentinelFirst, TriageInv, RoleEnqueued
  <1>7. QED
    BY <1>2, <1>3, <1>5, <1>6 DEF PipeInv, StageInv

LEMMA NextPipeInv == PipeInv /\ [Next]_vars => PipeInv'
  <1> SUFFICES ASSUME PipeInv, [Next]_vars PROVE PipeInv'
    OBVIOUS
  <1>1. ASSUME NEW w \in Agent, WorkerStep(w) \/ LateClaim(w) \/ Die(w) \/ Fail(w) \/ Beat(w)
        PROVE  PipeInv'
    BY <1>1, TakeTaskKeeps, CancelledKeeps, FailKeeps, DieKeeps, HandleKeeps, CompleteKeeps,
       AddNextKeeps, NextStageKeeps, AdvanceKeeps, BeatKeeps
       DEF WorkerStep, Claim, LateClaim
  <1>2. ASSUME NEW c \in claims, Lapse(c) PROVE PipeInv'
    BY <1>2, LapseKeeps
  <1>3. QED
    BY <1>1, <1>2, ReapKeeps, MainKeeps, SeedKeeps DEF Next, MainStep

\* The inductive invariant: the types, the store's own invariant, what each
\* worker holds and has yet to insert, and where the triager is.
THEOREM PipelineInvariant == Spec => []PipeInv
  BY InitPipeInv, NextPipeInv, PTL DEF Spec

\* Every variable of a scan keeps its type.
THEOREM PipelineTypes == Spec => []TypeOK
  <1>1. PipeInv => TypeOK
    BY DEF PipeInv
  <1>2. QED
    BY <1>1, PipelineInvariant, PTL

\* A set whose elements are all equal has at most one.
LEMMA AtMostOne ==
  ASSUME NEW S, \A x, y \in S : x = y
  PROVE  Cardinality(S) <= 1
  <1>1. CASE S = {}
    BY <1>1, FS_EmptySet
  <1>2. CASE S # {}
    <2>1. PICK x \in S : S = {x}
      BY <1>2
    <2>2. QED
      BY <2>1, FS_Singleton
  <1>3. QED
    BY <1>1, <1>2

\* Whatever is retried, reclaimed or overtaken, no stage but Antares gets a
\* second row: for any number of detector threads, goals and failures.
THEOREM StagesOnce == Spec => []OneRowPerStage
  <1>1. PipeInv => OneRowPerStage
    <2> SUFFICES ASSUME PipeInv, NEW role \in Role \ {Antares}
                 PROVE  Cardinality(RowsOf(role)) <= 1
      BY DEF OneRowPerStage, Antares
    <2>1. \A t, u \in RowsOf(role) : t = u
      BY DEF PipeInv, StageInv, OneRow, RowsOf
    <2>2. QED
      BY <2>1, AtMostOne
  <1>2. QED
    BY <1>1, PipelineInvariant, PTL

\* When there is a reporter the one triager is through, and nothing opens its
\* task again: not the reaper, not a release, not a second enqueue.
THEOREM ReporterAfterTriage == Spec => []ReportAfterTriage
  <1>1. PipeInv => ReportAfterTriage
    BY DEF PipeInv, StageInv, TriageInv, TriagerDone, ReportAfterTriage, RoleEnqueued, RowsOf
  <1>2. QED
    BY <1>1, PipelineInvariant, PTL
=============================================================================
