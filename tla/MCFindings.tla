----------------------------- MODULE MCFindings -----------------------------
(***************************************************************************)
(* Small instances of Findings.                                            *)
(***************************************************************************)
EXTENDS Findings, TLC

CONSTANTS rules, sca, antares, llm, secret, hunch, dep1, dep2, spot, down,
          cve1, cve2, cwe, w1, w2, r1, r2

MCFingerprint == {secret, dep1, dep2, spot, hunch, down}

MCClassOf ==
  [f \in Fingerprint |->
     CASE f = secret -> "secret-exposure"
       [] f \in {dep1, dep2} -> "vulnerable-dependency"
       [] f = spot -> "antares-localization"
       [] f = hunch -> "codeguard-llm"
       [] f = down -> "tooling"]

MCKindOf == [j \in Job |-> CASE j = rules -> "rules" [] j = sca -> "sca"
                             [] j = antares -> "antares"
                             [] j = llm -> "llm"]

NewHit(f, severity, rule, kinds) ==
  [finding |-> f, severity |-> severity, rule |-> rule, state |-> "candidate",
   kinds |-> kinds, cited |-> TRUE]

Presence == <<"presence", "impact">>

MCHitsOf ==
  [j \in Job |->
     CASE j = rules -> <<NewHit(secret, "high", NoRule, Presence)>>
       [] j = sca -> <<NewHit(dep1, "high", cve1, Presence),
                       NewHit(dep2, "critical", cve2, Presence)>>
       [] j = antares -> <<NewHit(spot, "medium", cwe,
                                  <<"reachability", "impact", "trace">>)>>
       [] j = llm -> <<[NewHit(hunch, "medium", NoRule, Presence)
                         EXCEPT !.cited = FALSE]>>]

MCDownOf ==
  [j \in Job |-> [finding |-> down, severity |-> "info", rule |-> NoRule,
                  state |-> "recorded", kinds |-> << >>, cited |-> TRUE]]

\* Two advisories for one dependency: one fingerprint.
MCSameDependency ==
  [MCHitsOf EXCEPT ![sca] = <<NewHit(dep1, "high", cve1, Presence),
                              NewHit(dep1, "critical", cve2, Presence)>>]

\* A scan always has its rule and SCA detectors; leaving one of them out keeps
\* an instance small.
MCEnqueued == {{sca, rules}, {antares, llm}}

MCGoalOf == [j \in Job |-> j]

Symmetric == Permutations(Worker) \cup Permutations(Request)
=============================================================================
