SPECIFICATION Spec
CONSTANTS
  rules = rules
  sca = sca
  antares = antares
  llm = llm
  secret = secret
  hunch = hunch
  dep1 = dep1
  dep2 = dep2
  spot = spot
  down = down
  cve1 = cve1
  cve2 = cve2
  cwe = cwe
  w1 = w1
  w2 = w2
  r1 = r1
  r2 = r2
  NoRule = NoRule
  Fingerprint <- MCFingerprint
  ClassOf <- MCClassOf
  Rule = {NoRule, cve1, cve2, cwe}
  Job = {rules, sca, antares, llm}
  Enqueued <- MCEnqueued
  Goal = {rules, sca, antares, llm}
  KindOf <- MCKindOf
  Reporting = {sca}
  HitsOf <- MCSameDependency
  GoalOf <- MCGoalOf
  DownOf <- MCDownOf
  InDocs = {dep1}
  Unbumped = {dep2}
  Unseen = {}
  Worker = {w1, w2}
  Request = {}
  ScaCap = 2
  MaxTroubles = 0
INVARIANT
  EveryAdvisoryHasGoal
CHECK_DEADLOCK FALSE
