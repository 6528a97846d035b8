SPECIFICATION Spec
CONSTANTS
  check = check
  leaf = leaf
  rollup = rollup
  cron = cron
  r1 = r1
  r2 = r2
  Checks = {check}
  Breakers = {leaf}
  Callers = {cron, r1}
  Scheduler = cron
  Watches <- LeafWatches
  DependsOn <- LeafDependsOn
  Mode <- LeafMode
  SelfHeals = {}
  Declared <- LeafDeclared
  Manifest <- LeafManifest
  Calls = {"refresh", "set"}
  Measurable = {"green", "red"}
  HumanStates = {"off"}
  Faults = {}
PROPERTIES OffIsHuman
