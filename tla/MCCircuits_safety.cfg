SPECIFICATION Spec
SYMMETRY RequestSymmetry
CONSTANTS
  check = check
  leaf = leaf
  rollup = rollup
  cron = cron
  r1 = r1
  r2 = r2
  Checks = {check}
  Breakers = {leaf}
  Callers = {cron, r1, r2}
  Scheduler = cron
  Watches <- LeafWatches
  DependsOn <- LeafDependsOn
  Mode <- LeafMode
  SelfHeals = {}
  Declared <- LeafDeclared
  Manifest <- LeafManifest
  Calls = {"refresh", "ensure", "put", "set", "cli"}
  Measurable = {"green", "red"}
  HumanStates = {"off", "on", "tripped"}
  Faults = {"store", "crash"}
INVARIANTS TypeOK TripsAreCaused WarmMeansRegistered
PROPERTIES AutomationStaysInPolicy
