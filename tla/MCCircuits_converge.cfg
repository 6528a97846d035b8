SPECIFICATION FairSpec
CONSTANTS
  check = check
  leaf = leaf
  rollup = rollup
  cron = cron
  r1 = r1
  r2 = r2
  Checks = {check}
  Breakers = {leaf, rollup}
  Callers = {cron, r1}
  Scheduler = cron
  Watches <- FeatureWatches
  DependsOn <- FeatureDependsOn
  Mode <- FeatureMode
  SelfHeals = {leaf, rollup}
  Declared <- FeatureDeclared
  Manifest <- FeatureManifest
  Calls = {"refresh", "cli", "models"}
  Measurable = {"green", "red"}
  HumanStates = {"tripped"}
  Faults = {"store", "crash"}
PROPERTIES Converges
