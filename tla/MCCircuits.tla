---------------------------- MODULE MCCircuits ----------------------------
(* One feature: a check, a breaker on it, and the rollup of both. *)
EXTENDS Circuits, TLC

CONSTANTS check, leaf, rollup, cron, r1, r2

RequestSymmetry == Permutations({r1, r2})

LeafWatches == leaf :> {check}
LeafDependsOn == leaf :> {}
LeafMode == leaf :> "all"
LeafDeclared == leaf :> "on"
LeafManifest == <<check, leaf>>

FeatureWatches == leaf :> {check} @@ rollup :> {check}
FeatureDependsOn == leaf :> {} @@ rollup :> {leaf}
FeatureMode == leaf :> "all" @@ rollup :> "any"
FeatureDeclared == leaf :> "on" @@ rollup :> "on"
FeatureManifest == <<check, leaf, rollup>>
=============================================================================
