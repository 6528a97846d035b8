-------------------------- MODULE MCAuthorization --------------------------
(* Instances of Authorization for TLC: one user, a group, two tenants.     *)
EXTENDS Authorization, TLC

CONSTANTS u1, g1, t0, t1, s1, b1, c1, c2

AllOrNothing == {Nothing, [groups |-> {g1}, tenants |-> {t1}, scopes |-> {s1}]}
TenantsOrRest == {{"tenants"}, {"groups", "scopes"}}
CallerSymmetry == Permutations({c1, c2})
=============================================================================
