---------------------------- MODULE MCMessaging ----------------------------
(* Instances of Messaging for TLC: one context of one tenant, two users.   *)
EXTENDS Messaging, TLC

CONSTANTS u1, u2, x1, c1, c2

Both == {{u1, u2}}
OneOrAll == {{u1}, {u1, u2}}
RequestSymmetry == Permutations({c1, c2})
Symmetry == RequestSymmetry \cup Permutations({u1, u2})
=============================================================================
