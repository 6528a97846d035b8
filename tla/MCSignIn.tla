------------------------------ MODULE MCSignIn ------------------------------
(* One browser with two tabs, and a provider with two keys. *)
EXTENDS SignIn
=============================================================================
