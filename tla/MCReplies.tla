------------------------------ MODULE MCReplies ------------------------------
(* One job, one call that dispatches it, and two more. *)
EXTENDS Replies
=============================================================================
