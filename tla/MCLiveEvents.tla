---------------------------- MODULE MCLiveEvents ----------------------------
(* One page; of its jobs one is watched by the page's detail hook. *)
EXTENDS LiveEvents
=============================================================================
