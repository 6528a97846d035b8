---------------------------- MODULE JobLifecycle ----------------------------
(***************************************************************************)
(* What core/jobs promises about a durable job row, whoever calls it and   *)
(* in whatever order: a row is created once, it is claimed at most once    *)
(* and only while it is queued, and it settles at most once.               *)
(*                                                                         *)
(* The statuses are those of JOB_STATUSES; a row that does not exist yet   *)
(* is "absent".  claimed[j] is the set of calls whose claim of j won.      *)
(***************************************************************************)
CONSTANTS Jobs,      \* ids of job rows
          Callers    \* calls into core/jobs that may claim a row

VARIABLES status,    \* status[j] of the row of job j
          claimed    \* claimed[j], the calls that moved j from queued to running

vars == <<status, claimed>>

Terminal == {"succeeded", "failed", "cancelled"}
JobStatus == {"queued", "running"} \cup Terminal
-----------------------------------------------------------------------------
TypeOK ==
    /\ status \in [Jobs -> JobStatus \cup {"absent"}]
    /\ claimed \in [Jobs -> SUBSET Callers]

Init ==
    /\ status = [j \in Jobs |-> "absent"]
    /\ claimed = [j \in Jobs |-> {}]

Create(j) ==
    /\ status[j] = "absent"
    /\ \E s \in JobStatus : status' = [status EXCEPT ![j] = s]
    /\ UNCHANGED claimed

Claim(j, c) ==
    /\ status[j] = "queued"
    /\ status' = [status EXCEPT ![j] = "running"]
    /\ claimed' = [claimed EXCEPT ![j] = {c}]

Settle(j) ==
    /\ status[j] \in {"queued", "running"}
    /\ \E s \in Terminal : status' = [status EXCEPT ![j] = s]
    /\ UNCHANGED claimed

Next ==
    \E j \in Jobs :
        \/ Create(j)
        \/ \E c \in Callers : Claim(j, c)
        \/ Settle(j)

Spec == Init /\ [][Next]_vars
=============================================================================
