-------------------------------- MODULE Jobs --------------------------------
(***************************************************************************)
(* The durable job lifecycle of src/core/jobs: every call that creates,    *)
(* dispatches, executes, cancels or updates a job, one D1 statement at a   *)
(* time, with any number of calls interleaved between two statements.      *)
(*                                                                         *)
(* A caller is one invocation (a request, a Workflow step, a queue         *)
(* consumer) that makes one call.  call[c] is its activation record:       *)
(*   op     the exported function it runs,                                 *)
(*   job    the job id,                                                    *)
(*   pc     the statement it executes next,                                *)
(*   patch  the update in progress ("create", "claim", "progress", or the  *)
(*          terminal status the patch asks for),                           *)
(*   seen   the status of the last row it read, "null" for no row.         *)
(* The calls share the core_jobs row (status), the core_job_events rows    *)
(* (recorded) and the Workflow engine (instances).                         *)
(***************************************************************************)
CONSTANTS Jobs,             \* ids of job rows
          Callers,          \* invocations, each makes one call
          InitialStatuses,  \* the values of definition.status in use
          DirectPatches,    \* updates features make without executeJob
          Faults            \* what may go wrong: a subset of FaultKinds

Terminal == {"succeeded", "failed", "cancelled"}
JobStatus == {"queued", "running"} \cup Terminal

Executors == {"execute", "run"}
Ops == Executors \cup {"dispatch", "cancel", "direct"}
Patches == {"create", "claim", "progress"} \cup Terminal
EventTypes == {"created", "progress"} \cup JobStatus

\* "store": a D1 statement rejects; "publish": a feature's event handler throws;
\* "create": workflow.create rejects; "callback": the executor throws;
\* "crash": the invocation is evicted.
FaultKinds == {"store", "publish", "create", "callback", "crash"}

ASSUME JobsAssumption ==
    /\ InitialStatuses \subseteq JobStatus
    /\ DirectPatches \subseteq Patches \ {"create"}
    /\ Faults \subseteq FaultKinds

VARIABLES status,     \* core_jobs.status
          recorded,   \* types of the core_job_events rows
          instances,  \* jobs a Workflow instance exists for
          call,       \* activation records
          claimed,    \* history: the calls whose claim won
          due         \* history: the event types the committed changes call for

rows == <<status, claimed, due>>
vars == <<status, recorded, instances, call, claimed, due>>

PCs == {"idle", "insert", "owned", "claim", "read", "write", "reread", "publish",
        "returned", "threw", "launch", "callback", "resolved", "rejected", "crashed"}

CallRecord == [op : Ops, job : Jobs, pc : PCs, patch : Patches,
               seen : JobStatus \cup {"null"}]

TypeOK ==
    /\ status \in [Jobs -> JobStatus \cup {"absent"}]
    /\ recorded \in [Jobs -> SUBSET EventTypes]
    /\ instances \subseteq Jobs
    /\ call \in [Callers -> CallRecord]
    /\ claimed \in [Jobs -> SUBSET Callers]
    /\ due \in [Jobs -> SUBSET EventTypes]

Init ==
    /\ status = [j \in Jobs |-> "absent"]
    /\ recorded = [j \in Jobs |-> {}]
    /\ instances = {}
    /\ \E j \in Jobs :
         call = [c \in Callers |-> [op |-> "direct", job |-> j, pc |-> "idle",
                                    patch |-> "create", seen |-> "null"]]
    /\ claimed = [j \in Jobs |-> {}]
    /\ due = [j \in Jobs |-> {}]
-----------------------------------------------------------------------------
(* Activation records *)

At(c, pc) == call[c].pc = pc
Row(c) == status[call[c].job]

Ended == {"resolved", "rejected", "crashed"}

\* A call that ended forgets the row it read.
Goto(c, pc) ==
    call' = [call EXCEPT ![c].pc = pc,
                         ![c].seen = IF pc \in Ended THEN "null" ELSE @]
GotoSeeing(c, pc, s) == call' = [call EXCEPT ![c].pc = pc, ![c].seen = s]
Update(c, patch) == call' = [call EXCEPT ![c].pc = "read", ![c].patch = patch]

Start(c, op, j, pc, patch) ==
    /\ At(c, "idle")
    /\ call' = [call EXCEPT ![c] = [op |-> op, job |-> j, pc |-> pc,
                                    patch |-> patch, seen |-> "null"]]
    /\ UNCHANGED <<rows, recorded, instances>>

\* The awaited statement or function of c resumed in state pc; nothing shared changed.
Local(c, from, pc) == /\ At(c, from)
                      /\ Goto(c, pc)
                      /\ UNCHANGED <<rows, recorded, instances>>
-----------------------------------------------------------------------------
(* The exported calls *)

BeginDispatch(c, j) == Start(c, "dispatch", j, "insert", "create")

BeginRun(c, j) == Start(c, "run", j, "insert", "create")

\* The Workflow engine runs the instance's step, and runs it again when it retries.
BeginExecute(c, j) == /\ j \in instances
                      /\ Start(c, "execute", j, "claim", "claim")

\* POST /api/jobs/:id/cancel by the owner or an administrator.
BeginCancel(c, j) == Start(c, "cancel", j, "owned", "cancelled")

\* startJob, updateJobProgress, completeJob or failJob called on their own.
BeginDirect(c, j) ==
    \E p \in DirectPatches :
        Start(c, "direct", j, IF p = "claim" THEN "claim" ELSE "read", p)
-----------------------------------------------------------------------------
(* Statements of core/jobs/d1.ts *)

\* INSERT INTO core_jobs, and the SELECT that loads the created row.  The primary key
\* refuses a second row.
Insert(c) ==
    /\ At(c, "insert")
    /\ \/ /\ Row(c) = "absent"
          /\ \E s \in InitialStatuses :
               /\ status' = [status EXCEPT ![call[c].job] = s]
               /\ GotoSeeing(c, "publish", s)
          /\ due' = [due EXCEPT ![call[c].job] = @ \cup {"created"}]
          /\ UNCHANGED <<claimed, recorded, instances>>
       \/ /\ Row(c) # "absent"
          /\ Goto(c, "threw")
          /\ UNCHANGED <<rows, recorded, instances>>

ClaimAnyRow(c) ==
    /\ At(c, "claim")
    /\ status' = [status EXCEPT ![call[c].job] = "running"]
    /\ claimed' = [claimed EXCEPT ![call[c].job] = @ \cup {c}]
    /\ due' = [due EXCEPT ![call[c].job] = @ \cup {"running"}]
    /\ Goto(c, "reread")
    /\ UNCHANGED <<recorded, instances>>

\* UPDATE core_jobs SET status='running' WHERE id=? AND status='queued'.
Claim(c) ==
    /\ At(c, "claim")
    /\ \/ /\ Row(c) = "queued"
          /\ status' = [status EXCEPT ![call[c].job] = "running"]
          /\ claimed' = [claimed EXCEPT ![call[c].job] = @ \cup {c}]
          /\ due' = [due EXCEPT ![call[c].job] = @ \cup {"running"}]
          /\ Goto(c, "reread")
       \/ /\ Row(c) # "queued"
          /\ GotoSeeing(c, "returned", "null")
          /\ UNCHANGED rows
    /\ UNCHANGED <<recorded, instances>>

\* updateJobRow answers the row it was given, without a statement.
KeepsRowIgnoringPatch(s, patch) == s \in Terminal \/ s # "running"

KeepsRow(s, patch) ==
    \/ s \in Terminal
    \/ patch = "progress" /\ s # "running"

\* updateJob: the SELECT, and what updateJobRow decides from it.
Read(c) ==
    /\ At(c, "read")
    /\ \/ /\ Row(c) = "absent"
          /\ GotoSeeing(c, "returned", "null")
       \/ /\ Row(c) # "absent"
          /\ KeepsRow(Row(c), call[c].patch)
          /\ GotoSeeing(c, "publish", Row(c))
       \/ /\ Row(c) # "absent"
          /\ ~KeepsRow(Row(c), call[c].patch)
          /\ GotoSeeing(c, "write", Row(c))
    /\ UNCHANGED <<rows, recorded, instances>>

Written(c) == IF call[c].patch = "progress" THEN call[c].seen ELSE call[c].patch

WriteUnconditionally(c) ==
    /\ At(c, "write")
    /\ status' = [status EXCEPT ![call[c].job] = Written(c)]
    /\ due' = [due EXCEPT ![call[c].job] = @ \cup {call[c].patch}]
    /\ Goto(c, "reread")
    /\ UNCHANGED <<claimed, recorded, instances>>

\* UPDATE core_jobs SET ... WHERE status IN (seen) AND id = ?.
Write(c) ==
    /\ At(c, "write")
    /\ \/ /\ Row(c) = call[c].seen
          /\ status' = [status EXCEPT ![call[c].job] = Written(c)]
          /\ due' = [due EXCEPT ![call[c].job] = @ \cup {call[c].patch}]
          /\ Goto(c, "reread")
          /\ UNCHANGED claimed
       \/ /\ Row(c) # call[c].seen
          /\ GotoSeeing(c, "returned", "null")
          /\ UNCHANGED rows
    /\ UNCHANGED <<recorded, instances>>

\* The SELECT after a committed UPDATE; other calls may have moved the row meanwhile.
Reread(c) ==
    /\ At(c, "reread")
    /\ GotoSeeing(c, "publish", Row(c))
    /\ UNCHANGED <<rows, recorded, instances>>

EventTypeFromPatch(k) == k.patch

EventTypeFromRow(k) ==
    IF k.patch = "create" THEN "created"
    ELSE IF k.patch = "progress" THEN "progress"
    ELSE k.seen

\* createJob and startJob name the event; updateJob derives it from the row it got back.
EventType(k) ==
    IF k.patch = "create" THEN "created"
    ELSE IF k.patch = "claim" THEN "running"
    ELSE IF k.patch = "progress" THEN "progress"
    ELSE k.seen

\* publishJobEvent: INSERT INTO core_job_events, then the event handlers.
Publish(c) ==
    /\ At(c, "publish")
    /\ recorded' = [recorded EXCEPT ![call[c].job] = @ \cup {EventType(call[c])}]
    /\ \/ Goto(c, "returned")
       \/ "publish" \in Faults /\ Goto(c, "threw")
    /\ UNCHANGED <<rows, instances>>
-----------------------------------------------------------------------------
(* What each call does with the row or the error it got *)

Is(c, ops, patches) == call[c].op \in ops /\ call[c].patch \in patches

\* dispatchJob: the row exists, start the Workflow.
DispatchCreated(c) == Is(c, {"dispatch"}, {"create"}) /\ Local(c, "returned", "launch")

Launch(c) ==
    /\ Is(c, {"dispatch"}, {"create"})
    /\ At(c, "launch")
    /\ instances' = instances \cup {call[c].job}
    /\ Goto(c, "resolved")
    /\ UNCHANGED <<rows, recorded>>

\* workflow.create rejects, whether or not the instance was created: failJob.
LaunchFails(c) ==
    /\ "create" \in Faults
    /\ Is(c, {"dispatch"}, {"create"})
    /\ At(c, "launch")
    /\ instances' \in {instances, instances \cup {call[c].job}}
    /\ Update(c, "failed")
    /\ UNCHANGED <<rows, recorded>>

\* runJob: executeJob follows createJob in the same invocation.
RunCreated(c) ==
    /\ Is(c, {"run"}, {"create"})
    /\ At(c, "returned")
    /\ call' = [call EXCEPT ![c].pc = "claim", ![c].patch = "claim"]
    /\ UNCHANGED <<rows, recorded, instances>>

\* executeJob: no row was claimed, "Unknown job".
ClaimLost(c) ==
    /\ Is(c, Executors, {"claim"})
    /\ call[c].seen = "null"
    /\ Local(c, "returned", "rejected")

EnterCallback(c) ==
    \/ /\ Is(c, Executors, {"claim"})
       /\ call[c].seen # "null"
       /\ Local(c, "returned", "callback")
    \/ /\ Is(c, Executors, {"progress"})
       /\ Local(c, "returned", "callback")

\* The callback awaits report(progress), as often as it likes.
Report(c) ==
    /\ At(c, "callback")
    /\ Update(c, "progress")
    /\ UNCHANGED <<rows, recorded, instances>>

\* The callback returned a value: completeJob.
CallbackReturns(c) ==
    /\ At(c, "callback")
    /\ Update(c, "succeeded")
    /\ UNCHANGED <<rows, recorded, instances>>

ThrowsUncaught(c) ==
    /\ "callback" \in Faults
    /\ Local(c, "callback", "rejected")

\* The callback (or toJobResult) threw: failJob.
CallbackThrows(c) ==
    /\ "callback" \in Faults
    /\ At(c, "callback")
    /\ Update(c, "failed")
    /\ UNCHANGED <<rows, recorded, instances>>

TrustsAnyRow(c) ==
    /\ Is(c, Executors, {"succeeded"})
    /\ call[c].seen # "null"
    /\ Local(c, "returned", "resolved")

\* completeJob answered a succeeded row.
ExecutionSucceeds(c) ==
    /\ Is(c, Executors, {"succeeded"})
    /\ call[c].seen = "succeeded"
    /\ Local(c, "returned", "resolved")

\* completeJob answered null or another status: "no longer running", and failJob.
ExecutionLost(c) ==
    /\ Is(c, Executors, {"succeeded"})
    /\ call[c].seen # "succeeded"
    /\ At(c, "returned")
    /\ Update(c, "failed")
    /\ UNCHANGED <<rows, recorded, instances>>

SkipsFailJob(c) ==
    /\ Is(c, Executors, {"progress", "succeeded"})
    /\ Local(c, "threw", "rejected")

\* The catch of executeJob: a report or completeJob threw after the claim.
ExecutionThrows(c) ==
    /\ Is(c, Executors, {"progress", "succeeded"})
    /\ At(c, "threw")
    /\ Update(c, "failed")
    /\ UNCHANGED <<rows, recorded, instances>>

\* failJob has run; executeJob and dispatchJob rethrow the first error.
Rethrow(c) ==
    /\ Is(c, Executors \cup {"dispatch"}, {"failed"})
    /\ Local(c, "returned", "rejected")

\* An error nobody catches.
Reject(c) ==
    /\ ~Is(c, Executors, {"progress", "succeeded"})
    /\ Local(c, "threw", "rejected")

\* A direct call, or the answer of the cancel route, returns what updateJob returned.
Answer(c) ==
    /\ call[c].op \in {"direct", "cancel"}
    /\ Local(c, "returned", "resolved")

\* The cancel route: 404 without a row, 409 when the row is terminal, else cancelJob.
CancelOwned(c) ==
    /\ At(c, "owned")
    /\ \/ Row(c) \in {"queued", "running"} /\ Goto(c, "read")
       \/ Row(c) \notin {"queued", "running"} /\ Goto(c, "rejected")
    /\ UNCHANGED <<rows, recorded, instances>>
-----------------------------------------------------------------------------
(* Faults outside the calls *)

Statements == {"insert", "owned", "claim", "read", "write", "reread", "publish"}

\* A D1 statement rejects.  A statement that committed and whose answer was lost is the
\* committed statement followed by the rejection of the SELECT after it.
StoreFails(c) ==
    /\ "store" \in Faults
    /\ call[c].pc \in Statements
    /\ Goto(c, "threw")
    /\ UNCHANGED <<rows, recorded, instances>>

Crash(c) ==
    /\ "crash" \in Faults
    /\ call[c].pc \notin Ended \cup {"idle"}
    /\ Goto(c, "crashed")
    /\ UNCHANGED <<rows, recorded, instances>>

Begin(c, j) ==
    \/ BeginDispatch(c, j)
    \/ BeginRun(c, j)
    \/ BeginExecute(c, j)
    \/ BeginCancel(c, j)
    \/ BeginDirect(c, j)

Statement(c) ==
    \/ Insert(c)
    \/ Claim(c)
    \/ Read(c)
    \/ Write(c)
    \/ Reread(c)
    \/ Publish(c)

Continue(c) ==
    \/ DispatchCreated(c)
    \/ Launch(c)
    \/ LaunchFails(c)
    \/ RunCreated(c)
    \/ ClaimLost(c)
    \/ EnterCallback(c)
    \/ Report(c)
    \/ CallbackReturns(c)
    \/ CallbackThrows(c)
    \/ ExecutionSucceeds(c)
    \/ ExecutionLost(c)
    \/ ExecutionThrows(c)
    \/ Rethrow(c)
    \/ Reject(c)
    \/ Answer(c)
    \/ CancelOwned(c)

Next ==
    \E c \in Callers :
        \/ \E j \in Jobs : Begin(c, j)
        \/ Statement(c)
        \/ Continue(c)
        \/ StoreFails(c)
        \/ Crash(c)

Spec == Init /\ [][Next]_vars

\* Statements are answered, promises resume, and the executor's callback ends, however
\* many reports it awaits.
FairSpec ==
    /\ Spec
    /\ \A c \in Callers : /\ WF_vars(Statement(c) \/ Continue(c))
                          /\ SF_vars(CallbackReturns(c) \/ CallbackThrows(c))
-----------------------------------------------------------------------------
(* Properties *)

Quiescent == \A c \in Callers : call[c].pc \in Ended \cup {"idle"}

\* A job is executed at most once, however often the Workflow engine delivers it and
\* however many calls race for it: claimJobRow's conditional UPDATE.
AtMostOneClaim ==
    \A j \in Jobs : \A a, b \in claimed[j] : a = b

\* A terminal status is final: neither a late completion, nor a stale progress report,
\* nor a second cancellation overwrites it (updateJobRow's check and its WHERE status).
TerminalIsFinal ==
    [][\A j \in Jobs : status[j] \in Terminal => status'[j] = status[j]]_vars

\* When executeJob resolves, the row says succeeded, and still does: a job cancelled or
\* failed while its callback ran never reports success to its caller.
ResolvedMeansSucceeded ==
    \A c \in Callers :
        At(c, "resolved") /\ call[c].op \in Executors => Row(c) = "succeeded"

Entered(c) ==
    /\ call[c].op \in Executors
    /\ At(c, "callback") \/ call[c].patch \notin {"create", "claim"}

\* An execution that entered its callback leaves a settled row behind, whatever threw:
\* the callback, a report, completeJob or an event handler, as long as D1 answers and
\* the invocation survives.
ExecutionSettles ==
    \A c \in Callers :
        Entered(c) /\ call[c].pc \in {"resolved", "rejected"} => Row(c) \in Terminal

\* A dispatch that failed to start its Workflow never leaves the row queued, even when
\* the Workflow was started after all and the execution raced with failJob.
DispatchFailureRecorded ==
    \A c \in Callers :
        /\ At(c, "rejected")
        /\ Is(c, {"dispatch"}, {"failed"})
        => Row(c) # "queued"

\* Once no call is in flight, every committed lifecycle change has its event row, also
\* when an event handler threw: the INSERT comes before the handlers.
LifecycleRecorded ==
    Quiescent => \A j \in Jobs : due[j] \subseteq recorded[j]

\* A job whose callback was entered is settled in the end: the execution completes or
\* fails it, or somebody cancels it first.
EnteredIsSettled ==
    \A c \in Callers : Entered(c) ~> Row(c) \in Terminal

\* A cancel request that was answered 200 cancelled the job or found it settled.
CancelTakesEffect ==
    \A c \in Callers :
        At(c, "resolved") /\ call[c].op = "cancel" => Row(c) \in Terminal

\* executeJob completes or fails every record it claimed.
ClaimIsCompletedOrFailed ==
    \A c \in Callers :
        /\ call[c].op \in Executors
        /\ call[c].pc \in {"resolved", "rejected"}
        /\ c \in claimed[call[c].job]
        => Row(c) \in Terminal

Lifecycle == INSTANCE JobLifecycle WITH Jobs <- Jobs, Callers <- Callers, status <- status, claimed <- claimed

\* The statement-level calls implement the lifecycle they promise.
ImplementsLifecycle == Lifecycle!Spec
=============================================================================
