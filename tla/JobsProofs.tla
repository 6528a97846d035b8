----------------------------- MODULE JobsProofs -----------------------------
(***************************************************************************)
(* Proofs about Jobs for every set of jobs and calls, every subset of the  *)
(* faults and every initial status, and about Replies: its callbacks are   *)
(* callbacks as Jobs knows them, a job is worked on by one call at most,   *)
(* and what is recorded of a reply is what was sent.                       *)
(***************************************************************************)
EXTENDS Replies, TLAPS

UpdatePatches == {"progress"} \cup Terminal

\* A row somebody claimed has left the queue for good.
ClaimedLeftQueue ==
    \A j \in Jobs : claimed[j] # {} => status[j] \notin {"absent", "queued"}

\* An UPDATE is only prepared for a patch of the row that may change it.
UpdatesFit ==
    \A c \in Callers :
        /\ call[c].pc \in {"owned", "read", "write"} => call[c].patch \in UpdatePatches
        /\ call[c].pc = "write" =>
             /\ call[c].seen \in {"queued", "running"}
             /\ call[c].patch = "progress" => call[c].seen = "running"

\* A row that was updated is still there when it is read back, and events are only
\* published about rows.
RereadFindsRow ==
    \A c \in Callers : /\ At(c, "reread") => Row(c) # "absent"
                       /\ At(c, "publish") => call[c].seen # "null"

\* A terminal status that a call read is still the status of the row.
SeenIsFinal ==
    \A c \in Callers : call[c].seen \in Terminal => Row(c) = call[c].seen

\* The inductive invariant behind the safety properties of Jobs.
Safe ==
    /\ TypeOK
    /\ ClaimedLeftQueue
    /\ AtMostOneClaim
    /\ UpdatesFit
    /\ RereadFindsRow
    /\ SeenIsFinal
    /\ ResolvedMeansSucceeded

-----------------------------------------------------------------------------
LEMMA InitSafe == Init => Safe
<1> SUFFICES ASSUME Init PROVE Safe
    OBVIOUS
<1>1. TypeOK
    BY DEF Init, TypeOK, CallRecord, Ops, PCs, Patches
<1>2. ClaimedLeftQueue /\ AtMostOneClaim
    BY DEF Init, ClaimedLeftQueue, AtMostOneClaim
<1>3. UpdatesFit /\ RereadFindsRow /\ SeenIsFinal /\ ResolvedMeansSucceeded
    BY DEF Init, UpdatesFit, RereadFindsRow, SeenIsFinal, ResolvedMeansSucceeded, At, Terminal
<1> QED
    BY <1>1, <1>2, <1>3 DEF Safe

\* A step of c that touches no row keeps the invariant if its new record does.
LEMMA LocalStep ==
    ASSUME Safe, NEW c \in Callers, NEW k \in CallRecord,
           call' = [call EXCEPT ![c] = k],
           UNCHANGED <<status, claimed, due>>,
           recorded' \in [Jobs -> SUBSET EventTypes],
           instances' \subseteq Jobs,
           k.pc # "reread",
           k.pc = "publish" => k.seen # "null",
           k.pc \in {"owned", "read", "write"} => k.patch \in UpdatePatches,
           k.pc = "write" => /\ k.seen \in {"queued", "running"}
                             /\ k.patch = "progress" => k.seen = "running",
           k.seen \in Terminal => status[k.job] = k.seen,
           k.pc = "resolved" /\ k.op \in Executors => status[k.job] = "succeeded"
    PROVE  Safe'
<1>1. TypeOK'
    BY DEF Safe, TypeOK
<1>2. ClaimedLeftQueue' /\ AtMostOneClaim'
    BY DEF Safe, ClaimedLeftQueue, AtMostOneClaim
<1>3. UpdatesFit'
    BY DEF Safe, TypeOK, UpdatesFit
<1>4. SeenIsFinal'
    BY DEF Safe, TypeOK, SeenIsFinal, Row
<1>5. ResolvedMeansSucceeded'
    BY DEF Safe, TypeOK, ResolvedMeansSucceeded, Row, At
<1>6. RereadFindsRow'
    BY DEF Safe, TypeOK, RereadFindsRow, Row, At
<1> QED
    BY <1>1, <1>2, <1>3, <1>4, <1>5, <1>6 DEF Safe

\* Goto only moves the program counter, and forgets the row when the call ends.
LEMMA GotoRecord ==
    ASSUME TypeOK, NEW c \in Callers, NEW pc \in PCs, Goto(c, pc)
    PROVE  \E k \in CallRecord :
             /\ call' = [call EXCEPT ![c] = k]
             /\ k.pc = pc /\ k.op = call[c].op /\ k.job = call[c].job
             /\ k.patch = call[c].patch
             /\ k.seen = IF pc \in Ended THEN "null" ELSE call[c].seen
<1> DEFINE k == [call[c] EXCEPT !.pc = pc,
                               !.seen = IF pc \in Ended THEN "null" ELSE @]
<1>1. k \in CallRecord
    BY DEF TypeOK, CallRecord
<1>2. call' = [call EXCEPT ![c] = k]
    BY DEF Goto, TypeOK, CallRecord
<1> QED
    BY <1>1, <1>2 DEF CallRecord, TypeOK

LEMMA GotoSeeingRecord ==
    ASSUME TypeOK, NEW c \in Callers, NEW pc \in PCs, NEW s \in JobStatus \cup {"null"},
           GotoSeeing(c, pc, s)
    PROVE  \E k \in CallRecord :
             /\ call' = [call EXCEPT ![c] = k]
             /\ k.pc = pc /\ k.op = call[c].op /\ k.job = call[c].job
             /\ k.patch = call[c].patch /\ k.seen = s
<1> DEFINE k == [call[c] EXCEPT !.pc = pc, !.seen = s]
<1>1. k \in CallRecord
    BY DEF TypeOK, CallRecord
<1>2. call' = [call EXCEPT ![c] = k]
    BY DEF GotoSeeing, TypeOK, CallRecord
<1> QED
    BY <1>1, <1>2 DEF CallRecord, TypeOK

LEMMA UpdateRecord ==
    ASSUME TypeOK, NEW c \in Callers, NEW p \in Patches, Update(c, p)
    PROVE  \E k \in CallRecord :
             /\ call' = [call EXCEPT ![c] = k]
             /\ k.pc = "read" /\ k.op = call[c].op /\ k.job = call[c].job
             /\ k.patch = p /\ k.seen = call[c].seen
<1> DEFINE k == [call[c] EXCEPT !.pc = "read", !.patch = p]
<1>1. k \in CallRecord
    BY DEF TypeOK, CallRecord, PCs
<1>2. call' = [call EXCEPT ![c] = k]
    BY DEF Update, TypeOK, CallRecord
<1> QED
    BY <1>1, <1>2 DEF CallRecord, TypeOK

\* A call that moves on without reading or writing a row.
LEMMA GotoStep ==
    ASSUME Safe, NEW c \in Callers, NEW pc \in PCs \ {"write", "reread", "publish"}, Goto(c, pc),
           UNCHANGED <<status, claimed, due>>,
           recorded' \in [Jobs -> SUBSET EventTypes],
           instances' \subseteq Jobs,
           pc \in {"owned", "read"} => call[c].patch \in UpdatePatches,
           pc = "resolved" => call[c].op \notin Executors \/ Row(c) = "succeeded"
    PROVE  Safe'
<1>1. PICK k \in CallRecord :
        /\ call' = [call EXCEPT ![c] = k]
        /\ k.pc = pc /\ k.op = call[c].op /\ k.job = call[c].job
        /\ k.patch = call[c].patch
        /\ k.seen = IF pc \in Ended THEN "null" ELSE call[c].seen
    BY GotoRecord DEF Safe
<1>2. k.seen \in Terminal => status[k.job] = k.seen
    BY <1>1 DEF Safe, SeenIsFinal, Row, Terminal
<1> QED
    BY <1>1, <1>2, LocalStep DEF Row

\* A call that read its row (or found none).
LEMMA SeeingStep ==
    ASSUME Safe, NEW c \in Callers, NEW pc \in PCs \ {"owned", "read", "reread", "resolved"},
           NEW s \in JobStatus \cup {"null"}, GotoSeeing(c, pc, s),
           UNCHANGED <<status, claimed, due, recorded, instances>>,
           s \in Terminal => Row(c) = s,
           pc = "publish" => s # "null",
           pc = "write" => /\ call[c].patch \in UpdatePatches
                           /\ s \in {"queued", "running"}
                           /\ call[c].patch = "progress" => s = "running"
    PROVE  Safe'
<1>1. PICK k \in CallRecord :
        /\ call' = [call EXCEPT ![c] = k]
        /\ k.pc = pc /\ k.op = call[c].op /\ k.job = call[c].job
        /\ k.patch = call[c].patch /\ k.seen = s
    BY GotoSeeingRecord DEF Safe
<1>2. recorded' \in [Jobs -> SUBSET EventTypes] /\ instances' \subseteq Jobs
    BY DEF Safe, TypeOK
<1> QED
    BY <1>1, <1>2, LocalStep DEF Row

\* A call that starts an update.
LEMMA UpdateStep ==
    ASSUME Safe, NEW c \in Callers, NEW p \in UpdatePatches, Update(c, p),
           UNCHANGED <<status, claimed, due, recorded>>, instances' \subseteq Jobs
    PROVE  Safe'
<1>1. PICK k \in CallRecord :
        /\ call' = [call EXCEPT ![c] = k]
        /\ k.pc = "read" /\ k.op = call[c].op /\ k.job = call[c].job
        /\ k.patch = p /\ k.seen = call[c].seen
    BY UpdateRecord DEF Safe, UpdatePatches, Patches
<1>2. k.seen \in Terminal => status[k.job] = k.seen
    BY <1>1 DEF Safe, SeenIsFinal, Row
<1>3. recorded' \in [Jobs -> SUBSET EventTypes]
    BY DEF Safe, TypeOK
<1> QED
    BY <1>1, <1>2, <1>3, LocalStep

LEMMA StartStep ==
    ASSUME Safe, NEW c \in Callers, NEW op \in Ops, NEW j \in Jobs,
           NEW pc \in PCs \ {"write", "reread", "publish", "resolved"}, NEW p \in Patches,
           Start(c, op, j, pc, p),
           pc \in {"owned", "read"} => p \in UpdatePatches
    PROVE  Safe'
<1> DEFINE k == [op |-> op, job |-> j, pc |-> pc, patch |-> p, seen |-> "null"]
<1>1. k \in CallRecord /\ call' = [call EXCEPT ![c] = k]
    BY DEF Start, CallRecord
<1>2. UNCHANGED <<status, claimed, due, recorded, instances>>
    BY DEF Start, rows
<1>3. recorded' \in [Jobs -> SUBSET EventTypes] /\ instances' \subseteq Jobs
    BY <1>2 DEF Safe, TypeOK
<1>4. k.seen \notin Terminal
    BY DEF Terminal
<1> QED
    BY <1>1, <1>2, <1>3, <1>4, LocalStep

\* A committed INSERT or UPDATE: the row was not terminal, so nobody relied on it.
LEMMA RowChange ==
    ASSUME Safe, NEW c \in Callers, NEW k \in CallRecord, NEW s \in JobStatus,
           call' = [call EXCEPT ![c] = k],
           k.job = call[c].job, k.pc \in {"reread", "publish"},
           k.pc = "publish" => k.seen # "null",
           Row(c) \notin Terminal,
           status' = [status EXCEPT ![call[c].job] = s],
           claimed' \in [Jobs -> SUBSET Callers],
           due' \in [Jobs -> SUBSET EventTypes],
           UNCHANGED <<recorded, instances>>,
           ClaimedLeftQueue', AtMostOneClaim',
           k.seen \in Terminal => k.seen = s
    PROVE  Safe'
<1>1. TypeOK'
    BY DEF Safe, TypeOK
<1>2. UpdatesFit'
    BY DEF Safe, TypeOK, UpdatesFit
<1>3. SeenIsFinal'
    BY DEF Safe, TypeOK, SeenIsFinal, Row, CallRecord
<1>4. ResolvedMeansSucceeded'
    BY DEF Safe, TypeOK, ResolvedMeansSucceeded, Row, At, CallRecord, Terminal
<1>5. RereadFindsRow'
    BY DEF Safe, TypeOK, RereadFindsRow, Row, At, CallRecord, JobStatus, Terminal
<1> QED
    BY <1>1, <1>2, <1>3, <1>4, <1>5 DEF Safe
-----------------------------------------------------------------------------
LEMMA InsertSafe ==
    ASSUME Safe, NEW c \in Callers, Insert(c)
    PROVE  Safe'
<1>1. CASE Row(c) # "absent"
    <2>1. Goto(c, "threw") /\ UNCHANGED <<status, claimed, due, recorded, instances>>
        BY <1>1 DEF Insert, rows
    <2> QED
        BY <2>1, GotoStep DEF Safe, TypeOK, PCs
<1>2. CASE Row(c) = "absent"
    <2>1. PICK s \in JobStatus :
            /\ status' = [status EXCEPT ![call[c].job] = s]
            /\ GotoSeeing(c, "publish", s)
            /\ due' = [due EXCEPT ![call[c].job] = @ \cup {"created"}]
            /\ UNCHANGED <<claimed, recorded, instances>>
        BY <1>2, JobsAssumption DEF Insert
    <2>2. PICK k \in CallRecord :
            /\ call' = [call EXCEPT ![c] = k]
            /\ k.pc = "publish" /\ k.job = call[c].job /\ k.seen = s
        BY <2>1, GotoSeeingRecord DEF Safe, PCs
    <2>3. claimed[call[c].job] = {} /\ Row(c) \notin Terminal
        BY <1>2 DEF Safe, TypeOK, ClaimedLeftQueue, Row, CallRecord, Terminal
    <2>4. ClaimedLeftQueue' /\ AtMostOneClaim'
        BY <2>1, <2>3 DEF Safe, TypeOK, ClaimedLeftQueue, AtMostOneClaim
    <2>5. claimed' \in [Jobs -> SUBSET Callers] /\ due' \in [Jobs -> SUBSET EventTypes]
        BY <2>1 DEF Safe, TypeOK, EventTypes
    <2>6. s # "null"
        BY DEF JobStatus, Terminal
    <2> QED
        BY <2>6, <2>1, <2>2, <2>3, <2>4, <2>5, RowChange
<1> QED
    BY <1>1, <1>2

LEMMA ClaimSafe ==
    ASSUME Safe, NEW c \in Callers, Claim(c)
    PROVE  Safe'
<1>1. CASE Row(c) # "queued"
    <2>1. GotoSeeing(c, "returned", "null")
          /\ UNCHANGED <<status, claimed, due, recorded, instances>>
        BY <1>1 DEF Claim, rows
    <2> QED
        BY <2>1, SeeingStep DEF PCs, Terminal
<1>2. CASE Row(c) = "queued"
    <2>1. /\ status' = [status EXCEPT ![call[c].job] = "running"]
          /\ claimed' = [claimed EXCEPT ![call[c].job] = @ \cup {c}]
          /\ due' = [due EXCEPT ![call[c].job] = @ \cup {"running"}]
          /\ Goto(c, "reread")
          /\ UNCHANGED <<recorded, instances>>
        BY <1>2 DEF Claim
    <2>2. PICK k \in CallRecord :
            /\ call' = [call EXCEPT ![c] = k]
            /\ k.pc = "reread" /\ k.job = call[c].job /\ k.seen = call[c].seen
        BY <2>1, GotoRecord DEF Safe, PCs, Ended
    <2>3. claimed[call[c].job] = {} /\ Row(c) \notin Terminal
        BY <1>2 DEF Safe, TypeOK, ClaimedLeftQueue, Row, CallRecord, Terminal
    <2>4. ClaimedLeftQueue' /\ AtMostOneClaim'
        BY <2>1, <2>3 DEF Safe, TypeOK, ClaimedLeftQueue, AtMostOneClaim
    <2>5. claimed' \in [Jobs -> SUBSET Callers] /\ due' \in [Jobs -> SUBSET EventTypes]
        BY <2>1 DEF Safe, TypeOK, EventTypes, JobStatus
    <2>6. k.seen \notin Terminal
        BY <2>2, <2>3 DEF Safe, SeenIsFinal
    <2> QED
        BY <2>1, <2>2, <2>3, <2>4, <2>5, <2>6, RowChange DEF JobStatus
<1> QED
    BY <1>1, <1>2

LEMMA ReadSafe ==
    ASSUME Safe, NEW c \in Callers, Read(c)
    PROVE  Safe'
<1>1. UNCHANGED <<status, claimed, due, recorded, instances>>
    BY DEF Read, rows
<1>2. Row(c) \in JobStatus \cup {"absent"} /\ call[c].patch \in UpdatePatches
    BY DEF Read, At, Safe, TypeOK, UpdatesFit, Row, CallRecord
<1>3. CASE Row(c) = "absent"
    BY <1>1, <1>3, SeeingStep DEF Read, PCs, Terminal
<1>4. CASE Row(c) # "absent" /\ KeepsRow(Row(c), call[c].patch)
    <2>1. Row(c) \in JobStatus /\ Row(c) # "null"
        BY <1>2, <1>4 DEF JobStatus, Terminal
    <2> QED
        BY <1>1, <1>2, <1>4, <2>1, SeeingStep DEF Read, PCs
<1>5. CASE Row(c) # "absent" /\ ~KeepsRow(Row(c), call[c].patch)
    <2>1. GotoSeeing(c, "write", Row(c))
        BY <1>5 DEF Read
    <2>2. /\ Row(c) \in {"queued", "running"}
          /\ call[c].patch = "progress" => Row(c) = "running"
        BY <1>2, <1>5 DEF KeepsRow, JobStatus
    <2> QED
        BY <1>1, <1>2, <2>1, <2>2, SeeingStep DEF PCs, JobStatus
<1> QED
    BY <1>3, <1>4, <1>5

LEMMA WriteSafe ==
    ASSUME Safe, NEW c \in Callers, Write(c)
    PROVE  Safe'
<1>1. CASE Row(c) # call[c].seen
    <2>1. GotoSeeing(c, "returned", "null")
          /\ UNCHANGED <<status, claimed, due, recorded, instances>>
        BY <1>1 DEF Write, rows
    <2> QED
        BY <2>1, SeeingStep DEF PCs, Terminal
<1>2. CASE Row(c) = call[c].seen
    <2>1. /\ status' = [status EXCEPT ![call[c].job] = Written(c)]
          /\ due' = [due EXCEPT ![call[c].job] = @ \cup {call[c].patch}]
          /\ Goto(c, "reread")
          /\ UNCHANGED <<claimed, recorded, instances>>
        BY <1>2 DEF Write
    <2>2. PICK k \in CallRecord :
            /\ call' = [call EXCEPT ![c] = k]
            /\ k.pc = "reread" /\ k.job = call[c].job /\ k.seen = call[c].seen
        BY <2>1, GotoRecord DEF Safe, PCs, Ended
    <2>3. /\ call[c].patch \in UpdatePatches
          /\ call[c].seen \in {"queued", "running"}
          /\ call[c].patch = "progress" => call[c].seen = "running"
        BY DEF Write, At, Safe, UpdatesFit
    <2>4. Written(c) \in JobStatus /\ Written(c) \notin {"absent", "queued"}
        BY <2>3 DEF Written, UpdatePatches, Terminal, JobStatus
    <2>5. ClaimedLeftQueue' /\ AtMostOneClaim'
        BY <2>1, <2>4 DEF Safe, TypeOK, ClaimedLeftQueue, AtMostOneClaim
    <2>6. claimed' \in [Jobs -> SUBSET Callers] /\ due' \in [Jobs -> SUBSET EventTypes]
        BY <2>1, <2>3 DEF Safe, TypeOK, EventTypes, JobStatus, UpdatePatches
    <2>7. Row(c) \notin Terminal /\ k.seen \notin Terminal
        BY <1>2, <2>2, <2>3 DEF Terminal
    <2> QED
        BY <2>1, <2>2, <2>4, <2>5, <2>6, <2>7, RowChange
<1> QED
    BY <1>1, <1>2

LEMMA RereadSafe ==
    ASSUME Safe, NEW c \in Callers, Reread(c)
    PROVE  Safe'
<1>1. /\ GotoSeeing(c, "publish", Row(c))
      /\ UNCHANGED <<status, claimed, due, recorded, instances>>
    BY DEF Reread, rows
<1>2. Row(c) \in JobStatus /\ Row(c) # "null"
    BY DEF Reread, Safe, TypeOK, RereadFindsRow, Row, CallRecord, JobStatus, Terminal
<1> QED
    BY <1>1, <1>2, SeeingStep DEF PCs

LEMMA PublishSafe ==
    ASSUME Safe, NEW c \in Callers, Publish(c)
    PROVE  Safe'
<1>0. EventType(call[c]) \in EventTypes
    BY DEF Publish, EventType, EventTypes, RereadFindsRow, Safe, TypeOK, CallRecord, At,
           JobStatus
<1>1. /\ UNCHANGED <<status, claimed, due, instances>>
      /\ recorded' \in [Jobs -> SUBSET EventTypes]
      /\ instances' \subseteq Jobs
    BY <1>0 DEF Publish, rows, Safe, TypeOK
<1>2. PICK pc \in {"returned", "threw"} : Goto(c, pc)
    BY DEF Publish
<1> QED
    BY <1>1, <1>2, GotoStep DEF PCs

\* The steps of a call between its statements.
LEMMA ContinueSafe ==
    ASSUME Safe, NEW c \in Callers, Continue(c)
    PROVE  Safe'
<1> USE DEF Local, rows
<1>0. recorded \in [Jobs -> SUBSET EventTypes] /\ instances \subseteq Jobs
      /\ call[c].job \in Jobs
    BY DEF Safe, TypeOK, CallRecord
<1>1. CASE DispatchCreated(c)
    BY <1>0, <1>1, GotoStep DEF DispatchCreated, PCs
<1>2. CASE Launch(c)
    <2>1. call[c].op = "dispatch"
        BY <1>2 DEF Launch, Is
    <2> QED
        BY <1>0, <1>2, <2>1, GotoStep DEF Launch, PCs, Executors
<1>3. CASE LaunchFails(c)
    BY <1>0, <1>3, UpdateStep DEF LaunchFails, UpdatePatches, Terminal
<1>4. CASE RunCreated(c)
    <2> DEFINE k == [call[c] EXCEPT !.pc = "claim", !.patch = "claim"]
    <2>1. k \in CallRecord /\ call' = [call EXCEPT ![c] = k]
        BY <1>4 DEF RunCreated, Safe, TypeOK, CallRecord, PCs, Patches
    <2>2. k.seen \in Terminal => status[k.job] = k.seen
        BY DEF Safe, TypeOK, CallRecord, SeenIsFinal, Row
    <2>3. k.pc = "claim"
        BY DEF Safe, TypeOK, CallRecord
    <2>4. UNCHANGED <<status, claimed, due, recorded, instances>>
        BY <1>4 DEF RunCreated
    <2> HIDE DEF k
    <2> QED
        BY <1>0, <2>1, <2>2, <2>3, <2>4, LocalStep
<1>5. CASE ClaimLost(c)
    BY <1>0, <1>5, GotoStep DEF ClaimLost, PCs
<1>6. CASE EnterCallback(c)
    BY <1>0, <1>6, GotoStep DEF EnterCallback, PCs
<1>7. CASE Report(c)
    BY <1>0, <1>7, UpdateStep DEF Report, UpdatePatches
<1>8. CASE CallbackReturns(c)
    BY <1>0, <1>8, UpdateStep DEF CallbackReturns, UpdatePatches, Terminal
<1>9. CASE CallbackThrows(c)
    BY <1>0, <1>9, UpdateStep DEF CallbackThrows, UpdatePatches, Terminal
<1>10. CASE ExecutionSucceeds(c)
    <2>1. Row(c) = "succeeded"
        BY <1>10 DEF ExecutionSucceeds, Safe, SeenIsFinal, Terminal
    <2> QED
        BY <1>0, <1>10, <2>1, GotoStep DEF ExecutionSucceeds, PCs
<1>11. CASE ExecutionLost(c)
    BY <1>0, <1>11, UpdateStep DEF ExecutionLost, UpdatePatches, Terminal
<1>12. CASE ExecutionThrows(c)
    BY <1>0, <1>12, UpdateStep DEF ExecutionThrows, UpdatePatches, Terminal
<1>13. CASE Rethrow(c)
    BY <1>0, <1>13, GotoStep DEF Rethrow, PCs
<1>14. CASE Reject(c)
    BY <1>0, <1>14, GotoStep DEF Reject, PCs
<1>15. CASE Answer(c)
    BY <1>0, <1>15, GotoStep DEF Answer, PCs, Executors
<1>16. CASE CancelOwned(c)
    <2>1. call[c].patch \in UpdatePatches
        BY <1>16 DEF CancelOwned, At, Safe, UpdatesFit
    <2> QED
        BY <1>0, <1>16, <2>1, GotoStep DEF CancelOwned, PCs
<1> QED
    BY <1>1, <1>2, <1>3, <1>4, <1>5, <1>6, <1>7, <1>8, <1>9, <1>10, <1>11, <1>12,
       <1>13, <1>14, <1>15, <1>16 DEF Continue

LEMMA BeginSafe ==
    ASSUME Safe, NEW c \in Callers, NEW j \in Jobs, Begin(c, j)
    PROVE  Safe'
<1> USE StartStep DEF Ops, PCs, Patches, Executors
<1>1. CASE BeginDispatch(c, j)
    BY <1>1 DEF BeginDispatch
<1>2. CASE BeginRun(c, j)
    BY <1>2 DEF BeginRun
<1>3. CASE BeginExecute(c, j)
    BY <1>3 DEF BeginExecute
<1>4. CASE BeginCancel(c, j)
    BY <1>4 DEF BeginCancel, UpdatePatches, Terminal
<1>5. CASE BeginDirect(c, j)
    <2>1. PICK p \in DirectPatches :
            Start(c, "direct", j, IF p = "claim" THEN "claim" ELSE "read", p)
        BY <1>5 DEF BeginDirect
    <2>2. p \in Patches \ {"create"}
        BY JobsAssumption
    <2>3. p # "claim" => p \in UpdatePatches
        BY <2>2 DEF UpdatePatches
    <2>4. (IF p = "claim" THEN "claim" ELSE "read") \in PCs \ {"write", "reread", "publish", "resolved"}
        OBVIOUS
    <2> QED
        BY <2>1, <2>2, <2>3, <2>4
<1> QED
    BY <1>1, <1>2, <1>3, <1>4, <1>5 DEF Begin

LEMMA FaultSafe ==
    ASSUME Safe, NEW c \in Callers, StoreFails(c) \/ Crash(c)
    PROVE  Safe'
<1>1. /\ UNCHANGED <<status, claimed, due, recorded, instances>>
      /\ Goto(c, "threw") \/ Goto(c, "crashed")
    BY DEF StoreFails, Crash, rows
<1>2. recorded' \in [Jobs -> SUBSET EventTypes] /\ instances' \subseteq Jobs
    BY <1>1 DEF Safe, TypeOK
<1> QED
    BY <1>1, <1>2, GotoStep DEF PCs

LEMMA NextSafe == Safe /\ [Next]_vars => Safe'
<1> SUFFICES ASSUME Safe, [Next]_vars PROVE Safe'
    OBVIOUS
<1>1. CASE UNCHANGED vars
    BY <1>1 DEF vars, Safe, TypeOK, ClaimedLeftQueue, AtMostOneClaim, UpdatesFit,
                RereadFindsRow, SeenIsFinal, ResolvedMeansSucceeded, At, Row
<1>2. ASSUME NEW c \in Callers, Statement(c) PROVE Safe'
    BY <1>2, InsertSafe, ClaimSafe, ReadSafe, WriteSafe, RereadSafe, PublishSafe DEF Statement
<1> QED
    BY <1>1, <1>2, BeginSafe, ContinueSafe, FaultSafe DEF Next

\* Whatever the calls, the faults and their order, every state of core/jobs satisfies
\* the inductive invariant.
THEOREM SafeAlways == Spec => []Safe
BY InitSafe, NextSafe, PTL DEF Spec

\* Type correctness of the activation records and the rows.
THEOREM TypeCorrect == Spec => []TypeOK
BY SafeAlways, PTL DEF Safe

\* A job is executed at most once: of all calls that race for the claim, one wins.
THEOREM OneClaim == Spec => []AtMostOneClaim
BY SafeAlways, PTL DEF Safe

\* executeJob resolves only for a job that succeeded, and that nobody can change again.
THEOREM ResolvedSucceeded == Spec => []ResolvedMeansSucceeded
BY SafeAlways, PTL DEF Safe
-----------------------------------------------------------------------------
(* The lifecycle: what a step does to the rows *)

\* A step either leaves the rows alone or is one of the transitions of JobLifecycle.
LEMMA RowStep ==
    ASSUME Safe, Next
    PROVE  Lifecycle!Next \/ UNCHANGED <<status, claimed>>
<1> SUFFICES ASSUME NEW c \in Callers,
                    \/ \E j \in Jobs : Begin(c, j)
                    \/ Statement(c)
                    \/ Continue(c)
                    \/ StoreFails(c)
                    \/ Crash(c)
             PROVE  Lifecycle!Next \/ UNCHANGED <<status, claimed>>
    BY DEF Next
<1>0. call[c].job \in Jobs /\ Row(c) = status[call[c].job]
    BY DEF Safe, TypeOK, CallRecord, Row
<1>1. CASE \E j \in Jobs : Begin(c, j)
    BY <1>1 DEF Begin, BeginDispatch, BeginRun, BeginExecute, BeginCancel, BeginDirect,
                Start, rows
<1>2. CASE Insert(c)
    <2>1. CASE Row(c) # "absent"
        BY <1>2, <2>1 DEF Insert, rows
    <2>2. CASE Row(c) = "absent"
        <3>1. Lifecycle!Create(call[c].job)
            BY <1>0, <1>2, <2>2, JobsAssumption
            DEF Insert, Lifecycle!Create, Lifecycle!JobStatus, Lifecycle!Terminal, JobStatus, Terminal
        <3> QED
            BY <1>0, <3>1 DEF Lifecycle!Next
    <2> QED
        BY <2>1, <2>2
<1>3. CASE Claim(c)
    <2>1. CASE Row(c) # "queued"
        BY <1>3, <2>1 DEF Claim, rows
    <2>2. CASE Row(c) = "queued"
        <3>1. claimed[call[c].job] = {}
            BY <1>0, <2>2 DEF Safe, ClaimedLeftQueue
        <3>2. Lifecycle!Claim(call[c].job, c)
            BY <1>0, <1>3, <2>2, <3>1 DEF Claim, Lifecycle!Claim
        <3> QED
            BY <1>0, <3>2 DEF Lifecycle!Next
    <2> QED
        BY <2>1, <2>2
<1>4. CASE Write(c)
    <2>1. CASE Row(c) # call[c].seen
        BY <1>4, <2>1 DEF Write, rows
    <2>2. CASE Row(c) = call[c].seen
        <3>1. /\ call[c].patch \in UpdatePatches
              /\ call[c].seen \in {"queued", "running"}
            BY <1>4 DEF Write, At, Safe, UpdatesFit
        <3>2. /\ status' = [status EXCEPT ![call[c].job] = Written(c)]
              /\ UNCHANGED claimed
            BY <1>4, <2>2 DEF Write
        <3>3. CASE call[c].patch = "progress"
            <4>1. UNCHANGED status
                BY <1>0, <2>2, <3>2, <3>3 DEF Written, Safe, TypeOK
            <4> QED
                BY <3>2, <4>1
        <3>4. CASE call[c].patch # "progress"
            <4>1. Written(c) \in Terminal
                BY <3>1, <3>4 DEF Written, UpdatePatches
            <4>2. Lifecycle!Settle(call[c].job)
                BY <1>0, <2>2, <3>1, <3>2, <4>1 DEF Lifecycle!Settle, Lifecycle!Terminal, Terminal
            <4> QED
                BY <1>0, <4>2 DEF Lifecycle!Next
        <3> QED
            BY <3>3, <3>4
    <2> QED
        BY <2>1, <2>2
<1>5. CASE Read(c) \/ Reread(c) \/ Publish(c)
    BY <1>5 DEF Read, Reread, Publish, rows
<1>6. CASE Continue(c)
    BY <1>6 DEF Continue, DispatchCreated, Launch, LaunchFails, RunCreated, ClaimLost,
                EnterCallback, Report, CallbackReturns, CallbackThrows, ExecutionSucceeds,
                ExecutionLost, ExecutionThrows, Rethrow, Reject, Answer, CancelOwned,
                Local, rows
<1>7. CASE StoreFails(c) \/ Crash(c)
    BY <1>7 DEF StoreFails, Crash, rows
<1> QED
    BY <1>1, <1>2, <1>3, <1>4, <1>5, <1>6, <1>7 DEF Statement

\* core/jobs implements the job lifecycle: rows are created once, claimed only from the
\* queue and by one call, and settled once.
THEOREM Refinement == Spec => ImplementsLifecycle
<1>1. Init => Lifecycle!Init
    BY DEF Init, Lifecycle!Init
<1>2. Safe /\ [Next]_vars => [Lifecycle!Next]_(Lifecycle!vars)
    BY RowStep DEF vars, Lifecycle!vars
<1> QED
    BY <1>1, <1>2, SafeAlways, PTL DEF Spec, ImplementsLifecycle, Lifecycle!Spec

\* No step of any call changes a terminal status.
THEOREM TerminalStays == Spec => TerminalIsFinal
<1>1. Safe /\ [Next]_vars =>
        [\A j \in Jobs : status[j] \in Terminal => status'[j] = status[j]]_vars
    <2> SUFFICES ASSUME Safe, Next, NEW j \in Jobs, status[j] \in Terminal
                 PROVE  status'[j] = status[j]
        BY DEF vars
    <2>1. CASE Lifecycle!Next
        BY <2>1 DEF Lifecycle!Next, Lifecycle!Create, Lifecycle!Claim, Lifecycle!Settle, Terminal, Safe, TypeOK
    <2> QED
        BY <2>1, RowStep
<1> QED
    BY <1>1, SafeAlways, PTL DEF Spec, TerminalIsFinal
-----------------------------------------------------------------------------
(* What executions and dispatches leave behind, when D1 answers and the invocation *)
(* survives: every other fault may strike *)

Answered == Faults \cap {"store", "crash"} = {}

Past == {"reread", "publish", "returned", "threw", "rejected"}

\* How far op, pc, patch and seen of one activation record fit together.
Staged(k) ==
    /\ k.pc = "insert" => k.patch = "create"
    /\ k.pc = "claim" => k.patch = "claim"
    /\ k.pc = "reread" => k.patch # "create"
    /\ k.pc = "owned" => k.op = "cancel"
    /\ k.pc = "callback" => k.op \in Executors /\ k.patch # "create"
    /\ k.op = "cancel" => k.patch = "cancelled"
    /\ k.op = "dispatch" =>
         /\ k.patch \in {"create", "failed"}
         /\ k.patch = "create" /\ k.pc \in {"returned", "launch"} => k.seen # "null"
         /\ k.patch = "failed" /\ k.pc = "read" => k.seen # "null"
    /\ k.op \in Executors =>
         /\ k.patch \in {"create", "claim", "progress", "succeeded", "failed"}
         /\ k.pc = "write" => k.seen # "queued"
         /\ k.pc = "rejected" => k.patch \in {"create", "claim", "failed"}

\* The row of the call left the queue: the execution claimed it, or the dispatch failed it.
Committed(k) ==
    \/ k.op \in Executors
       /\ \/ k.patch \notin {"create", "claim"}
          \/ k.pc \in {"callback", "reread", "publish"} /\ k.patch # "create"
          \/ k.patch = "claim" /\ k.pc = "returned" /\ k.seen # "null"
    \/ k.op = "dispatch" /\ k.patch = "failed" /\ k.pc \in Past

\* What a call with record k may rely on while its row has status r.
Fits(k, r) ==
    /\ k.seen # "null" => r # "absent" /\ (k.seen # "queued" => r # "queued")
    /\ Committed(k) => r \notin {"absent", "queued"}
    /\ k.op \in Executors /\ k.patch \in {"succeeded", "failed"} /\ k.pc \in Past => r \in Terminal
    /\ k.pc = "reread" /\ k.patch \in Terminal => r = k.patch

Orderly == \A c \in Callers : Staged(call[c]) /\ Fits(call[c], Row(c))

LEMMA InitOrderly == Init => Orderly
<1> SUFFICES ASSUME Init, NEW c \in Callers PROVE Staged(call[c]) /\ Fits(call[c], Row(c))
    BY DEF Orderly
<1>1. PICK j \in Jobs :
        call = [d \in Callers |-> [op |-> "direct", job |-> j, pc |-> "idle",
                                   patch |-> "create", seen |-> "null"]]
    BY DEF Init
<1>2. call[c].op = "direct" /\ call[c].pc = "idle" /\ call[c].seen = "null"
    BY <1>1
<1> QED
    BY <1>2 DEF Staged, Fits, Committed, Executors

\* Rows only move on: nothing returns to the queue and nothing terminal changes.
LEMMA RowsAdvance ==
    ASSUME Safe, Next, NEW j \in Jobs
    PROVE  /\ status[j] \in Terminal => status'[j] = status[j]
           /\ status[j] \notin {"absent", "queued"} => status'[j] \notin {"absent", "queued"}
           /\ status[j] # "absent" => status'[j] # "absent"
           /\ status[j] \in JobStatus \cup {"absent"}
<1>1. CASE Lifecycle!Next
    BY <1>1 DEF Lifecycle!Next, Lifecycle!Create, Lifecycle!Claim, Lifecycle!Settle, Lifecycle!JobStatus,
                Lifecycle!Terminal, Terminal, JobStatus, Safe, TypeOK
<1> QED
    BY <1>1, RowStep DEF Safe, TypeOK

\* A step of c concerns the other calls only through the rows.
LEMMA OrderlyStep ==
    ASSUME Safe, Orderly, Next, NEW c \in Callers, NEW k \in CallRecord,
           call' = [call EXCEPT ![c] = k],
           Staged(k), Fits(k, status'[k.job])
    PROVE  Orderly'
<1> SUFFICES ASSUME NEW d \in Callers PROVE Staged(call'[d]) /\ Fits(call'[d], status'[call'[d].job])
    BY DEF Orderly, Row
<1>1. CASE d = c
    BY <1>1 DEF Safe, TypeOK
<1>2. CASE d # c
    <2>1. call'[d] = call[d] /\ call[d].job \in Jobs
        BY <1>2 DEF Safe, TypeOK, CallRecord
    <2> DEFINE r == status[call[d].job]
    <2> DEFINE s == status'[call[d].job]
    <2>2. Staged(call[d]) /\ Fits(call[d], r)
        BY DEF Orderly, Row
    <2>3. /\ r \in Terminal => s = r
          /\ r \notin {"absent", "queued"} => s \notin {"absent", "queued"}
          /\ r # "absent" => s # "absent"
        BY <2>1, RowsAdvance
    <2> HIDE DEF r, s
    <2>4. Fits(call[d], s)
        BY <2>2, <2>3 DEF Fits, Terminal
    <2> QED
        BY <2>1, <2>2, <2>4 DEF s
<1> QED
    BY <1>1, <1>2

LEMMA BeginOrderly ==
    ASSUME Safe, Orderly, Next, NEW c \in Callers, NEW op \in Ops, NEW j \in Jobs,
           NEW pc \in {"insert", "claim", "owned", "read"}, NEW p \in Patches,
           Start(c, op, j, pc, p),
           pc = "insert" <=> p = "create",
           pc = "claim" <=> p = "claim",
           pc = "owned" <=> op = "cancel",
           op = "cancel" => p = "cancelled",
           op = "dispatch" => pc = "insert",
           op \in Executors => pc \in {"insert", "claim"}
    PROVE  Orderly'
<1> DEFINE k == [op |-> op, job |-> j, pc |-> pc, patch |-> p, seen |-> "null"]
<1>1. k \in CallRecord /\ call' = [call EXCEPT ![c] = k]
    BY DEF Start, CallRecord, PCs
<1>2. k.op = op /\ k.pc = pc /\ k.patch = p /\ k.seen = "null"
    OBVIOUS
<1> HIDE DEF k
<1>3. Staged(k) /\ Fits(k, status'[k.job])
    BY <1>2 DEF Staged, Fits, Committed, Past, Executors
<1> QED
    BY <1>1, <1>3, OrderlyStep

\* A call that moves on while its row stays as it is.
LEMMA StayOrderly ==
    ASSUME Safe, Orderly, Next, NEW c \in Callers, NEW k \in CallRecord,
           call' = [call EXCEPT ![c] = k], k.job = call[c].job, UNCHANGED status,
           Staged(k), Fits(k, Row(c))
    PROVE  Orderly'
BY OrderlyStep DEF Row

LEMMA StatementOrderly ==
    ASSUME Answered, Safe, Orderly, Next, NEW c \in Callers, Statement(c)
    PROVE  Orderly'
<1> DEFINE o == call[c]
<1> DEFINE r == Row(c)
<1>0. /\ Staged(o) /\ Fits(o, r) /\ o.job \in Jobs
      /\ o.pc \in {"owned", "read", "write"} => o.patch \in UpdatePatches
      /\ o.pc = "write" => o.seen \in {"queued", "running"}
      /\ r \in JobStatus \cup {"absent"}
      /\ o.pc = "reread" => r # "absent"
      /\ o.pc = "publish" => o.seen # "null"
      /\ o.seen \in Terminal => r = o.seen
    BY DEF Safe, TypeOK, CallRecord, UpdatesFit, RereadFindsRow, SeenIsFinal, Orderly, At, Row
<1>1. CASE Insert(c)
    <2>1. CASE Row(c) # "absent"
        <3>1. PICK k \in CallRecord :
                /\ call' = [call EXCEPT ![c] = k]
                /\ k.pc = "threw" /\ k.op = o.op /\ k.job = o.job /\ k.patch = o.patch
                /\ k.seen = o.seen /\ o.pc = "insert" /\ UNCHANGED status
            BY <1>1, <2>1, GotoRecord DEF Insert, PCs, Ended, Safe, rows, At
        <3>2. Staged(k) /\ Fits(k, r)
            BY <1>0, <3>1 DEF Staged, Fits, Committed, Past, Executors
        <3> QED
            BY <3>1, <3>2, StayOrderly
    <2>2. CASE Row(c) = "absent"
        <3>1. PICK s \in InitialStatuses :
                /\ status' = [status EXCEPT ![o.job] = s]
                /\ GotoSeeing(c, "publish", s)
            BY <1>1, <2>2 DEF Insert
        <3>2. PICK k \in CallRecord :
                /\ call' = [call EXCEPT ![c] = k]
                /\ k.pc = "publish" /\ k.op = o.op /\ k.job = o.job /\ k.patch = o.patch
                /\ k.seen = s
            BY <3>1, GotoSeeingRecord, JobsAssumption DEF PCs, Safe
        <3>3. o.patch = "create" /\ status'[o.job] = s /\ s \in JobStatus
            BY <1>0, <1>1, <3>1, JobsAssumption DEF Staged, Insert, At, Safe, TypeOK
        <3>4. Staged(k) /\ Fits(k, s)
            BY <1>0, <3>2, <3>3 DEF Staged, Fits, Committed, Past, Executors, JobStatus, Terminal
        <3> QED
            BY <3>2, <3>3, <3>4, OrderlyStep
    <2> QED
        BY <2>1, <2>2
<1>2. CASE Claim(c)
    <2>1. o.pc = "claim" /\ o.patch = "claim"
        BY <1>0, <1>2 DEF Claim, At, Staged
    <2>2. CASE Row(c) # "queued"
        <3>1. PICK k \in CallRecord :
                /\ call' = [call EXCEPT ![c] = k]
                /\ k.pc = "returned" /\ k.op = o.op /\ k.job = o.job /\ k.patch = o.patch
                /\ k.seen = "null" /\ UNCHANGED status
            BY <1>2, <2>2, GotoSeeingRecord DEF Claim, PCs, Safe, rows
        <3>2. Staged(k) /\ Fits(k, r)
            BY <1>0, <2>1, <3>1 DEF Staged, Fits, Committed, Past, Executors, Terminal
        <3> QED
            BY <3>1, <3>2, StayOrderly
    <2>3. CASE Row(c) = "queued"
        <3>1. PICK k \in CallRecord :
                /\ call' = [call EXCEPT ![c] = k]
                /\ k.pc = "reread" /\ k.op = o.op /\ k.job = o.job /\ k.patch = o.patch
                /\ k.seen = o.seen /\ status' = [status EXCEPT ![o.job] = "running"]
            BY <1>2, <2>3, GotoRecord DEF Claim, PCs, Safe, Ended
        <3>2. status'[o.job] = "running"
            BY <1>0, <3>1 DEF Safe, TypeOK
        <3>3. Staged(k) /\ Fits(k, "running")
            BY <1>0, <2>1, <3>1 DEF Staged, Fits, Committed, Past, Executors, Terminal
        <3> QED
            BY <3>1, <3>2, <3>3, OrderlyStep
    <2> QED
        BY <2>2, <2>3
<1>3. CASE Read(c)
    <2>0. o.pc = "read" /\ o.patch \in UpdatePatches /\ UNCHANGED status
        BY <1>0, <1>3 DEF Read, At, rows
    <2>1. PICK pc \in {"returned", "publish", "write"}, s \in JobStatus \cup {"null"} :
            /\ GotoSeeing(c, pc, s)
            /\ pc = "returned" => s = "null" /\ r = "absent"
            /\ pc = "publish" => s = r /\ r # "absent" /\ KeepsRow(r, o.patch)
            /\ pc = "write" => s = r /\ r # "absent"
        BY <1>0, <1>3 DEF Read
    <2>2. PICK k \in CallRecord :
            /\ call' = [call EXCEPT ![c] = k]
            /\ k.pc = pc /\ k.op = o.op /\ k.job = o.job /\ k.patch = o.patch
            /\ k.seen = s
        BY <2>1, GotoSeeingRecord DEF PCs, Safe
    <2>3. Staged(k)
        BY <1>0, <2>0, <2>1, <2>2 DEF Staged, Fits, Committed, Executors, UpdatePatches, Terminal
    <2>4. Fits(k, r)
        BY <1>0, <2>0, <2>1, <2>2
        DEF Staged, Fits, Committed, Past, Executors, UpdatePatches, Terminal, KeepsRow
    <2> QED
        BY <2>0, <2>2, <2>3, <2>4, StayOrderly
<1>4. CASE Write(c)
    <2>0. o.pc = "write"
        BY <1>4 DEF Write, At
    <2>1. CASE Row(c) # o.seen
        <3>1. PICK k \in CallRecord :
                /\ call' = [call EXCEPT ![c] = k]
                /\ k.pc = "returned" /\ k.op = o.op /\ k.job = o.job /\ k.patch = o.patch
                /\ k.seen = "null" /\ UNCHANGED status
            BY <1>4, <2>1, GotoSeeingRecord DEF Write, PCs, Safe, rows
        <3>2. Staged(k)
            BY <1>0, <2>0, <3>1 DEF Staged, Executors, UpdatePatches, Terminal
        <3>3. Fits(k, r)
            BY <1>0, <2>0, <2>1, <3>1
            DEF Staged, Fits, Committed, Past, Executors, UpdatePatches, Terminal, JobStatus
        <3> QED
            BY <3>1, <3>2, <3>3, StayOrderly
    <2>2. CASE Row(c) = o.seen
        <3>1. PICK k \in CallRecord :
                /\ call' = [call EXCEPT ![c] = k]
                /\ k.pc = "reread" /\ k.op = o.op /\ k.job = o.job /\ k.patch = o.patch
                /\ k.seen = o.seen /\ status' = [status EXCEPT ![o.job] = Written(c)]
            BY <1>4, <2>2, GotoRecord DEF Write, PCs, Safe, Ended
        <3>2. status'[o.job] = Written(c)
            BY <1>0, <3>1 DEF Safe, TypeOK
        <3>3. o.patch = "progress" => o.seen = "running"
            BY <2>0 DEF Safe, UpdatesFit
        <3>4. Written(c) = IF o.patch = "progress" THEN "running" ELSE o.patch
            BY <3>3 DEF Written
        <3>5. Staged(k)
            BY <1>0, <2>0, <3>1 DEF Staged, Executors, UpdatePatches, Terminal
        <3>6. Fits(k, Written(c))
            BY <1>0, <2>0, <3>1, <3>4
            DEF Staged, Fits, Committed, Past, Executors, UpdatePatches, Terminal
        <3> QED
            BY <3>1, <3>2, <3>5, <3>6, OrderlyStep
    <2> QED
        BY <2>1, <2>2
<1>5. CASE Reread(c)
    <2>1. PICK k \in CallRecord :
            /\ call' = [call EXCEPT ![c] = k]
            /\ k.pc = "publish" /\ k.op = o.op /\ k.job = o.job /\ k.patch = o.patch
            /\ k.seen = r /\ o.pc = "reread" /\ UNCHANGED status
        BY <1>0, <1>5, GotoSeeingRecord DEF Reread, PCs, Safe, At, rows
    <2>2. Staged(k)
        BY <1>0, <2>1 DEF Staged, Executors
    <2>3. Fits(k, r)
        BY <1>0, <2>1 DEF Staged, Fits, Committed, Past, Executors, Terminal
    <2> QED
        BY <2>1, <2>2, <2>3, StayOrderly
<1>6. CASE Publish(c)
    <2>1. PICK pc \in {"returned", "threw"} : Goto(c, pc)
        BY <1>6 DEF Publish
    <2>2. PICK k \in CallRecord :
            /\ call' = [call EXCEPT ![c] = k]
            /\ k.pc = pc /\ k.op = o.op /\ k.job = o.job /\ k.patch = o.patch
            /\ k.seen = o.seen /\ o.pc = "publish" /\ UNCHANGED status
        BY <1>6, <2>1, GotoRecord DEF Publish, PCs, Safe, At, rows, Ended
    <2>3. Staged(k)
        BY <1>0, <2>2 DEF Staged, Executors
    <2>4. Fits(k, r)
        BY <1>0, <2>2 DEF Staged, Fits, Committed, Past, Executors, Terminal
    <2> QED
        BY <2>2, <2>3, <2>4, StayOrderly
<1> QED
    BY <1>1, <1>2, <1>3, <1>4, <1>5, <1>6 DEF Statement

LEMMA ContinueOrderly ==
    ASSUME Answered, Safe, Orderly, Next, NEW c \in Callers, Continue(c)
    PROVE  Orderly'
<1> DEFINE o == call[c]
<1> DEFINE r == Row(c)
<1>0. /\ Staged(o) /\ Fits(o, r) /\ o.job \in Jobs /\ o.op \in Ops /\ o.patch \in Patches
      /\ o.seen \in Terminal => r = o.seen
      /\ UNCHANGED status
    BY DEF Safe, TypeOK, CallRecord, SeenIsFinal, Orderly, At, Row, Continue, DispatchCreated, Launch,
           LaunchFails, RunCreated, ClaimLost, EnterCallback, Report, CallbackReturns, CallbackThrows,
           ExecutionSucceeds, ExecutionLost, ExecutionThrows, Rethrow, Reject, Answer, CancelOwned,
           Local, rows
<1> HIDE DEF o, r
<1>1. ASSUME NEW pc \in PCs, Goto(c, pc),
             pc \in {"launch", "resolved", "rejected", "callback", "read"},
             pc = "launch" => o.op = "dispatch" /\ o.pc = "returned" /\ o.patch = "create",
             pc = "rejected" =>
                 \/ o.op = "cancel"
                 \/ o.patch \in {"create", "claim"}
                 \/ o.patch = "failed" /\ o.pc \in Past
                 \/ o.op \notin Executors \cup {"dispatch"},
             pc = "callback" => o.op \in Executors /\ Committed(o),
             pc = "resolved" => o.op \notin Executors \/ o.patch = "succeeded",
             pc = "read" => o.op = "cancel"
      PROVE  Orderly'
    <2>1. PICK k \in CallRecord :
            /\ call' = [call EXCEPT ![c] = k]
            /\ k.pc = pc /\ k.op = o.op /\ k.job = o.job /\ k.patch = o.patch
            /\ k.seen = IF pc \in Ended THEN "null" ELSE o.seen
        BY <1>1, GotoRecord DEF Safe, o
    <2>2. k.seen = "null" \/ k.seen = o.seen
        BY <2>1
    <2>3. Staged(k)
        BY <1>0, <1>1, <2>1, <2>2 DEF Staged, Committed, Executors, Ended
    <2>4. Fits(k, r)
        BY <1>0, <1>1, <2>1, <2>2 DEF Staged, Fits, Committed, Past, Executors, Terminal, Ended
    <2> QED
        BY <1>0, <2>1, <2>3, <2>4, StayOrderly DEF o, r
<1>2. ASSUME NEW p \in {"progress", "succeeded", "failed"}, Update(c, p),
             \/ o.op \in Executors /\ Committed(o)
             \/ o.op = "dispatch" /\ p = "failed" /\ o.seen # "null"
             \/ o.op \notin Executors \cup {"dispatch", "cancel"}
      PROVE  Orderly'
    <2>1. PICK k \in CallRecord :
            /\ call' = [call EXCEPT ![c] = k]
            /\ k.pc = "read" /\ k.op = o.op /\ k.job = o.job /\ k.patch = p
            /\ k.seen = o.seen
        BY <1>2, UpdateRecord DEF Safe, Patches, Terminal, o
    <2>3. Staged(k)
        BY <1>0, <1>2, <2>1 DEF Staged, Executors
    <2>4. Fits(k, r)
        BY <1>0, <1>2, <2>1 DEF Staged, Fits, Committed, Past, Executors, Terminal
    <2> QED
        BY <1>0, <2>1, <2>3, <2>4, StayOrderly DEF o, r
<1>3. CASE DispatchCreated(c)
    <2>1. Goto(c, "launch") /\ o.op = "dispatch" /\ o.pc = "returned" /\ o.patch = "create"
        BY <1>3 DEF DispatchCreated, Local, Is, At, o
    <2> QED
        BY <2>1, <1>1 DEF PCs
<1>4. CASE Launch(c)
    <2>1. Goto(c, "resolved") /\ o.op \notin Executors
        BY <1>4 DEF Launch, Is, Executors, o
    <2> QED
        BY <2>1, <1>1 DEF PCs
<1>5. CASE LaunchFails(c)
    <2>1. Update(c, "failed") /\ o.op = "dispatch" /\ o.patch = "create" /\ o.pc = "launch"
        BY <1>5 DEF LaunchFails, Is, At, o
    <2> QED
        BY <1>0, <2>1, <1>2 DEF Staged
<1>6. CASE RunCreated(c)
    <2> DEFINE k == [o EXCEPT !.pc = "claim", !.patch = "claim"]
    <2>1. k \in CallRecord /\ call' = [call EXCEPT ![c] = k]
        BY <1>6 DEF RunCreated, Safe, TypeOK, CallRecord, PCs, Patches, o
    <2>2. k.pc = "claim" /\ k.patch = "claim" /\ k.op = o.op /\ k.job = o.job /\ k.seen = o.seen
        BY DEF Safe, TypeOK, CallRecord, o
    <2>3. o.op = "run"
        BY <1>6 DEF RunCreated, Is, o
    <2> HIDE DEF k
    <2>4. Staged(k) /\ Fits(k, r)
        BY <1>0, <2>2, <2>3 DEF Staged, Fits, Committed, Past, Executors, Terminal
    <2> QED
        BY <1>0, <2>1, <2>2, <2>4, StayOrderly DEF o, r
<1>7. CASE ClaimLost(c)
    <2>1. Goto(c, "rejected") /\ o.patch = "claim"
        BY <1>7 DEF ClaimLost, Local, Is, o
    <2> QED
        BY <2>1, <1>1 DEF PCs
<1>8. CASE EnterCallback(c)
    <2>1. /\ Goto(c, "callback") /\ o.op \in Executors /\ o.pc = "returned"
          /\ (o.patch = "claim" /\ o.seen # "null") \/ o.patch = "progress"
        BY <1>8 DEF EnterCallback, Local, Is, At, o
    <2> QED
        BY <2>1, <1>1 DEF PCs, Committed
<1>9. CASE Report(c) \/ CallbackReturns(c) \/ CallbackThrows(c)
    <2>1. o.pc = "callback" /\ \E p \in {"progress", "succeeded", "failed"} : Update(c, p)
        BY <1>9 DEF Report, CallbackReturns, CallbackThrows, At, o
    <2>2. o.op \in Executors /\ o.patch # "create"
        BY <1>0, <2>1 DEF Staged
    <2> QED
        BY <2>1, <2>2, <1>2 DEF Committed
<1>10. CASE ExecutionSucceeds(c)
    <2>1. Goto(c, "resolved") /\ o.patch = "succeeded"
        BY <1>10 DEF ExecutionSucceeds, Local, Is, o
    <2> QED
        BY <2>1, <1>1 DEF PCs
<1>11. CASE ExecutionLost(c) \/ ExecutionThrows(c)
    <2>1. Update(c, "failed") /\ o.op \in Executors /\ o.patch \in {"progress", "succeeded"}
        BY <1>11 DEF ExecutionLost, ExecutionThrows, Is, o
    <2> QED
        BY <2>1, <1>2 DEF Committed
<1>12. CASE Rethrow(c)
    <2>1. Goto(c, "rejected") /\ o.patch = "failed" /\ o.pc = "returned"
        BY <1>12 DEF Rethrow, Local, Is, At, o
    <2> QED
        BY <2>1, <1>1 DEF PCs, Past
<1>13. CASE Reject(c)
    <2>1. /\ Goto(c, "rejected") /\ o.pc = "threw"
          /\ o.op \in Executors => o.patch \notin {"progress", "succeeded"}
        BY <1>13 DEF Reject, Local, Is, At, o
    <2> QED
        BY <1>0, <2>1, <1>1 DEF PCs, Past, Staged
<1>14. CASE Answer(c)
    <2>1. Goto(c, "resolved") /\ o.op \notin Executors
        BY <1>14 DEF Answer, Local, Executors, o
    <2> QED
        BY <2>1, <1>1 DEF PCs
<1>15. CASE CancelOwned(c)
    <2>1. o.pc = "owned" /\ (Goto(c, "read") \/ Goto(c, "rejected"))
        BY <1>15 DEF CancelOwned, At, o
    <2> QED
        BY <1>0, <2>1, <1>1 DEF PCs, Staged
<1> QED
    BY <1>3, <1>4, <1>5, <1>6, <1>7, <1>8, <1>9, <1>10, <1>11, <1>12, <1>13, <1>14, <1>15 DEF Continue

LEMMA NextOrderly == ASSUME Answered PROVE Safe /\ Orderly /\ [Next]_vars => Orderly'
<1> SUFFICES ASSUME Safe, Orderly, [Next]_vars PROVE Orderly'
    OBVIOUS
<1>1. CASE UNCHANGED vars
    BY <1>1 DEF vars, Orderly, Row
<1>2. CASE Next
    <2> SUFFICES ASSUME NEW c \in Callers,
                        (\E j \in Jobs : Begin(c, j)) \/ Statement(c) \/ Continue(c)
                 PROVE  Orderly'
        BY <1>2 DEF Next, StoreFails, Crash, Answered
    <2>1. CASE \E j \in Jobs : Begin(c, j)
        <3>1. PICK j \in Jobs : Begin(c, j)
            BY <2>1
        <3> USE <1>2, BeginOrderly DEF Ops, Patches, Executors, Terminal
        <3>2. CASE BeginDispatch(c, j)
            BY <3>2 DEF BeginDispatch
        <3>3. CASE BeginRun(c, j)
            BY <3>3 DEF BeginRun
        <3>4. CASE BeginExecute(c, j)
            BY <3>4 DEF BeginExecute
        <3>5. CASE BeginCancel(c, j)
            BY <3>5 DEF BeginCancel
        <3>6. CASE BeginDirect(c, j)
            <4>1. PICK p \in DirectPatches :
                    Start(c, "direct", j, IF p = "claim" THEN "claim" ELSE "read", p)
                BY <3>6 DEF BeginDirect
            <4>2. p \in Patches \ {"create"}
                BY JobsAssumption
            <4> QED
                BY <4>1, <4>2
        <3> QED
            BY <3>1, <3>2, <3>3, <3>4, <3>5, <3>6 DEF Begin
    <2> QED
        BY <1>2, <2>1, StatementOrderly, ContinueOrderly
<1> QED
    BY <1>1, <1>2

\* An execution that entered its callback leaves a settled row, whatever threw on the way.
THEOREM ExecutionsSettle == Answered /\ Spec => []ExecutionSettles
<1> SUFFICES ASSUME Answered PROVE Spec => []ExecutionSettles
    OBVIOUS
<1>1. Safe /\ Orderly => ExecutionSettles
    <2> SUFFICES ASSUME Safe, Orderly, NEW c \in Callers, Entered(c),
                        call[c].pc \in {"resolved", "rejected"}
                 PROVE  Row(c) \in Terminal
        BY DEF ExecutionSettles
    <2>1. CASE call[c].pc = "resolved"
        BY <2>1 DEF Safe, ResolvedMeansSucceeded, Entered, At, Terminal
    <2>2. CASE call[c].pc = "rejected"
        BY <2>2 DEF Orderly, Staged, Fits, Past, Entered, At
    <2> QED
        BY <2>1, <2>2
<1>2. Safe /\ Orderly /\ [Next]_vars => Orderly'
    BY NextOrderly
<1> QED
    BY <1>1, <1>2, SafeAlways, InitOrderly, PTL DEF Spec

\* A dispatch that was told its Workflow did not start leaves no queued row behind.
THEOREM DispatchFailuresRecorded == Answered /\ Spec => []DispatchFailureRecorded
<1> SUFFICES ASSUME Answered PROVE Spec => []DispatchFailureRecorded
    OBVIOUS
<1>1. Orderly => DispatchFailureRecorded
    BY DEF Orderly, Fits, Committed, Past, DispatchFailureRecorded, Is, At
<1>2. Safe /\ Orderly /\ [Next]_vars => Orderly'
    BY NextOrderly
<1> QED
    BY <1>1, <1>2, SafeAlways, InitOrderly, PTL DEF Spec
-----------------------------------------------------------------------------
(* Event rows *)

\* The event that a call still has to record for the change it committed.
Owed(k) ==
    IF k.patch = "create" THEN "created"
    ELSE IF k.patch = "claim" THEN "running"
    ELSE IF k.patch = "progress" THEN "progress"
    ELSE IF k.pc = "reread" THEN k.patch ELSE k.seen

Owes(c, j, e) == /\ call[c].job = j
                 /\ call[c].pc \in {"reread", "publish"}
                 /\ Owed(call[c]) = e

\* Every event that is due is recorded, or some call is about to record it.
Accounted ==
    \A j \in Jobs : \A e \in due[j] : e \in recorded[j] \/ \E c \in Callers : Owes(c, j, e)

\* A step of c keeps the account if c records what it owed, or owes it still.
LEMMA AccountedStep ==
    ASSUME Safe, Accounted, NEW c \in Callers, NEW k \in CallRecord,
           call' = [call EXCEPT ![c] = k],
           \A j \in Jobs : recorded[j] \subseteq recorded'[j],
           \A j \in Jobs : \A e \in due[j] :
               Owes(c, j, e) => e \in recorded'[j] \/ Owes(c, j, e)',
           \A j \in Jobs : \A e \in due'[j] : e \in due[j] \/ Owes(c, j, e)'
    PROVE  Accounted'
<1> SUFFICES ASSUME NEW j \in Jobs, NEW e \in due'[j], e \notin recorded'[j], ~Owes(c, j, e)'
             PROVE  \E d \in Callers : Owes(d, j, e)'
    BY DEF Accounted
<1>1. e \in due[j] /\ e \notin recorded[j] /\ ~Owes(c, j, e)
    OBVIOUS
<1>2. PICK d \in Callers : Owes(d, j, e)
    BY <1>1 DEF Accounted
<1>3. d # c
    BY <1>1, <1>2
<1>4. call'[d] = call[d]
    BY <1>3 DEF Safe, TypeOK
<1>5. Owes(d, j, e)'
    BY <1>2, <1>4 DEF Owes
<1> QED
    BY <1>5

\* A step that commits nothing, of a call that owes nothing.
LEMMA QuietStep ==
    ASSUME Safe, Accounted, NEW c \in Callers, NEW k \in CallRecord,
           call' = [call EXCEPT ![c] = k],
           call[c].pc \notin {"reread", "publish"},
           UNCHANGED <<recorded, due>>
    PROVE  Accounted'
BY AccountedStep DEF Owes

LEMMA StatementAccounted ==
    ASSUME Safe, Orderly, Accounted, NEW c \in Callers, Statement(c)
    PROVE  Accounted'
<1> DEFINE o == call[c]
<1>0. /\ Staged(o) /\ Fits(o, Row(c)) /\ o.job \in Jobs /\ o \in CallRecord
      /\ o.pc \in {"read", "write"} => o.patch \in UpdatePatches
      /\ recorded \in [Jobs -> SUBSET EventTypes] /\ due \in [Jobs -> SUBSET EventTypes]
    BY DEF Safe, TypeOK, CallRecord, UpdatesFit, Orderly
<1> HIDE DEF o
<1>1. ASSUME NEW pc \in PCs, NEW e \in {"created", "running", o.patch},
             UNCHANGED recorded,
             due' = [due EXCEPT ![o.job] = @ \cup {e}],
             o.pc \notin {"reread", "publish"},
             NEW k \in CallRecord, call' = [call EXCEPT ![c] = k],
             k.job = o.job, k.pc \in {"reread", "publish"}, Owed(k) = e
      PROVE  Accounted'
    <2>1. call'[c] = k
        BY <1>1 DEF Safe, TypeOK
    <2>2. \A j : j = o.job => Owes(c, j, e)'
        BY <1>1, <2>1 DEF Owes
    <2>3. ASSUME NEW j \in Jobs, NEW f \in due'[j] PROVE f \in due[j] \/ Owes(c, j, f)'
        <3>1. CASE j = o.job /\ f = e
            BY <2>2, <3>1
        <3>2. CASE ~(j = o.job /\ f = e)
            BY <1>0, <1>1, <2>3, <3>2
        <3> QED
            BY <3>1, <3>2
    <2>4. \A j \in Jobs : \A f \in due[j] : ~Owes(c, j, f)
        BY <1>1 DEF Owes, o
    <2> QED
        BY <1>0, <1>1, <2>3, <2>4, AccountedStep
<1>2. CASE Insert(c)
    <2>1. o.pc = "insert" /\ o.patch = "create" /\ UNCHANGED recorded
        BY <1>0, <1>2 DEF Insert, At, Staged, o, rows
    <2>2. CASE Row(c) = "absent"
        <3>1. PICK s \in JobStatus : GotoSeeing(c, "publish", s)
            BY <1>2, <2>2, JobsAssumption DEF Insert
        <3>2. PICK k \in CallRecord :
                /\ call' = [call EXCEPT ![c] = k]
                /\ k.pc = "publish" /\ k.job = o.job /\ k.patch = o.patch
            BY <3>1, GotoSeeingRecord DEF PCs, Safe, o
        <3>3. due' = [due EXCEPT ![o.job] = @ \cup {"created"}]
            BY <1>2, <2>2 DEF Insert, o
        <3>4. Owed(k) = "created"
            BY <2>1, <3>2 DEF Owed
        <3> QED
            BY <2>1, <3>2, <3>3, <3>4, <1>1 DEF PCs
    <2>3. CASE Row(c) # "absent"
        <3>1. Goto(c, "threw") /\ UNCHANGED due
            BY <1>2, <2>3 DEF Insert, rows
        <3>2. PICK k \in CallRecord : call' = [call EXCEPT ![c] = k]
            BY <3>1, GotoRecord DEF PCs, Safe
        <3> QED
            BY <2>1, <3>1, <3>2, QuietStep DEF o
    <2> QED
        BY <2>2, <2>3
<1>3. CASE Claim(c)
    <2>1. o.pc = "claim" /\ o.patch = "claim" /\ UNCHANGED recorded
        BY <1>0, <1>3 DEF Claim, At, Staged, o
    <2>2. CASE Row(c) = "queued"
        <3>1. PICK k \in CallRecord :
                /\ call' = [call EXCEPT ![c] = k]
                /\ k.pc = "reread" /\ k.job = o.job /\ k.patch = o.patch
            BY <1>3, <2>2, GotoRecord DEF Claim, PCs, Safe, o
        <3>2. due' = [due EXCEPT ![o.job] = @ \cup {"running"}]
            BY <1>3, <2>2 DEF Claim, o
        <3>3. Owed(k) = "running"
            BY <2>1, <3>1 DEF Owed
        <3> QED
            BY <2>1, <3>1, <3>2, <3>3, <1>1 DEF PCs
    <2>3. CASE Row(c) # "queued"
        <3>1. GotoSeeing(c, "returned", "null") /\ UNCHANGED due
            BY <1>3, <2>3 DEF Claim, rows
        <3>2. PICK k \in CallRecord : call' = [call EXCEPT ![c] = k]
            BY <3>1, GotoSeeingRecord DEF PCs, Safe
        <3> QED
            BY <2>1, <3>1, <3>2, QuietStep DEF o
    <2> QED
        BY <2>2, <2>3
<1>4. CASE Read(c)
    <2>0. Row(c) \in JobStatus \cup {"absent"}
        BY DEF Safe, TypeOK, CallRecord, Row
    <2>1. PICK pc \in {"returned", "publish", "write"}, s \in JobStatus \cup {"null"} :
            GotoSeeing(c, pc, s)
        BY <1>4, <2>0 DEF Read
    <2>2. PICK k \in CallRecord : call' = [call EXCEPT ![c] = k]
        BY <2>1, GotoSeeingRecord DEF Safe, PCs
    <2>3. call[c].pc = "read" /\ UNCHANGED <<recorded, due>>
        BY <1>4 DEF Read, At, rows
    <2> QED
        BY <2>2, <2>3, QuietStep
<1>5. CASE Write(c)
    <2>1. o.pc = "write" /\ UNCHANGED recorded
        BY <1>5 DEF Write, At, o
    <2>2. CASE Row(c) = call[c].seen
        <3>1. PICK k \in CallRecord :
                /\ call' = [call EXCEPT ![c] = k]
                /\ k.pc = "reread" /\ k.job = o.job /\ k.patch = o.patch
            BY <1>5, <2>2, GotoRecord DEF Write, PCs, Safe, o
        <3>2. due' = [due EXCEPT ![o.job] = @ \cup {o.patch}]
            BY <1>5, <2>2 DEF Write, o
        <3>3. Owed(k) = o.patch
            BY <1>0, <2>1, <3>1 DEF Owed, UpdatePatches, Terminal
        <3> QED
            BY <2>1, <3>1, <3>2, <3>3, <1>1 DEF PCs
    <2>3. CASE Row(c) # call[c].seen
        <3>1. GotoSeeing(c, "returned", "null") /\ UNCHANGED due
            BY <1>5, <2>3 DEF Write, rows
        <3>2. PICK k \in CallRecord : call' = [call EXCEPT ![c] = k]
            BY <3>1, GotoSeeingRecord DEF PCs, Safe
        <3> QED
            BY <2>1, <3>1, <3>2, QuietStep DEF o
    <2> QED
        BY <2>2, <2>3
<1>6. CASE Reread(c)
    <2>1. /\ GotoSeeing(c, "publish", Row(c)) /\ o.pc = "reread"
          /\ UNCHANGED <<recorded, due>> /\ Row(c) \in JobStatus
        BY <1>6 DEF Reread, At, rows, o, Safe, TypeOK, RereadFindsRow, Row, CallRecord
    <2>2. PICK k \in CallRecord :
            /\ call' = [call EXCEPT ![c] = k]
            /\ k.pc = "publish" /\ k.job = o.job /\ k.patch = o.patch /\ k.seen = Row(c)
        BY <2>1, GotoSeeingRecord DEF PCs, Safe, o
    <2>3. Owed(k) = Owed(o)
        <3>1. o.patch \in {"create", "claim", "progress"} \cup Terminal
            BY <1>0 DEF CallRecord, Patches
        <3> QED
            BY <1>0, <2>1, <2>2, <3>1 DEF Owed, Fits
    <2>4. call'[c] = k
        BY <2>2 DEF Safe, TypeOK
    <2>5. \A j \in Jobs : \A e \in due[j] : Owes(c, j, e) => Owes(c, j, e)'
        BY <2>2, <2>3, <2>4 DEF Owes, o
    <2> QED
        BY <2>1, <2>2, <2>5, AccountedStep
<1>7. CASE Publish(c)
    <2>1. /\ recorded' = [recorded EXCEPT ![o.job] = @ \cup {EventType(o)}] /\ o.pc = "publish"
          /\ UNCHANGED due
        BY <1>7 DEF Publish, At, rows, o
    <2>2. EventType(o) = Owed(o)
        BY <2>1 DEF EventType, Owed
    <2>3. PICK k \in CallRecord : call' = [call EXCEPT ![c] = k]
        BY <1>7, GotoRecord DEF Publish, PCs, Safe
    <2>4. \A j \in Jobs : \A e \in due[j] : Owes(c, j, e) => e \in recorded'[j]
        BY <1>0, <2>1, <2>2 DEF Owes, o
    <2>5. \A j \in Jobs : recorded[j] \subseteq recorded'[j]
        BY <1>0, <2>1
    <2> QED
        BY <2>1, <2>3, <2>4, <2>5, AccountedStep
<1> QED
    BY <1>2, <1>3, <1>4, <1>5, <1>6, <1>7 DEF Statement

LEMMA NextAccounted == ASSUME Answered PROVE Safe /\ Orderly /\ Accounted /\ [Next]_vars => Accounted'
<1> SUFFICES ASSUME Safe, Orderly, Accounted, [Next]_vars PROVE Accounted'
    OBVIOUS
<1>1. CASE UNCHANGED vars
    BY <1>1 DEF vars, Accounted, Owes
<1>2. CASE Next
    <2> SUFFICES ASSUME NEW c \in Callers,
                        (\E j \in Jobs : Begin(c, j)) \/ Statement(c) \/ Continue(c)
                 PROVE  Accounted'
        BY <1>2 DEF Next, StoreFails, Crash, Answered
    <2>1. CASE \E j \in Jobs : Begin(c, j)
        <3>1. PICK op \in Ops, j \in Jobs, pc \in PCs, p \in Patches : Start(c, op, j, pc, p)
            BY <2>1, JobsAssumption
            DEF Begin, BeginDispatch, BeginRun, BeginExecute, BeginCancel, BeginDirect,
                Ops, Executors, PCs, Patches, Terminal
        <3> DEFINE k == [op |-> op, job |-> j, pc |-> pc, patch |-> p, seen |-> "null"]
        <3>2. k \in CallRecord
            BY DEF CallRecord
        <3>3. call' = [call EXCEPT ![c] = k] /\ call[c].pc = "idle" /\ UNCHANGED <<recorded, due>>
            BY <3>1 DEF Start, At, rows
        <3> HIDE DEF k
        <3> QED
            BY <3>2, <3>3, QuietStep
    <2>2. CASE Continue(c)
        <3>1. /\ UNCHANGED <<recorded, due>>
              /\ call[c].pc \notin {"reread", "publish"}
            BY <2>2 DEF Continue, DispatchCreated, Launch,
                LaunchFails, RunCreated, ClaimLost, EnterCallback, Report, CallbackReturns,
                CallbackThrows, ExecutionSucceeds, ExecutionLost, ExecutionThrows, Rethrow, Reject,
                Answer, CancelOwned, Local, rows, At
        <3>2. \E k \in CallRecord : call' = [call EXCEPT ![c] = k]
            <4>1. CASE \E pc \in PCs : Goto(c, pc)
                BY <4>1, GotoRecord DEF Safe
            <4>2. CASE \E p \in Patches : Update(c, p)
                BY <4>2, UpdateRecord DEF Safe
            <4>3. CASE RunCreated(c)
                BY <4>3 DEF RunCreated, Safe, TypeOK, CallRecord, PCs, Patches
            <4> QED
                BY <2>2, <4>1, <4>2, <4>3
                DEF Continue, DispatchCreated, Launch,
                LaunchFails, ClaimLost, EnterCallback, Report, CallbackReturns,
                CallbackThrows, ExecutionSucceeds, ExecutionLost, ExecutionThrows, Rethrow, Reject,
                Answer, CancelOwned, Local, PCs, Patches, Terminal
        <3> QED
            BY <3>1, <3>2, QuietStep
    <2> QED
        BY <2>1, <2>2, StatementAccounted
<1> QED
    BY <1>1, <1>2

\* Once no call is in flight, every committed change of a row has its event row, also when
\* an event handler threw.
THEOREM LifecyclesRecorded == Answered /\ Spec => []LifecycleRecorded
<1> SUFFICES ASSUME Answered PROVE Spec => []LifecycleRecorded
    OBVIOUS
<1>1. Accounted => LifecycleRecorded
    BY DEF Accounted, Owes, LifecycleRecorded, Quiescent, Ended
<1>2. Init => Accounted
    BY DEF Init, Accounted
<1>3. Safe /\ Orderly /\ Accounted /\ [Next]_vars => Accounted'
    BY NextAccounted
<1>4. Safe /\ Orderly /\ [Next]_vars => Orderly'
    BY NextOrderly
<1> QED
    BY <1>1, <1>2, <1>3, <1>4, SafeAlways, InitOrderly, PTL DEF Spec

-----------------------------------------------------------------------------
(* The executors of Replies                                                 *)

\* Every step of the executors is a step of Jobs, or nothing to it.
LEMMA ReplyStep == [ReplyNext]_replyVars => [Next]_vars
<1> SUFFICES ASSUME ReplyNext PROVE [Next]_vars
    BY DEF replyVars
<1> SUFFICES ASSUME NEW c \in Callers,
                    \/ OwnStep(c)
                    \/ (\E j \in Jobs : BeginSome(c, j)) \/ StoreFails(c) \/ Crash(c)
             PROVE  [Next]_vars
    BY DEF ReplyNext
<1>1. CASE CallbackStep(c)
    <2>1. Report(c) \/ CallbackThrows(c) \/ CallbackReturns(c) \/ UNCHANGED vars
        BY <1>1 DEF CallbackStep, ReportPhase, LoadConversation, RequireCircuit, RequestProvider,
                    ReadAnswer, CheckSchema, AcceptReply, AppendReply, Resolves, GoesOn, Throws
    <2> QED
        BY <2>1 DEF Next, Continue
<1>2. CASE Statement(c) \/ Continue(c) \/ StoreFails(c) \/ Crash(c)
    BY <1>2 DEF Next
<1>3. CASE \E j \in Jobs : BeginSome(c, j)
    BY <1>3 DEF BeginSome, Begin, Next
<1> QED
    BY <1>1, <1>2, <1>3 DEF OwnStep

-----------------------------------------------------------------------------
(* Who holds the claim *)

\* What a record says of its call's claim: an execution past it holds it.
Doer(k, holds) ==
    /\ k.pc = "insert" => k.patch = "create"
    /\ k.pc = "claim" => k.patch = "claim"
    /\ k.pc = "reread" => k.patch # "create"
    /\ k.pc = "callback" => k.op \in Executors /\ k.patch \in {"claim", "progress"}
    /\ k.op \in Executors /\ Committed(k) => holds

Doers == \A c \in Callers : Doer(call[c], c \in claimed[call[c].job])

LEMMA InitDoers == Init => Doers
<1> SUFFICES ASSUME Init, NEW c \in Callers PROVE Doer(call[c], c \in claimed[call[c].job])
    BY DEF Doers
<1>1. call[c].op = "direct" /\ call[c].pc = "idle"
    BY DEF Init
<1> QED
    BY <1>1 DEF Doer, Executors

LEMMA DoerStep ==
    ASSUME TypeOK, Doers, NEW c \in Callers, NEW k \in CallRecord,
           call' = [call EXCEPT ![c] = k],
           \A j \in Jobs : claimed[j] \subseteq claimed'[j],
           Doer(k, c \in claimed'[k.job])
    PROVE  Doers'
<1> SUFFICES ASSUME NEW d \in Callers PROVE Doer(call'[d], d \in claimed'[call'[d].job])
    BY DEF Doers
<1>1. CASE d = c
    BY <1>1 DEF TypeOK
<1>2. CASE d # c
    <2>1. call'[d] = call[d] /\ call[d].job \in Jobs
        BY <1>2 DEF TypeOK, CallRecord
    <2>2. d \in claimed[call[d].job] => d \in claimed'[call'[d].job]
        BY <2>1
    <2>3. Doer(call[d], d \in claimed[call[d].job])
        BY DEF Doers
    <2> QED
        BY <2>1, <2>2, <2>3 DEF Doer
<1> QED
    BY <1>1, <1>2

LEMMA NextDoers == Safe /\ Doers /\ [Next]_vars => Doers'
<1> SUFFICES ASSUME Safe, Doers, [Next]_vars PROVE Doers'
    OBVIOUS
<1>1. CASE UNCHANGED vars
    BY <1>1 DEF vars, Doers
<1> SUFFICES ASSUME NEW c \in Callers,
                    \/ \E j \in Jobs : Begin(c, j)
                    \/ Statement(c) \/ Continue(c) \/ StoreFails(c) \/ Crash(c)
             PROVE  Doers'
    BY <1>1 DEF Next
<1> DEFINE o == call[c]
<1>0. /\ TypeOK /\ o \in CallRecord /\ o.job \in Jobs /\ Doer(o, c \in claimed[o.job])
      /\ o.pc \in {"read", "write"} => o.patch \in UpdatePatches
    BY DEF Safe, TypeOK, CallRecord, Doers, UpdatesFit
<1> HIDE DEF o
\* c moves on to pc, having read s, and nobody's claim is lost.
<1>2. ASSUME NEW k \in CallRecord, call' = [call EXCEPT ![c] = k],
             k.job = o.job, k.op = o.op, UNCHANGED claimed,
             Doer(k, c \in claimed[o.job])
      PROVE  Doers'
    BY <1>0, <1>2, DoerStep
<1>3. ASSUME NEW pc \in PCs \ {"insert", "claim", "reread"}, Goto(c, pc), UNCHANGED claimed,
             pc = "callback" => o.op \in Executors /\ o.patch \in {"claim", "progress"} /\ Committed(o),
             pc = "publish" => Committed(o) \/ o.op \notin Executors \/ o.patch = "create",
             pc = "returned" => Committed(o) \/ o.op \notin Executors \/ o.patch = "create"
      PROVE  Doers'
    <2>1. PICK k \in CallRecord :
            /\ call' = [call EXCEPT ![c] = k]
            /\ k.pc = pc /\ k.op = o.op /\ k.job = o.job /\ k.patch = o.patch
        BY <1>0, <1>3, GotoRecord DEF o
    <2>2. Doer(k, c \in claimed[o.job])
        BY <1>0, <1>3, <2>1 DEF Doer, Committed, Executors
    <2> QED
        BY <1>2, <1>3, <2>1, <2>2
<1>4. ASSUME NEW pc \in {"returned", "publish", "write"}, NEW s \in JobStatus \cup {"null"},
             GotoSeeing(c, pc, s), UNCHANGED claimed,
             \/ Committed(o) \/ o.op \notin Executors \/ o.patch = "create"
             \/ pc = "returned" /\ s = "null"
      PROVE  Doers'
    <2>1. PICK k \in CallRecord :
            /\ call' = [call EXCEPT ![c] = k]
            /\ k.pc = pc /\ k.op = o.op /\ k.job = o.job /\ k.patch = o.patch /\ k.seen = s
        BY <1>0, <1>4, GotoSeeingRecord DEF PCs, o
    <2>2. Doer(k, c \in claimed[o.job])
        BY <1>0, <1>4, <2>1 DEF Doer, Committed, Executors
    <2> QED
        BY <1>2, <1>4, <2>1, <2>2
<1>5. ASSUME NEW p \in {"progress", "succeeded", "failed"}, Update(c, p), UNCHANGED claimed,
             Committed(o) \/ o.op \notin Executors
      PROVE  Doers'
    <2>1. PICK k \in CallRecord :
            /\ call' = [call EXCEPT ![c] = k]
            /\ k.pc = "read" /\ k.op = o.op /\ k.job = o.job /\ k.patch = p
        BY <1>0, <1>5, UpdateRecord DEF Patches, Terminal, o
    <2>2. Doer(k, c \in claimed[o.job])
        BY <1>0, <1>5, <2>1 DEF Doer, Committed, Executors
    <2> QED
        BY <1>2, <1>5, <2>1, <2>2
<1>6. ASSUME NEW j \in Jobs, Begin(c, j) PROVE Doers'
    <2>1. PICK op \in Ops, pc \in {"insert", "claim", "owned", "read"}, p \in Patches :
            /\ Start(c, op, j, pc, p)
            /\ pc = "insert" => p = "create"
            /\ pc = "claim" => p = "claim"
            /\ op \in Executors => pc \in {"insert", "claim"}
        BY <1>6, JobsAssumption
        DEF Begin, BeginDispatch, BeginRun, BeginExecute, BeginCancel, BeginDirect,
            Ops, Executors, Patches, Terminal
    <2> DEFINE k == [op |-> op, job |-> j, pc |-> pc, patch |-> p, seen |-> "null"]
    <2>2. k \in CallRecord /\ call' = [call EXCEPT ![c] = k] /\ UNCHANGED claimed
        BY <2>1 DEF Start, CallRecord, PCs, rows
    <2>3. k.op = op /\ k.pc = pc /\ k.patch = p /\ k.job = j
        OBVIOUS
    <2> HIDE DEF k
    <2>4. Doer(k, c \in claimed[j])
        BY <2>1, <2>3 DEF Doer, Committed, Executors
    <2> QED
        BY <1>0, <2>2, <2>3, <2>4, DoerStep
<1>7. CASE Insert(c)
    <2>1. o.pc = "insert" /\ o.patch = "create" /\ UNCHANGED claimed
        BY <1>0, <1>7 DEF Insert, At, Doer, rows, o
    <2>2. Goto(c, "threw") \/ \E s \in InitialStatuses : GotoSeeing(c, "publish", s)
        BY <1>7 DEF Insert
    <2> QED
        BY <2>1, <2>2, <1>3, <1>4, JobsAssumption DEF PCs
<1>8. CASE Claim(c)
    <2>1. o.pc = "claim" /\ o.patch = "claim"
        BY <1>0, <1>8 DEF Claim, At, Doer, o
    <2>2. CASE GotoSeeing(c, "returned", "null") /\ UNCHANGED claimed
        BY <2>2, <1>4
    <2>3. CASE claimed' = [claimed EXCEPT ![call[c].job] = @ \cup {c}] /\ Goto(c, "reread")
        <3>1. PICK k \in CallRecord :
                /\ call' = [call EXCEPT ![c] = k]
                /\ k.pc = "reread" /\ k.op = o.op /\ k.job = o.job /\ k.patch = o.patch
            BY <1>0, <2>3, GotoRecord DEF PCs, o
        <3>2. c \in claimed'[k.job] /\ \A j \in Jobs : claimed[j] \subseteq claimed'[j]
            BY <1>0, <2>3, <3>1 DEF TypeOK, o
        <3>3. Doer(k, c \in claimed'[k.job])
            BY <2>1, <3>1, <3>2 DEF Doer
        <3> QED
            BY <1>0, <3>1, <3>2, <3>3, DoerStep
    <2> QED
        BY <1>8, <2>2, <2>3 DEF Claim, rows
<1>9. CASE Read(c)
    <2>1. UNCHANGED claimed /\ (Committed(o) \/ o.op \notin Executors)
        BY <1>0, <1>9 DEF Read, At, rows, o, Committed, UpdatePatches, Terminal
    <2>2. Row(c) \in JobStatus \cup {"absent"}
        BY <1>0 DEF TypeOK, Row, o
    <2>3. PICK pc \in {"returned", "publish", "write"}, s \in JobStatus \cup {"null"} : GotoSeeing(c, pc, s)
        BY <1>9, <2>2 DEF Read
    <2> QED
        BY <2>1, <2>3, <1>4
<1>10. CASE Write(c)
    <2>1. UNCHANGED claimed /\ (Committed(o) \/ o.op \notin Executors) /\ o.patch # "create"
        BY <1>0, <1>10 DEF Write, At, rows, o, Committed, UpdatePatches, Terminal
    <2>2. CASE GotoSeeing(c, "returned", "null")
        BY <2>1, <2>2, <1>4
    <2>3. CASE Goto(c, "reread")
        <3>1. PICK k \in CallRecord :
                /\ call' = [call EXCEPT ![c] = k]
                /\ k.pc = "reread" /\ k.op = o.op /\ k.job = o.job /\ k.patch = o.patch
            BY <1>0, <2>3, GotoRecord DEF PCs, o
        <3>2. Doer(k, c \in claimed[o.job])
            BY <1>0, <2>1, <3>1 DEF Doer, Committed, Executors
        <3> QED
            BY <2>1, <3>1, <3>2, <1>2
    <2> QED
        BY <1>10, <2>2, <2>3 DEF Write
<1>11. CASE Reread(c)
    <2>1. UNCHANGED claimed /\ (Committed(o) \/ o.op \notin Executors) /\ GotoSeeing(c, "publish", Row(c))
        BY <1>0, <1>11 DEF Reread, At, rows, o, Committed, Doer
    <2>2. Row(c) \in JobStatus
        BY <1>11 DEF Reread, Safe, TypeOK, RereadFindsRow, Row, CallRecord
    <2> QED
        BY <2>1, <2>2, <1>4
<1>12. CASE Publish(c)
    <2>1. UNCHANGED claimed /\ (Committed(o) \/ o.op \notin Executors \/ o.patch = "create")
        BY <1>12 DEF Publish, At, rows, o, Committed
    <2>2. Goto(c, "returned") \/ Goto(c, "threw")
        BY <1>12 DEF Publish
    <2> QED
        BY <2>1, <2>2, <1>3 DEF PCs
<1>13. CASE StoreFails(c) \/ Crash(c)
    <2>1. UNCHANGED claimed /\ (Goto(c, "threw") \/ Goto(c, "crashed"))
        BY <1>13 DEF StoreFails, Crash, rows
    <2> QED
        BY <2>1, <1>3 DEF PCs
<1>14. CASE RunCreated(c)
    <2> DEFINE k == [o EXCEPT !.pc = "claim", !.patch = "claim"]
    <2>1. k \in CallRecord /\ call' = [call EXCEPT ![c] = k] /\ UNCHANGED claimed
        BY <1>0, <1>14 DEF RunCreated, CallRecord, PCs, Patches, o, rows
    <2>2. k.pc = "claim" /\ k.patch = "claim" /\ k.op = o.op /\ k.job = o.job
        BY <1>0 DEF CallRecord
    <2>3. o.op = "run"
        BY <1>14 DEF RunCreated, Is, o
    <2> HIDE DEF k
    <2>4. Doer(k, c \in claimed[o.job])
        BY <2>2, <2>3 DEF Doer, Committed, Executors
    <2> QED
        BY <2>1, <2>2, <2>4, <1>2
<1>15. CASE EnterCallback(c)
    <2>1. /\ Goto(c, "callback") /\ o.op \in Executors /\ o.pc = "returned" /\ UNCHANGED claimed
          /\ (o.patch = "claim" /\ o.seen # "null") \/ o.patch = "progress"
        BY <1>15 DEF EnterCallback, Local, Is, At, o, rows
    <2> QED
        BY <2>1, <1>3 DEF PCs, Committed
<1>16. CASE Report(c) \/ CallbackReturns(c) \/ CallbackThrows(c)
    <2>1. /\ o.pc = "callback" /\ UNCHANGED claimed
          /\ \E p \in {"progress", "succeeded", "failed"} : Update(c, p)
        BY <1>16 DEF Report, CallbackReturns, CallbackThrows, At, o, rows
    <2> QED
        BY <1>0, <2>1, <1>5 DEF Doer, Committed
<1>17. CASE LaunchFails(c)
    <2>1. Update(c, "failed") /\ o.op \notin Executors /\ UNCHANGED claimed
        BY <1>17 DEF LaunchFails, Is, Executors, o, rows
    <2> QED
        BY <2>1, <1>5
<1>18. CASE ExecutionLost(c) \/ ExecutionThrows(c)
    <2>1. Update(c, "failed") /\ Committed(o) /\ UNCHANGED claimed
        BY <1>18 DEF ExecutionLost, ExecutionThrows, Is, o, rows, Committed
    <2> QED
        BY <2>1, <1>5
<1>19. CASE DispatchCreated(c) \/ Launch(c) \/ ClaimLost(c) \/ ExecutionSucceeds(c) \/ Rethrow(c)
            \/ Reject(c) \/ Answer(c) \/ CancelOwned(c)
    <2>1. UNCHANGED claimed /\ \E pc \in {"launch", "resolved", "rejected", "read"} : Goto(c, pc)
        BY <1>19 DEF DispatchCreated, Launch, ClaimLost, ExecutionSucceeds, Rethrow, Reject, Answer,
                     CancelOwned, Local, rows
    <2> QED
        BY <2>1, <1>3 DEF PCs
<1> QED
    BY <1>6, <1>7, <1>8, <1>9, <1>10, <1>11, <1>12, <1>13, <1>14, <1>15, <1>16, <1>17, <1>18, <1>19
    DEF Statement, Continue

-----------------------------------------------------------------------------
(* The callbacks' progress *)

Young == {"create", "claim", "progress"}

\* A call keeps its function and its job, and an execution that is completed or failed
\* never enters its callback again.
LEMMA CallsGoOn ==
    ASSUME Safe, Doers, [Next]_vars, NEW c \in Callers
    PROVE  /\ \A j \in Jobs : claimed[j] \subseteq claimed'[j]
           /\ call'[c] = call[c] \/ call'[c].pc # "idle"
           /\ call[c].pc # "idle" =>
                /\ call'[c].op = call[c].op /\ call'[c].job = call[c].job
                /\ call'[c].patch \in Young => call[c].patch \in Young
                /\ call[c].patch = "failed" => call'[c].patch = "failed"
<1> DEFINE G(k) ==
        /\ k = call[c] \/ k.pc # "idle"
        /\ call[c].pc # "idle" =>
             /\ k.op = call[c].op /\ k.job = call[c].job
             /\ k.patch \in Young => call[c].patch \in Young
             /\ call[c].patch = "failed" => k.patch = "failed"
<1> SUFFICES G(call'[c]) /\ \A j \in Jobs : claimed[j] \subseteq claimed'[j]
    OBVIOUS
<1>1. CASE UNCHANGED vars
    BY <1>1 DEF vars
<1>2. ASSUME NEW d \in Callers,
             \/ \E j \in Jobs : Begin(d, j)
             \/ Statement(d) \/ Continue(d) \/ StoreFails(d) \/ Crash(d)
      PROVE  G(call'[c]) /\ \A j \in Jobs : claimed[j] \subseteq claimed'[j]
    <2>0. TypeOK /\ call[d] \in CallRecord
        BY DEF Safe, TypeOK
    <2>1. ASSUME NEW k \in CallRecord, call' = [call EXCEPT ![d] = k], k.pc # "idle",
                 call[d].pc # "idle" =>
                   /\ k.op = call[d].op /\ k.job = call[d].job
                   /\ k.patch \in Young => call[d].patch \in Young
                   /\ call[d].patch = "failed" => k.patch = "failed"
          PROVE  G(call'[c])
        <3>1. CASE d = c
            BY <2>0, <2>1, <3>1 DEF TypeOK
        <3>2. CASE d # c
            BY <2>0, <2>1, <3>2 DEF TypeOK
        <3> QED
            BY <3>1, <3>2
    <2>2. ASSUME NEW pc \in PCs \ {"idle"}, Goto(d, pc) PROVE G(call'[c])
        <3>1. PICK k \in CallRecord :
                /\ call' = [call EXCEPT ![d] = k]
                /\ k.pc = pc /\ k.op = call[d].op /\ k.job = call[d].job /\ k.patch = call[d].patch
            BY <2>0, <2>2, GotoRecord
        <3> QED
            BY <2>1, <3>1
    <2>3. ASSUME NEW pc \in PCs \ {"idle"}, NEW s \in JobStatus \cup {"null"}, GotoSeeing(d, pc, s)
          PROVE  G(call'[c])
        <3>1. PICK k \in CallRecord :
                /\ call' = [call EXCEPT ![d] = k]
                /\ k.pc = pc /\ k.op = call[d].op /\ k.job = call[d].job /\ k.patch = call[d].patch
            BY <2>0, <2>3, GotoSeeingRecord
        <3> QED
            BY <2>1, <3>1
    <2>4. ASSUME NEW p \in Patches, Update(d, p), p \in Young => call[d].patch \in Young,
                 call[d].patch = "failed" => p = "failed", call[d].pc # "idle"
          PROVE  G(call'[c])
        <3>1. PICK k \in CallRecord :
                /\ call' = [call EXCEPT ![d] = k]
                /\ k.pc = "read" /\ k.op = call[d].op /\ k.job = call[d].job /\ k.patch = p
            BY <2>0, <2>4, UpdateRecord
        <3> QED
            BY <2>1, <2>4, <3>1
    <2>5. CASE \E j \in Jobs : Begin(d, j)
        <3>1. PICK j \in Jobs, op \in Ops, pc \in {"insert", "claim", "owned", "read"}, p \in Patches :
                Start(d, op, j, pc, p)
            BY <2>5, JobsAssumption
            DEF Begin, BeginDispatch, BeginRun, BeginExecute, BeginCancel, BeginDirect,
                Ops, Executors, Patches, Terminal
        <3> DEFINE k == [op |-> op, job |-> j, pc |-> pc, patch |-> p, seen |-> "null"]
        <3>2. /\ k \in CallRecord /\ call' = [call EXCEPT ![d] = k] /\ k.pc # "idle"
              /\ call[d].pc = "idle" /\ UNCHANGED claimed
            BY <3>1 DEF Start, CallRecord, PCs, rows, At
        <3> HIDE DEF k
        <3> QED
            BY <2>1, <3>2
    <2>6. CASE Insert(d)
        <3>1. UNCHANGED claimed /\ (Goto(d, "threw") \/ \E s \in InitialStatuses : GotoSeeing(d, "publish", s))
            BY <2>6 DEF Insert, rows
        <3> QED
            BY <3>1, <2>2, <2>3, JobsAssumption DEF PCs
    <2>7. CASE Claim(d)
        <3>1. \A j \in Jobs : claimed[j] \subseteq claimed'[j]
            BY <2>0, <2>7 DEF Claim, rows, TypeOK, CallRecord
        <3>2. GotoSeeing(d, "returned", "null") \/ Goto(d, "reread")
            BY <2>7 DEF Claim
        <3> QED
            BY <3>1, <3>2, <2>2, <2>3 DEF PCs
    <2>8. CASE Read(d)
        <3>1. UNCHANGED claimed
            BY <2>8 DEF Read, rows
        <3>2. Row(d) \in JobStatus \cup {"absent"}
            BY <2>0 DEF TypeOK, CallRecord, Row
        <3>3. PICK pc \in {"returned", "publish", "write"}, s \in JobStatus \cup {"null"} : GotoSeeing(d, pc, s)
            BY <2>8, <3>2 DEF Read
        <3> QED
            BY <3>1, <3>3, <2>3 DEF PCs
    <2>9. CASE Write(d)
        <3>1. UNCHANGED claimed /\ (GotoSeeing(d, "returned", "null") \/ Goto(d, "reread"))
            BY <2>9 DEF Write, rows
        <3> QED
            BY <3>1, <2>2, <2>3 DEF PCs
    <2>10. CASE Reread(d)
        <3>1. UNCHANGED claimed /\ GotoSeeing(d, "publish", Row(d))
            BY <2>10 DEF Reread, rows
        <3>2. Row(d) \in JobStatus
            BY <2>10, <2>0 DEF Reread, Safe, TypeOK, RereadFindsRow, Row, CallRecord
        <3> QED
            BY <3>1, <3>2, <2>3 DEF PCs
    <2>11. CASE Publish(d) \/ StoreFails(d) \/ Crash(d)
        <3>1. UNCHANGED claimed /\ \E pc \in {"returned", "threw", "crashed"} : Goto(d, pc)
            BY <2>11 DEF Publish, StoreFails, Crash, rows
        <3> QED
            BY <3>1, <2>2 DEF PCs
    <2>12. CASE RunCreated(d)
        <3> DEFINE k == [call[d] EXCEPT !.pc = "claim", !.patch = "claim"]
        <3>1. k \in CallRecord /\ call' = [call EXCEPT ![d] = k] /\ UNCHANGED claimed
            BY <2>0, <2>12 DEF RunCreated, CallRecord, PCs, Patches, rows
        <3>2. k.pc = "claim" /\ k.op = call[d].op /\ k.job = call[d].job
            BY <2>0 DEF CallRecord
        <3>3. call[d].patch = "create"
            BY <2>12 DEF RunCreated, Is
        <3> HIDE DEF k
        <3> QED
            BY <3>1, <3>2, <3>3, <2>1 DEF Young
    <2>13. CASE Report(d)
        <3>1. Update(d, "progress") /\ At(d, "callback") /\ UNCHANGED claimed
            BY <2>13 DEF Report, rows
        <3>2. call[d].patch \in Young /\ call[d].patch # "failed" /\ call[d].pc # "idle"
            BY <3>1 DEF Doers, Doer, At, Young
        <3> QED
            BY <3>1, <3>2, <2>4 DEF Patches
    <2>14. CASE CallbackThrows(d) \/ LaunchFails(d) \/ ExecutionLost(d) \/ ExecutionThrows(d)
        <3>1. UNCHANGED claimed /\ Update(d, "failed") /\ call[d].pc # "idle"
            BY <2>14 DEF CallbackThrows, LaunchFails, ExecutionLost, ExecutionThrows, rows, At
        <3> QED
            BY <3>1, <2>4 DEF Young, Patches, Terminal
    <2>16. CASE CallbackReturns(d)
        <3>1. UNCHANGED claimed /\ Update(d, "succeeded") /\ At(d, "callback")
            BY <2>16 DEF CallbackReturns, rows
        <3>2. call[d].patch # "failed" /\ call[d].pc # "idle"
            BY <3>1 DEF Doers, Doer, At
        <3> QED
            BY <3>1, <3>2, <2>4 DEF Young, Patches, Terminal
    <2>15. CASE DispatchCreated(d) \/ Launch(d) \/ ClaimLost(d) \/ EnterCallback(d)
                \/ ExecutionSucceeds(d) \/ Rethrow(d) \/ Reject(d) \/ Answer(d) \/ CancelOwned(d)
        <3>1. UNCHANGED claimed
              /\ \E pc \in {"launch", "resolved", "rejected", "read", "callback"} : Goto(d, pc)
            BY <2>15 DEF DispatchCreated, Launch, ClaimLost, EnterCallback, ExecutionSucceeds, Rethrow,
                         Reject, Answer, CancelOwned, Local, rows
        <3> QED
            BY <3>1, <2>2 DEF PCs
    <2> QED
        BY <1>2, <2>5, <2>6, <2>7, <2>8, <2>9, <2>10, <2>11, <2>12, <2>13, <2>14, <2>15, <2>16
        DEF Statement, Continue
<1> QED
    BY <1>1, <1>2 DEF Next

Progress == [step : 1 .. 11, asked : Nat, reply : {"none", "stored", "sent"}]

\* How far the callback of a call whose record is k, for a job of kind q, can have come:
\* before the provider's answer it asked once less, and only the call that holds the
\* claim has begun.
Paced(k, w, q, holds) ==
    /\ w # Untouched => k.pc # "idle" /\ k.op \in Executors /\ holds
    /\ w.asked <= 2
    /\ k.patch \in Young /\ w.step <= AskStep(q) => w.asked <= 1

Working ==
    /\ ReplyTypeOK
    /\ \A c \in Callers : Paced(call[c], work[c], kind[call[c].job], c \in claimed[call[c].job])

\* The next step of a callback that has not finished.
LEMMA LaterStep ==
    ASSUME NEW w \in Progress, w.step <= 10
    PROVE  /\ Later(w) \in Progress /\ Later(w).step = w.step + 1
           /\ Later(w).asked = w.asked /\ Later(w).reply = w.reply
<1>1. w.step \in 1 .. 11 /\ w.step + 1 \in 1 .. 11
    BY DEF Progress
<1>2. Later(w) = [w EXCEPT !.step = w.step + 1]
    BY DEF Later
<1> QED
    BY <1>1, <1>2 DEF Progress

LEMMA InitWorking == ReplyInit => Working
<1> SUFFICES ASSUME ReplyInit PROVE Working
    OBVIOUS
<1>1. Untouched \in Progress
    BY DEF Untouched, Progress
<1>2. ReplyTypeOK
    BY <1>1 DEF ReplyInit, ReplyTypeOK, Progress
<1>3. ASSUME NEW c \in Callers
      PROVE  Paced(call[c], work[c], kind[call[c].job], c \in claimed[call[c].job])
    <2>1. work[c] = Untouched /\ Untouched.asked = 0
        BY DEF ReplyInit, Untouched
    <2> QED
        BY <2>1 DEF Paced
<1> QED
    BY <1>2, <1>3 DEF Working

\* A step that leaves the callbacks alone.
LEMMA IdleStep ==
    ASSUME Safe, Doers, Working, [Next]_vars, UNCHANGED <<kind, work>>
    PROVE  Working'
<1>1. ReplyTypeOK'
    BY DEF Working, ReplyTypeOK
<1> SUFFICES ASSUME NEW c \in Callers
             PROVE  Paced(call'[c], work[c], kind[call'[c].job], c \in claimed'[call'[c].job])
    BY <1>1 DEF Working
<1>2. Paced(call[c], work[c], kind[call[c].job], c \in claimed[call[c].job]) /\ call[c].job \in Jobs
    BY DEF Working, Safe, TypeOK, CallRecord
<1>3. CASE call[c].pc = "idle"
    <2>1. work[c] = Untouched /\ Untouched.asked = 0
        BY <1>2, <1>3 DEF Paced, Untouched
    <2> QED
        BY <2>1 DEF Paced
<1>4. CASE call[c].pc # "idle"
    <2>1. /\ call'[c].op = call[c].op /\ call'[c].job = call[c].job /\ call'[c].pc # "idle"
          /\ call'[c].patch \in Young => call[c].patch \in Young
          /\ claimed[call[c].job] \subseteq claimed'[call[c].job]
        BY <1>2, <1>4, CallsGoOn
    <2> QED
        BY <1>2, <2>1 DEF Paced
<1> QED
    BY <1>3, <1>4

\* A step of the callback of c, after which it has come as far as w.
LEMMA WorkStep ==
    ASSUME Safe, Doers, Working, [Next]_vars, NEW c \in Callers, At(c, "callback"),
           NEW w \in Progress, work' = [work EXCEPT ![c] = w], UNCHANGED kind,
           w.asked <= 2,
           call'[c].patch \in Young /\ w.step <= AskStep(KindOf(c)) => w.asked <= 1
    PROVE  Working'
<1>1. ReplyTypeOK'
    BY DEF Working, ReplyTypeOK, Progress
<1>2. /\ call[c].job \in Jobs /\ call[c].op \in Executors /\ c \in claimed[call[c].job]
      /\ call[c].pc # "idle"
    BY DEF Doers, Doer, Committed, At, Safe, TypeOK, CallRecord, Executors
<1> SUFFICES ASSUME NEW d \in Callers
             PROVE  Paced(call'[d], work'[d], kind[call'[d].job], d \in claimed'[call'[d].job])
    BY <1>1 DEF Working
<1>3. CASE d = c
    <2>1. /\ call'[c].op = call[c].op /\ call'[c].job = call[c].job /\ call'[c].pc # "idle"
          /\ claimed[call[c].job] \subseteq claimed'[call[c].job]
        BY <1>2, CallsGoOn
    <2>2. work'[d] = w
        BY <1>3 DEF Working, ReplyTypeOK
    <2> QED
        BY <1>2, <1>3, <2>1, <2>2 DEF Paced, KindOf
<1>4. CASE d # c
    <2>1. work'[d] = work[d]
        BY <1>4 DEF Working, ReplyTypeOK
    <2>2. Paced(call[d], work[d], kind[call[d].job], d \in claimed[call[d].job]) /\ call[d].job \in Jobs
        BY DEF Working, Safe, TypeOK, CallRecord
    <2>3. CASE call[d].pc = "idle"
        <3>1. work[d] = Untouched /\ Untouched.asked = 0
            BY <2>2, <2>3 DEF Paced, Untouched
        <3> QED
            BY <2>1, <3>1 DEF Paced
    <2>4. CASE call[d].pc # "idle"
        <3>1. /\ call'[d].op = call[d].op /\ call'[d].job = call[d].job /\ call'[d].pc # "idle"
              /\ call'[d].patch \in Young => call[d].patch \in Young
              /\ claimed[call[d].job] \subseteq claimed'[call[d].job]
            BY <2>2, <2>4, CallsGoOn
        <3> QED
            BY <2>1, <2>2, <3>1 DEF Paced
    <2> QED
        BY <2>3, <2>4
<1> QED
    BY <1>3, <1>4

LEMMA NextWorking == Safe /\ Doers /\ Working /\ [ReplyNext]_replyVars => Working'
<1> SUFFICES ASSUME Safe, Doers, Working, [ReplyNext]_replyVars PROVE Working'
    OBVIOUS
<1>0. [Next]_vars
    BY ReplyStep DEF replyVars
<1>1. CASE UNCHANGED <<kind, work>>
    BY <1>0, <1>1, IdleStep
<1>2. ASSUME NEW c \in Callers, CallbackStep(c), ~UNCHANGED <<kind, work>> PROVE Working'
    <2> DEFINE w == work[c]
    <2> DEFINE q == KindOf(c)
    <2>1. /\ w \in Progress /\ q \in Kinds /\ w.step \in 1 .. 11 /\ w.asked \in Nat
          /\ Paced(call[c], w, q, c \in claimed[call[c].job])
        BY DEF Working, ReplyTypeOK, Progress, KindOf, Safe, TypeOK, CallRecord
    <2>2. Len(Plan("reply")) = 10 /\ Len(Plan("generation")) = 6
        BY DEF Plan
    <2>3. At(c, "callback") /\ UNCHANGED kind
        BY <1>2 DEF CallbackStep, ReportPhase, LoadConversation, RequireCircuit, RequestProvider, ReadAnswer,
                    CheckSchema, AcceptReply, AppendReply, Resolves, Doing, CallbackReturns, GoesOn, Throws
    <2>4. call[c].patch \in Young
        BY <2>3 DEF Doers, Doer, At, Young
    <2>5. ASSUME ~Finished(c)
          PROVE  /\ w.step <= 10 /\ Later(w) \in Progress /\ Later(w).step = w.step + 1
                 /\ Later(w).asked = w.asked
        <3> DEFINE n == Len(Plan(q))
        <3> DEFINE m == w.step
        <3>1. n = 6 \/ n = 10
            BY <2>1, <2>2 DEF Kinds
        <3>2. m \in 1 .. 11 /\ ~(m > n)
            BY <2>1, <2>5 DEF Finished
        <3> HIDE DEF n, m
        <3>3. m <= 10
            BY <3>1, <3>2
        <3> QED
            BY <2>1, <3>3, LaterStep DEF m
    <2> HIDE DEF w
    \* The callback goes on, having asked no more than before.
    <2>6. ASSUME NEW v \in Progress, v.asked = w.asked, v.step >= w.step, work' = [work EXCEPT ![c] = v]
          PROVE  Working'
        <3>1. v.step <= AskStep(q) => w.step <= AskStep(q)
            BY <2>1, <2>6 DEF Progress, AskStep
        <3> QED
            BY <1>0, <2>1, <2>3, <2>4, <2>6, <3>1, WorkStep DEF Paced
    \* The callback throws.
    <2>7. ASSUME NEW v \in Progress, v.asked <= 2, Throws(c, v) PROVE Working'
        <3>1. Update(c, "failed") /\ work' = [work EXCEPT ![c] = v]
            BY <2>7 DEF Throws, CallbackThrows
        <3>2. PICK k \in CallRecord : call' = [call EXCEPT ![c] = k] /\ k.patch = "failed"
            BY <3>1, UpdateRecord DEF Safe, Patches, Terminal
        <3>3. call'[c].patch \notin Young
            BY <3>2 DEF Safe, TypeOK, Young
        <3> QED
            BY <1>0, <2>3, <2>7, <3>1, <3>3, WorkStep
    <2>8. w.asked <= 2
        BY <2>1 DEF Paced
    <2>9. ASSUME ~Finished(c), GoesOn(c) \/ Throws(c, w) \/ work' = [work EXCEPT ![c] = Later(w)] PROVE Working'
        <3>1. Later(w) \in Progress /\ Later(w).asked = w.asked /\ Later(w).step >= w.step
            BY <2>1, <2>5, <2>9
        <3> QED
            BY <2>1, <2>6, <2>7, <2>8, <2>9, <3>1 DEF GoesOn, w
    <2>10. CASE ReportPhase(c) \/ LoadConversation(c) \/ RequireCircuit(c) \/ ReadAnswer(c) \/ AcceptReply(c)
        BY <2>9, <2>10 DEF ReportPhase, LoadConversation, RequireCircuit, ReadAnswer, AcceptReply, Doing, w
    <2>11. CASE RequestProvider(c)
        <3>1. ~Finished(c) /\ Plan(q)[w.step] = "ask"
            BY <2>11 DEF RequestProvider, Doing, w
        <3>2. w.step = AskStep(q)
            BY <2>1, <2>2, <3>1 DEF Plan, AskStep, Kinds, Finished, w
        <3>3. w.asked <= 1
            BY <2>1, <2>4, <3>2 DEF Paced, AskStep
        <3>4. Asked(w) \in Progress /\ Asked(w).asked <= 2 /\ Asked(w).step = w.step
            BY <2>1, <3>3 DEF Asked, Progress
        <3>5. /\ Later(Asked(w)) \in Progress /\ Later(Asked(w)).asked <= 2
              /\ Later(Asked(w)).step > AskStep(q)
            BY <2>1, <2>5, <3>1, <3>2, <3>4, LaterStep DEF AskStep
        <3>6. CASE work' = [work EXCEPT ![c] = Later(Asked(w))]
            <4>1. ~(Later(Asked(w)).step <= AskStep(q))
                BY <3>5 DEF Progress, AskStep
            <4> QED
                BY <1>0, <2>3, <3>5, <3>6, <4>1, WorkStep
        <3>7. CASE \E v \in {w, Asked(w)} : Throws(c, v)
            BY <2>1, <2>7, <2>8, <3>4, <3>7
        <3> QED
            BY <2>11, <3>6, <3>7 DEF RequestProvider, w
    <2>12. CASE CheckSchema(c)
        <3>1. ~Finished(c)
            BY <2>12 DEF CheckSchema, Doing
        <3>2. CASE GoesOn(c) \/ Throws(c, w)
            BY <2>9, <3>1, <3>2
        <3>3. CASE MayRepair(w) /\ work' = [work EXCEPT ![c].step = AskStep(KindOf(c))]
            <4> DEFINE v == [w EXCEPT !.step = AskStep(q)]
            <4>1. v \in Progress /\ v.asked = w.asked /\ v.asked <= 1
                BY <2>1, <3>3 DEF Progress, AskStep, MayRepair
            <4>2. work' = [work EXCEPT ![c] = v]
                BY <3>3 DEF w
            <4> HIDE DEF v
            <4> QED
                BY <1>0, <2>3, <2>8, <4>1, <4>2, WorkStep
        <3> QED
            BY <2>12, <3>2, <3>3 DEF CheckSchema, w
    <2>13. CASE AppendReply(c)
        <3>1. ~Finished(c)
            BY <2>13 DEF AppendReply, Doing
        <3>2. CASE work' = [work EXCEPT ![c] = Later([@ EXCEPT !.reply = "sent"])]
            <4> DEFINE v == Later([w EXCEPT !.reply = "sent"])
            <4>1. v \in Progress /\ v.asked = w.asked /\ v.step >= w.step
                <5> DEFINE u == [w EXCEPT !.reply = "sent"]
                <5>1. u \in Progress /\ u.step = w.step /\ u.asked = w.asked
                    BY <2>1 DEF Progress
                <5> HIDE DEF u
                <5>2. Later(u) \in Progress /\ Later(u).asked = w.asked /\ Later(u).step >= w.step
                    BY <2>1, <2>5, <3>1, <5>1, LaterStep
                <5> QED
                    BY <5>2 DEF u
            <4>2. work' = [work EXCEPT ![c] = v]
                BY <3>2 DEF w
            <4> HIDE DEF v
            <4> QED
                BY <2>6, <4>1, <4>2
        <3>3. ASSUME NEW reply \in {"none", "stored"}, Throws(c, [w EXCEPT !.reply = reply]) PROVE Working'
            <4>1. [w EXCEPT !.reply = reply] \in Progress /\ [w EXCEPT !.reply = reply].asked = w.asked
                BY <2>1 DEF Progress
            <4> QED
                BY <2>7, <2>8, <3>3, <4>1
        <3> QED
            BY <2>13, <3>2, <3>3 DEF AppendReply, w
    <2>14. ~Resolves(c)
        BY <1>2 DEF Resolves
    <2> QED
        BY <1>2, <2>10, <2>11, <2>12, <2>13, <2>14 DEF CallbackStep
<1> QED
    BY <1>1, <1>2 DEF ReplyNext, OwnStep, replyVars

\* The invariants of Jobs hold of the jobs whose callbacks these are.
LEMMA WorkingAlways == ReplySpec => [](Safe /\ Doers /\ Working)
<1>1. ReplyInit => Safe /\ Doers /\ Working
    BY InitSafe, InitDoers, InitWorking DEF ReplyInit
<1>2. Safe /\ Doers /\ Working /\ [ReplyNext]_replyVars => (Safe /\ Doers /\ Working)'
    <2>1. [ReplyNext]_replyVars => [Next]_vars
        BY ReplyStep DEF replyVars
    <2> QED
        BY <2>1, NextSafe, NextDoers, NextWorking
<1> QED
    BY <1>1, <1>2, PTL DEF ReplySpec

\* The kinds of the jobs and the progress of the callbacks keep their shapes: no callback
\* runs past its last step.
THEOREM RepliesTyped == ReplySpec => []ReplyTypeOK
<1>1. Working => ReplyTypeOK
    BY DEF Working
<1> QED
    BY <1>1, WorkingAlways, PTL

\* One call at most works on a job, and it asks the provider twice at most, whichever
\* calls race and whatever fails, is lost or evicted.
THEOREM RepliedOnce == ReplySpec => []WorkIsDoneOnce
<1>1. Safe /\ Doers /\ Working => WorkIsDoneOnce
    <2> SUFFICES ASSUME Safe, Working, NEW c \in Callers
                 PROVE  /\ work[c].asked <= 2
                        /\ \A d \in Callers \ {c} :
                             call[c].job = call[d].job => Untouched \in {work[c], work[d]}
        BY DEF WorkIsDoneOnce
    <2>1. work[c].asked <= 2
        BY DEF Working, Paced
    <2>2. ASSUME NEW d \in Callers \ {c}, call[c].job = call[d].job, work[c] # Untouched, work[d] # Untouched
          PROVE  FALSE
        <3>1. call[c].job \in Jobs /\ {c, d} \subseteq claimed[call[c].job]
            BY <2>2 DEF Working, Paced, Safe, TypeOK, CallRecord
        <3> QED
            BY <2>2, <3>1 DEF Safe, AtMostOneClaim
    <2> QED
        BY <2>1, <2>2
<1> QED
    BY <1>1, WorkingAlways, PTL

\* A job that ended unclaimed stays so: its status is final, and only a queued row is
\* claimed.
LEMMA UnclaimedStays ==
    ASSUME Safe, [Next]_vars, NEW j \in Jobs, EndedUnclaimed(j)
    PROVE  EndedUnclaimed(j)'
<1>1. CASE UNCHANGED <<status, claimed>>
    BY <1>1 DEF EndedUnclaimed
<1>2. CASE Lifecycle!Next
    <2>1. status[j] \notin {"absent", "queued", "running"}
        BY DEF EndedUnclaimed, Terminal
    <2>2. status'[j] = status[j] /\ claimed'[j] = claimed[j]
        BY <1>2, <2>1
        DEF Lifecycle!Next, Lifecycle!Create, Lifecycle!Claim, Lifecycle!Settle, Safe, TypeOK
    <2> QED
        BY <2>2 DEF EndedUnclaimed
<1> QED
    BY <1>1, <1>2, RowStep DEF vars

\* Whatever is cancelled in the queue, or failed by its dispatch before an execution claimed
\* it, is never asked for at the provider and never answered, however late and however
\* often the Workflow engine delivers it.
THEOREM EndedIsFree == ReplySpec => EndedCostsNothing
<1>1. ASSUME NEW j \in Jobs PROVE ReplySpec => [](EndedUnclaimed(j) => []Costless(j))
    <2>1. Safe /\ EndedUnclaimed(j) /\ [ReplyNext]_replyVars => EndedUnclaimed(j)'
        BY ReplyStep, UnclaimedStays
    <2>2. Working /\ EndedUnclaimed(j) => Costless(j)
        <3> SUFFICES ASSUME Working, EndedUnclaimed(j), NEW c \in Callers, call[c].job = j
                     PROVE  work[c] = Untouched
            BY DEF Costless
        <3> QED
            BY DEF Working, Paced, EndedUnclaimed
    <2> QED
        BY <2>1, <2>2, WorkingAlways, PTL DEF ReplySpec
<1> QED
    BY <1>1 DEF EndedCostsNothing

-----------------------------------------------------------------------------
(* What is recorded of a reply is what was sent, when D1 answers, the invocation survives *)
(* and jobs are created live *)

Live == {"queued", "running"}

\* What a call with record k, whose callback came as far as w for a job of kind q, has
\* done and told while its row has status r.
Told(k, w, q, r) ==
    /\ \/ k.op \in {"execute", "dispatch", "cancel"} /\ k.pc # "idle"
       \/ k.op = "direct" /\ k.pc = "idle"
    /\ w.step = 11 <=> w.reply = "sent"
    /\ k.op \in Executors /\ k.patch = "succeeded" /\ q = "reply" => w.reply = "sent"
    /\ w.reply = "sent" /\ k.patch \in Young => k.pc = "callback"
    /\ w.reply = "sent" /\ k.patch = "failed" => r \in Terminal

\* Somebody answers for what the row of j says.
SucceededSent(j) == status[j] = "succeeded" => \E c \in Callers : SentBy(c, j)
FailedDispatch(d, j) == call[d].job = j /\ Is(d, {"dispatch"}, {"failed"})
FailedUnsent(c, j) ==
    /\ c \in claimed[j] /\ call[c].job = j /\ call[c].op \in Executors
    /\ call[c].patch = "failed" /\ work[c].reply # "sent"
FailedTold(j) ==
    status[j] = "failed" => \E c \in Callers : FailedDispatch(c, j) \/ FailedUnsent(c, j)

Honest ==
    /\ \A c \in Callers : Told(call[c], work[c], kind[call[c].job], Row(c))
    /\ \A j \in Jobs : kind[j] = "reply" => SucceededSent(j) /\ FailedTold(j)

LEMMA InitHonest == ReplyInit => Honest
<1> SUFFICES ASSUME ReplyInit PROVE Honest
    OBVIOUS
<1>1. ASSUME NEW c \in Callers PROVE Told(call[c], work[c], kind[call[c].job], Row(c))
    <2>1. /\ call[c].op = "direct" /\ call[c].pc = "idle" /\ work[c] = Untouched
          /\ Untouched.step = 1 /\ Untouched.reply = "none"
        BY DEF ReplyInit, Init, Untouched
    <2> QED
        BY <2>1 DEF Told, Executors
<1>2. ASSUME NEW j \in Jobs PROVE SucceededSent(j) /\ FailedTold(j)
    BY DEF ReplyInit, Init, SucceededSent, FailedTold
<1> QED
    BY <1>1, <1>2 DEF Honest

\* How the record of a call changes outside its callback.
LEMMA CallStep ==
    ASSUME Safe, Doers, Orderly, NEW c \in Callers, call[c].op # "run", ~At(c, "callback"),
           Statement(c) \/ Continue(c)
    PROVE  \E k \in CallRecord :
             /\ call' = [call EXCEPT ![c] = k]
             /\ k.op = call[c].op /\ k.job = call[c].job /\ k.pc # "idle" /\ call[c].pc # "idle"
             /\ \/ k.patch = call[c].patch
                \/ /\ k.patch = "failed"
                   /\ \/ call[c].op = "dispatch"
                      \/ call[c].patch \in {"progress", "succeeded"} /\ call[c].pc \in {"returned", "threw"}
<1> DEFINE o == call[c]
<1> DEFINE G(k) ==
        /\ call' = [call EXCEPT ![c] = k]
        /\ k.op = call[c].op /\ k.job = call[c].job /\ k.pc # "idle" /\ call[c].pc # "idle"
        /\ \/ k.patch = call[c].patch
           \/ /\ k.patch = "failed"
              /\ \/ call[c].op = "dispatch"
                 \/ call[c].patch \in {"progress", "succeeded"} /\ call[c].pc \in {"returned", "threw"}
<1> SUFFICES \E k \in CallRecord : G(k)
    OBVIOUS
<1>0. TypeOK /\ call[c] \in CallRecord
    BY DEF Safe, TypeOK
<1>1. ASSUME NEW pc \in PCs \ {"idle"}, Goto(c, pc), call[c].pc # "idle" PROVE \E k \in CallRecord : G(k)
    <2>1. PICK k \in CallRecord :
            /\ call' = [call EXCEPT ![c] = k]
            /\ k.pc = pc /\ k.op = call[c].op /\ k.job = call[c].job /\ k.patch = call[c].patch
        BY <1>0, <1>1, GotoRecord
    <2> QED
        BY <1>1, <2>1
<1>2. ASSUME NEW pc \in PCs \ {"idle"}, NEW s \in JobStatus \cup {"null"}, GotoSeeing(c, pc, s),
             call[c].pc # "idle"
      PROVE  \E k \in CallRecord : G(k)
    <2>1. PICK k \in CallRecord :
            /\ call' = [call EXCEPT ![c] = k]
            /\ k.pc = pc /\ k.op = call[c].op /\ k.job = call[c].job /\ k.patch = call[c].patch
        BY <1>0, <1>2, GotoSeeingRecord
    <2> QED
        BY <1>2, <2>1
<1>3. ASSUME Update(c, "failed"), call[c].pc # "idle",
             \/ call[c].op = "dispatch"
             \/ call[c].patch \in {"progress", "succeeded"} /\ call[c].pc \in {"returned", "threw"}
      PROVE  \E k \in CallRecord : G(k)
    <2>1. PICK k \in CallRecord :
            /\ call' = [call EXCEPT ![c] = k]
            /\ k.pc = "read" /\ k.op = call[c].op /\ k.job = call[c].job /\ k.patch = "failed"
        BY <1>0, <1>3, UpdateRecord DEF Patches, Terminal
    <2> QED
        BY <1>3, <2>1
<1>4. Row(c) \in JobStatus \cup {"absent"}
    BY <1>0 DEF TypeOK, CallRecord, Row
<1>5. CASE Insert(c)
    <2>1. /\ Goto(c, "threw") \/ \E s \in InitialStatuses : GotoSeeing(c, "publish", s)
          /\ call[c].pc # "idle"
        BY <1>5 DEF Insert, At
    <2> QED
        BY <2>1, <1>1, <1>2, JobsAssumption DEF PCs
<1>6. CASE Claim(c)
    <2>1. (GotoSeeing(c, "returned", "null") \/ Goto(c, "reread")) /\ call[c].pc # "idle"
        BY <1>6 DEF Claim, At
    <2> QED
        BY <2>1, <1>1, <1>2 DEF PCs
<1>7. CASE Read(c)
    <2>1. PICK pc \in {"returned", "publish", "write"}, s \in JobStatus \cup {"null"} : GotoSeeing(c, pc, s)
        BY <1>7, <1>4 DEF Read
    <2>2. call[c].pc # "idle"
        BY <1>7 DEF Read, At
    <2> QED
        BY <2>1, <2>2, <1>2 DEF PCs
<1>8. CASE Write(c)
    <2>1. (GotoSeeing(c, "returned", "null") \/ Goto(c, "reread")) /\ call[c].pc # "idle"
        BY <1>8 DEF Write, At
    <2> QED
        BY <2>1, <1>1, <1>2 DEF PCs
<1>9. CASE Reread(c)
    <2>1. GotoSeeing(c, "publish", Row(c)) /\ call[c].pc # "idle"
        BY <1>9 DEF Reread, At
    <2>2. Row(c) \in JobStatus
        BY <1>9, <1>4 DEF Reread, Safe, RereadFindsRow
    <2> QED
        BY <2>1, <2>2, <1>2 DEF PCs
<1>10. CASE Publish(c)
    <2>1. (Goto(c, "returned") \/ Goto(c, "threw")) /\ call[c].pc # "idle"
        BY <1>10 DEF Publish, At
    <2> QED
        BY <2>1, <1>1 DEF PCs
<1>11. CASE LaunchFails(c)
    <2>1. Update(c, "failed") /\ call[c].op = "dispatch" /\ call[c].pc # "idle"
        BY <1>11 DEF LaunchFails, Is, At
    <2> QED
        BY <2>1, <1>3
<1>12. CASE ExecutionLost(c) \/ ExecutionThrows(c)
    <2>1. /\ Update(c, "failed") /\ call[c].pc # "idle"
          /\ call[c].patch \in {"progress", "succeeded"} /\ call[c].pc \in {"returned", "threw"}
        BY <1>12 DEF ExecutionLost, ExecutionThrows, Is, At
    <2> QED
        BY <2>1, <1>3
<1>13. CASE DispatchCreated(c) \/ Launch(c) \/ ClaimLost(c) \/ EnterCallback(c)
            \/ ExecutionSucceeds(c) \/ Rethrow(c) \/ Reject(c) \/ Answer(c) \/ CancelOwned(c)
    <2>1. /\ call[c].pc # "idle"
          /\ \E pc \in {"launch", "resolved", "rejected", "read", "callback"} : Goto(c, pc)
        BY <1>13 DEF DispatchCreated, Launch, ClaimLost, EnterCallback, ExecutionSucceeds, Rethrow,
                     Reject, Answer, CancelOwned, Local, At
    <2> QED
        BY <2>1, <1>1 DEF PCs
<1>14. ~RunCreated(c) /\ ~Report(c) /\ ~CallbackReturns(c) /\ ~CallbackThrows(c)
    BY DEF RunCreated, Is, Report, CallbackReturns, CallbackThrows
<1> QED
    BY <1>5, <1>6, <1>7, <1>8, <1>9, <1>10, <1>11, <1>12, <1>13, <1>14 DEF Statement, Continue

\* Only c moves, to record k and progress w.
LEMMA ToldStep ==
    ASSUME Safe, Working, Honest, UNCHANGED kind,
           \A j \in Jobs : status[j] \in Terminal => status'[j] = status[j],
           NEW c \in Callers, NEW k \in CallRecord, call' = [call EXCEPT ![c] = k],
           NEW w \in Progress, work' = [work EXCEPT ![c] = w],
           Told(k, w, kind[k.job], status'[k.job])
    PROVE  \A d \in Callers : Told(call'[d], work'[d], kind'[call'[d].job], Row(d)')
<1> SUFFICES ASSUME NEW d \in Callers
             PROVE  Told(call'[d], work'[d], kind[call'[d].job], status'[call'[d].job])
    BY DEF Row
<1>1. CASE d = c
    <2>1. call'[d] = k /\ work'[d] = w
        BY <1>1 DEF Safe, TypeOK, Working, ReplyTypeOK
    <2> QED
        BY <2>1
<1>2. CASE d # c
    <2>1. call'[d] = call[d] /\ work'[d] = work[d] /\ call[d].job \in Jobs
        BY <1>2 DEF Safe, TypeOK, CallRecord, Working, ReplyTypeOK
    <2>2. Told(call[d], work[d], kind[call[d].job], status[call[d].job])
        BY DEF Honest, Row
    <2>3. status[call[d].job] \in Terminal => status'[call[d].job] = status[call[d].job]
        BY <2>1
    <2> QED
        BY <2>1, <2>2, <2>3 DEF Told
<1> QED
    BY <1>1, <1>2

\* A step of the callback of c.
LEMMA CallbackTold ==
    ASSUME Safe, Doers, Working, Orderly, Honest, [Next]_vars, NEW c \in Callers, CallbackStep(c)
    PROVE  \A d \in Callers : Told(call'[d], work'[d], kind'[call'[d].job], Row(d)')
<1> DEFINE o == call[c]
<1> DEFINE w == work[c]
<1> DEFINE q == KindOf(c)
<1>1. /\ TypeOK /\ o \in CallRecord /\ o.job \in Jobs /\ w \in Progress /\ q \in Kinds
      /\ w.step \in 1 .. 11 /\ Told(o, w, q, status[o.job])
      /\ Paced(o, w, q, c \in claimed[o.job])
    BY DEF Safe, TypeOK, CallRecord, Working, ReplyTypeOK, Progress, Honest, KindOf, Row
<1>2. At(c, "callback") /\ UNCHANGED <<kind, status>>
    BY DEF CallbackStep, ReportPhase, LoadConversation, RequireCircuit, RequestProvider, ReadAnswer,
           CheckSchema, AcceptReply, AppendReply, Resolves, Doing, GoesOn, Throws, vars,
           Report, CallbackReturns, CallbackThrows, rows
<1>3. o.pc = "callback" /\ o.op \in Executors /\ o.patch \in {"claim", "progress"}
    BY <1>2 DEF Doers, Doer, At
<1>4. o.op = "execute" /\ Untouched.step = 1
    BY <1>1, <1>3 DEF Told, Executors, Untouched
<1>5. Plan("reply") = <<"report", "load", "report", "guard", "ask", "read", "check", "accept", "report", "append">>
      /\ Plan("generation") = <<"report", "ask", "report", "read", "report", "check">>
    BY DEF Plan
<1> DEFINE m == w.step
<1> DEFINE n == Len(Plan(q))
<1>18. /\ Finished(c) <=> m > n
       /\ q = "reply" => n = 10
       /\ q = "generation" => n = 6
       /\ m \in 1 .. 11 /\ m = w.step
    BY <1>1, <1>5 DEF Finished
<1> HIDE DEF m, n
\* An unfinished callback has not sent its reply, and only "append" is its tenth step.
<1>6. ASSUME ~Finished(c)
      PROVE  /\ w.step <= 10 /\ w.reply # "sent" /\ Later(w) \in Progress /\ Later(w).step = w.step + 1
             /\ Later(w).reply = w.reply
             /\ Plan(q)[w.step] = "append" <=> w.step = 10
    <2>1. CASE q = "reply"
        <3>1. w.step <= 10
            BY <1>18, <1>6, <2>1
        <3>2. Plan(q)[w.step] = "append" <=> w.step = 10
            BY <1>1, <1>5, <2>1, <3>1
        <3> QED
            BY <1>1, <3>1, <3>2, LaterStep DEF Told
    <2>2. CASE q = "generation"
        <3>1. w.step <= 6
            BY <1>18, <1>6, <2>2
        <3>2. Plan(q)[w.step] # "append" /\ w.step # 10
            BY <1>1, <1>5, <2>2, <3>1
        <3> QED
            BY <1>1, <3>1, <3>2, LaterStep DEF Told
    <2> QED
        BY <1>1, <2>1, <2>2 DEF Kinds
<1>7. \A j \in Jobs : status[j] \in Terminal => status'[j] = status[j]
    BY <1>2
<1> HIDE DEF w, o
\* The callback goes on, and has not sent the reply, or just did.
<1>8. ASSUME NEW v \in Progress, UNCHANGED vars, work' = [work EXCEPT ![c] = v],
             v.step = 11 <=> v.reply = "sent"
      PROVE  \A d \in Callers : Told(call'[d], work'[d], kind'[call'[d].job], Row(d)')
    <2>1. call' = [call EXCEPT ![c] = o]
        BY <1>1, <1>8 DEF vars, TypeOK, o
    <2>2. Told(o, v, kind[o.job], status'[o.job])
        BY <1>3, <1>4, <1>8 DEF Told, Young, Executors
    <2> QED
        BY <1>1, <1>2, <1>7, <1>8, <2>1, <2>2, ToldStep
\* The callback throws: nothing was sent.
<1>9. ASSUME NEW v \in Progress, v.reply # "sent", v.step <= 10, Throws(c, v)
      PROVE  \A d \in Callers : Told(call'[d], work'[d], kind'[call'[d].job], Row(d)')
    <2>1. Update(c, "failed") /\ work' = [work EXCEPT ![c] = v]
        BY <1>9 DEF Throws, CallbackThrows
    <2>2. PICK k \in CallRecord :
            /\ call' = [call EXCEPT ![c] = k]
            /\ k.pc = "read" /\ k.patch = "failed" /\ k.op = o.op /\ k.job = o.job
        BY <1>1, <2>1, UpdateRecord DEF Patches, Terminal, o
    <2>3. Told(k, v, kind[k.job], status'[k.job])
        BY <1>4, <1>9, <2>2 DEF Told, Young, Progress
    <2> QED
        BY <1>2, <1>7, <1>9, <2>1, <2>2, <2>3, ToldStep
<1>10. ASSUME ~Finished(c), Plan(q)[w.step] # "append", GoesOn(c)
       PROVE  \A d \in Callers : Told(call'[d], work'[d], kind'[call'[d].job], Row(d)')
    <2>1. Later(w) \in Progress /\ Later(w).step # 11 /\ Later(w).reply # "sent"
        BY <1>1, <1>6, <1>10
    <2> QED
        BY <1>8, <1>10, <2>1 DEF GoesOn, w
<1>11. ASSUME ~Finished(c), Throws(c, w)
       PROVE  \A d \in Callers : Told(call'[d], work'[d], kind'[call'[d].job], Row(d)')
    BY <1>1, <1>6, <1>9, <1>11
<1>12. CASE LoadConversation(c) \/ RequireCircuit(c) \/ ReadAnswer(c) \/ AcceptReply(c)
    <2>1. /\ ~Finished(c) /\ Plan(q)[w.step] \in {"load", "guard", "read", "accept"}
          /\ GoesOn(c) \/ Throws(c, w)
        BY <1>12 DEF LoadConversation, RequireCircuit, ReadAnswer, AcceptReply, Doing, w
    <2> QED
        BY <1>10, <1>11, <2>1
<1>13. CASE ReportPhase(c)
    <2>1. /\ ~Finished(c) /\ Plan(q)[w.step] = "report" /\ Update(c, "progress")
          /\ work' = [work EXCEPT ![c] = Later(w)]
        BY <1>13 DEF ReportPhase, Report, Doing, w
    <2>2. PICK k \in CallRecord :
            /\ call' = [call EXCEPT ![c] = k]
            /\ k.pc = "read" /\ k.patch = "progress" /\ k.op = o.op /\ k.job = o.job
        BY <1>1, <2>1, UpdateRecord DEF Patches, o
    <2>3. Later(w) \in Progress /\ Later(w).step # 11 /\ Later(w).reply # "sent"
        BY <1>1, <1>6, <2>1
    <2>4. Told(k, Later(w), kind[k.job], status'[k.job])
        BY <1>4, <2>2, <2>3 DEF Told
    <2> QED
        BY <1>2, <1>7, <2>1, <2>2, <2>3, <2>4, ToldStep
<1>14. CASE RequestProvider(c)
    <2>1. ~Finished(c) /\ Plan(q)[w.step] = "ask"
        BY <1>14 DEF RequestProvider, Doing, w
    <2> DEFINE u == Asked(w)
    <2>2. u \in Progress /\ u.step = w.step /\ u.reply = w.reply
        BY <1>1 DEF Asked, Progress
    <2>3. w.step <= 9 /\ w.reply # "sent"
        BY <1>1, <1>6, <2>1
    <2>4. Later(u) \in Progress /\ Later(u).step # 11 /\ Later(u).reply # "sent"
        BY <1>1, <2>2, <2>3, LaterStep
    <2>5. \/ UNCHANGED vars /\ work' = [work EXCEPT ![c] = Later(u)]
          \/ Throws(c, w) \/ Throws(c, u)
        BY <1>14 DEF RequestProvider, w
    <2> HIDE DEF u
    <2> QED
        BY <1>1, <1>8, <1>9, <2>2, <2>3, <2>4, <2>5
<1>15. CASE CheckSchema(c)
    <2>1. ~Finished(c) /\ Plan(q)[w.step] = "check"
        BY <1>15 DEF CheckSchema, Doing, w
    <2>2. CASE GoesOn(c) \/ Throws(c, w)
        BY <1>10, <1>11, <2>1, <2>2
    <2>3. CASE UNCHANGED vars /\ work' = [work EXCEPT ![c].step = AskStep(KindOf(c))]
        <3> DEFINE v == [w EXCEPT !.step = AskStep(q)]
        <3>1. v \in Progress /\ v.step # 11 /\ v.reply = w.reply
            BY <1>1 DEF Progress, AskStep
        <3>2. work' = [work EXCEPT ![c] = v] /\ v.reply # "sent"
            BY <1>6, <2>1, <2>3, <3>1 DEF w
        <3> HIDE DEF v
        <3> QED
            BY <1>8, <2>3, <3>1, <3>2
    <2> QED
        BY <1>15, <2>2, <2>3 DEF CheckSchema, w
<1>16. CASE AppendReply(c)
    <2>1. ~Finished(c) /\ Plan(q)[w.step] = "append"
        BY <1>16 DEF AppendReply, Doing, w
    <2>2. w.step = 10
        BY <1>6, <2>1
    <2>3. CASE UNCHANGED vars /\ work' = [work EXCEPT ![c] = Later([@ EXCEPT !.reply = "sent"])]
        <3> DEFINE u == [w EXCEPT !.reply = "sent"]
        <3>1. u \in Progress /\ u.step = 10 /\ u.reply = "sent"
            BY <1>1, <2>2 DEF Progress
        <3>2. work' = [work EXCEPT ![c] = Later(u)]
            BY <2>3 DEF w
        <3> HIDE DEF u
        <3>3. Later(u) \in Progress /\ Later(u).step = 11 /\ Later(u).reply = "sent"
            BY <3>1, LaterStep
        <3> QED
            BY <1>8, <2>3, <3>2, <3>3
    <2>4. ASSUME NEW reply \in {"none", "stored"}, Throws(c, [w EXCEPT !.reply = reply])
          PROVE  \A d \in Callers : Told(call'[d], work'[d], kind'[call'[d].job], Row(d)')
        <3> DEFINE v == [w EXCEPT !.reply = reply]
        <3>1. v \in Progress /\ v.reply # "sent" /\ v.step <= 10
            BY <1>1, <2>2 DEF Progress
        <3> HIDE DEF v
        <3> QED
            BY <1>9, <2>4, <3>1 DEF v
    <2> QED
        BY <1>16, <2>3, <2>4 DEF AppendReply, w
<1>17. CASE Resolves(c)
    <2>1. Finished(c) /\ Update(c, "succeeded") /\ UNCHANGED work
        BY <1>17 DEF Resolves, CallbackReturns
    <2>2. PICK k \in CallRecord :
            /\ call' = [call EXCEPT ![c] = k]
            /\ k.pc = "read" /\ k.patch = "succeeded" /\ k.op = o.op /\ k.job = o.job
        BY <1>1, <2>1, UpdateRecord DEF Patches, Terminal, o
    <2>3. work' = [work EXCEPT ![c] = w]
        BY <2>1 DEF Working, ReplyTypeOK, w
    <2>4. q = "reply" => w.step = 11
        BY <1>18, <2>1
    <2>5. Told(k, w, kind[k.job], status'[k.job])
        BY <1>1, <1>4, <2>2, <2>4 DEF Told, Young, KindOf, o
    <2> QED
        BY <1>1, <1>2, <1>7, <2>2, <2>3, <2>5, ToldStep
<1> QED
    BY <1>12, <1>13, <1>14, <1>15, <1>16, <1>17 DEF CallbackStep

\* A step of c outside its callback.
LEMMA OutsideTold ==
    ASSUME Safe, Doers, Working, Orderly, Honest, Next, UNCHANGED <<kind, work>>, NEW c \in Callers,
           \/ \E j \in Jobs : BeginSome(c, j)
           \/ ~At(c, "callback") /\ (Statement(c) \/ Continue(c))
    PROVE  \A d \in Callers : Told(call'[d], work'[d], kind'[call'[d].job], Row(d)')
<1>1. \A j \in Jobs : status[j] \in Terminal => status'[j] = status[j]
    BY RowsAdvance
<1>2. /\ call[c] \in CallRecord /\ call[c].job \in Jobs /\ work[c] \in Progress
      /\ work' = [work EXCEPT ![c] = work[c]]
      /\ Told(call[c], work[c], kind[call[c].job], status[call[c].job])
      /\ Paced(call[c], work[c], kind[call[c].job], c \in claimed[call[c].job])
      /\ Fits(call[c], status[call[c].job])
    BY DEF Safe, TypeOK, CallRecord, Working, ReplyTypeOK, Progress, Honest, Orderly, Row
<1>3. CASE \E j \in Jobs : BeginSome(c, j)
    <2>1. PICK j \in Jobs, op \in {"dispatch", "execute", "cancel"}, pc \in PCs, p \in Patches :
            Start(c, op, j, pc, p) /\ p \in {"create", "claim", "cancelled"} /\ pc # "idle"
        BY <1>3 DEF BeginSome, BeginDispatch, BeginExecute, BeginCancel, PCs, Patches, Terminal
    <2> DEFINE k == [op |-> op, job |-> j, pc |-> pc, patch |-> p, seen |-> "null"]
    <2>2. /\ k \in CallRecord /\ call' = [call EXCEPT ![c] = k] /\ k.op = op /\ k.patch = p
          /\ call[c].pc = "idle" /\ k.pc = pc
        BY <2>1 DEF Start, CallRecord, Ops, Executors, At
    <2> HIDE DEF k
    <2>3. work[c].step = 1 /\ work[c].reply = "none"
        BY <1>2, <2>2 DEF Paced, Untouched
    <2>4. Told(k, work[c], kind[k.job], status'[k.job])
        BY <2>1, <2>2, <2>3 DEF Told
    <2> QED
        BY <1>1, <1>2, <2>2, <2>4, ToldStep
<1>4. CASE ~At(c, "callback") /\ (Statement(c) \/ Continue(c))
    <2>1. call[c].op # "run"
        BY <1>2 DEF Told
    <2>2. PICK k \in CallRecord :
             /\ call' = [call EXCEPT ![c] = k]
             /\ k.op = call[c].op /\ k.job = call[c].job /\ k.pc # "idle" /\ call[c].pc # "idle"
             /\ \/ k.patch = call[c].patch
                \/ /\ k.patch = "failed"
                   /\ \/ call[c].op = "dispatch"
                      \/ call[c].patch \in {"progress", "succeeded"} /\ call[c].pc \in {"returned", "threw"}
        BY <1>4, <2>1, CallStep
    <2>3. status[call[c].job] \in Terminal => status'[k.job] \in Terminal
        BY <1>1, <1>2, <2>2
    <2>4. work[c].reply = "sent" => call[c].op \in Executors
        BY <1>2 DEF Paced, Untouched
    <2>5. work[c].reply = "sent" => call[c].patch \notin Young
        BY <1>2, <1>4 DEF Told, At
    <2>6. Told(k, work[c], kind[k.job], status'[k.job])
        <3>1. CASE k.patch = call[c].patch
            BY <1>2, <2>2, <2>3, <2>5, <3>1 DEF Told
        <3>2. CASE k.patch = "failed" /\ call[c].op = "dispatch"
            BY <1>2, <2>2, <2>4, <3>2 DEF Told, Executors, Young
        <3>3. CASE /\ k.patch = "failed" /\ call[c].patch \in {"progress", "succeeded"}
                   /\ call[c].pc \in {"returned", "threw"}
            <4>1. work[c].reply = "sent" => status[call[c].job] \in Terminal
                BY <1>2, <2>4, <2>5, <3>3 DEF Fits, Past, Young
            <4> QED
                BY <1>2, <2>2, <2>3, <3>3, <4>1 DEF Told, Young
        <3> QED
            BY <2>2, <3>1, <3>2, <3>3
    <2> QED
        BY <1>1, <1>2, <2>2, <2>6, ToldStep
<1> QED
    BY <1>3, <1>4

\* Who answers for a row keeps answering for it: what was sent stays sent, and a call that
\* fails a job goes on failing it.
LEMMA AnswersStay ==
    ASSUME Safe, Doers, Working, Honest, [ReplyNext]_replyVars, NEW c \in Callers, NEW j \in Jobs
    PROVE  /\ SentBy(c, j) => SentBy(c, j)'
           /\ FailedDispatch(c, j) => FailedDispatch(c, j)'
           /\ FailedUnsent(c, j) => FailedUnsent(c, j)'
<1>1. [Next]_vars
    BY ReplyStep DEF replyVars
<1>2. UNCHANGED kind /\ (work'[c] = work[c] \/ (At(c, "callback") /\ ~Finished(c)))
    <2>1. ASSUME NEW d \in Callers, CallbackStep(d), ~UNCHANGED work
          PROVE  /\ UNCHANGED kind /\ At(d, "callback") /\ ~Finished(d)
                 /\ d # c => work'[c] = work[c]
        <3>0. work \in [Callers -> Progress]
            BY DEF Working, ReplyTypeOK, Progress
        <3>1. ~Resolves(d)
            BY <2>1 DEF Resolves
        <3>2. UNCHANGED kind /\ At(d, "callback") /\ ~Finished(d)
            BY <2>1, <3>1 DEF CallbackStep, ReportPhase, LoadConversation, RequireCircuit, RequestProvider,
               ReadAnswer, CheckSchema, AcceptReply, AppendReply, Doing, GoesOn, Throws
        <3>3. ASSUME NEW w, Throws(d, w), d # c PROVE work'[c] = work[c]
            BY <3>0, <3>3 DEF Throws
        <3>5. CASE GoesOn(d) \/ ReportPhase(d)
            BY <3>0, <3>2, <3>5 DEF GoesOn, ReportPhase
        <3>6. CASE RequestProvider(d)
            <4>1. \/ work' = [work EXCEPT ![d] = Later(Asked(@))]
                  \/ \E w \in {work[d], Asked(work[d])} : Throws(d, w)
                BY <3>6 DEF RequestProvider
            <4> QED
                BY <3>0, <3>2, <3>3, <4>1
        <3>7. CASE CheckSchema(d)
            <4>1. work' = [work EXCEPT ![d].step = AskStep(KindOf(d))] \/ GoesOn(d) \/ Throws(d, work[d])
                BY <3>7 DEF CheckSchema
            <4> QED
                BY <3>0, <3>2, <3>3, <3>5, <4>1
        <3>8. CASE AppendReply(d)
            <4>1. \/ work' = [work EXCEPT ![d] = Later([@ EXCEPT !.reply = "sent"])]
                  \/ \E reply \in {"none", "stored"} : Throws(d, [work[d] EXCEPT !.reply = reply])
                BY <3>8 DEF AppendReply
            <4> QED
                BY <3>0, <3>2, <3>3, <4>1
        <3>9. CASE LoadConversation(d) \/ RequireCircuit(d) \/ ReadAnswer(d) \/ AcceptReply(d)
            BY <3>2, <3>3, <3>5, <3>9 DEF LoadConversation, RequireCircuit, ReadAnswer, AcceptReply
        <3> QED
            BY <2>1, <3>1, <3>2, <3>5, <3>6, <3>7, <3>8, <3>9 DEF CallbackStep
    <2>2. CASE UNCHANGED <<kind, work>>
        BY <2>2
    <2>3. ASSUME NEW d \in Callers, CallbackStep(d)
          PROVE  UNCHANGED kind /\ (work'[c] = work[c] \/ (At(c, "callback") /\ ~Finished(c)))
        <3>1. CASE UNCHANGED work
            BY <2>3, <3>1 DEF CallbackStep, ReportPhase, LoadConversation, RequireCircuit, RequestProvider,
               ReadAnswer, CheckSchema, AcceptReply, AppendReply, Resolves, GoesOn, Throws
        <3>2. CASE ~UNCHANGED work
            BY <2>1, <2>3, <3>2 DEF Working, ReplyTypeOK
        <3> QED
            BY <3>1, <3>2
    <2> QED
        BY <2>2, <2>3 DEF ReplyNext, OwnStep, replyVars
<1>3. /\ Told(call[c], work[c], kind[call[c].job], Row(c)) /\ call[c].job \in Jobs
      /\ Paced(call[c], work[c], kind[call[c].job], c \in claimed[call[c].job])
      /\ kind[call[c].job] \in Kinds
    BY DEF Honest, Working, ReplyTypeOK, Safe, TypeOK, CallRecord
<1>4. SentBy(c, j) => SentBy(c, j)'
    <2> SUFFICES ASSUME SentBy(c, j) PROVE SentBy(c, j)'
        OBVIOUS
    <2>1. work[c].step = 11 /\ call[c].pc # "idle"
        BY <1>3 DEF SentBy, Told, Paced, Untouched
    <2>2. Finished(c)
        <3> DEFINE n == Len(Plan(KindOf(c)))
        <3>1. n = 10 \/ n = 6
            BY <1>3 DEF Plan, KindOf, Kinds
        <3> HIDE DEF n
        <3>2. 11 > n
            BY <3>1
        <3> QED
            BY <2>1, <3>2 DEF Finished, n
    <2> QED
        BY <1>1, <1>2, <2>1, <2>2, CallsGoOn DEF SentBy
<1>6. FailedDispatch(c, j) => FailedDispatch(c, j)'
    BY <1>1, <1>3, CallsGoOn DEF FailedDispatch, Is, Told
<1>7. FailedUnsent(c, j) => FailedUnsent(c, j)'
    <2> SUFFICES ASSUME FailedUnsent(c, j) PROVE FailedUnsent(c, j)'
        OBVIOUS
    <2>1. ~At(c, "callback")
        BY DEF FailedUnsent, Doers, Doer, At
    <2>2. call[c].pc # "idle"
        BY <1>3 DEF FailedUnsent, Told, Executors
    <2> QED
        BY <1>1, <1>2, <2>1, <2>2, CallsGoOn DEF FailedUnsent
<1> QED
    BY <1>4, <1>6, <1>7

\* What a row becomes: live, cancelled, or what the update of a dispatch or of a claimed
\* execution asks for.
LEMMA RowTold ==
    ASSUME Answered, InitialStatuses \subseteq Live, Safe, Doers, Working, Orderly, Honest,
           UNCHANGED <<kind, work>>, NEW c \in Callers, Statement(c), NEW j \in Jobs,
           kind[j] = "reply", status'[j] # status[j]
    PROVE  /\ status'[j] = "succeeded" => SentBy(c, j)
           /\ status'[j] = "failed" => FailedDispatch(c, j)' \/ FailedUnsent(c, j)'
<1> DEFINE o == call[c]
<1>1. /\ TypeOK /\ o \in CallRecord /\ o.job \in Jobs
      /\ Told(o, work[c], kind[o.job], Row(c)) /\ Staged(o) /\ UpdatesFit
      /\ Doer(o, c \in claimed[o.job])
    BY DEF Safe, TypeOK, CallRecord, Honest, Orderly, Doers
<1>2. CASE Insert(c)
    <2>1. status'[j] \in InitialStatuses
        BY <1>1, <1>2 DEF Insert, TypeOK, rows
    <2> QED
        BY <2>1 DEF Live
<1>3. CASE Claim(c)
    BY <1>1, <1>3 DEF Claim, TypeOK, rows
<1>4. CASE Write(c)
    <2>1. /\ o.pc = "write" /\ status[o.job] = o.seen /\ j = o.job /\ status'[j] = Written(c)
          /\ UNCHANGED claimed /\ Goto(c, "reread")
        BY <1>1, <1>4 DEF Write, At, Row, TypeOK, rows
    <2>2. /\ o.seen \in {"queued", "running"} /\ o.patch \in UpdatePatches
          /\ o.patch = "progress" => o.seen = "running"
        BY <1>1, <2>1 DEF UpdatesFit
    <2>3. status'[j] \in {"running", "cancelled"} \/ status'[j] = o.patch
        BY <2>1, <2>2 DEF Written
    <2>4. PICK k \in CallRecord :
            /\ call' = [call EXCEPT ![c] = k]
            /\ k.op = o.op /\ k.job = o.job /\ k.patch = o.patch
        BY <1>1, <2>1, GotoRecord DEF PCs
    <2>5. call'[c] = k
        BY <1>1, <2>4 DEF TypeOK
    <2>6. ASSUME o.patch \in {"succeeded", "failed"}, o.op # "dispatch"
          PROVE  o.op = "execute" /\ c \in claimed[j]
        BY <1>1, <2>1, <2>6 DEF Told, Staged, Doer, Committed, Executors
    <2>7. CASE o.patch = "succeeded"
        <3>1. o.op # "dispatch"
            BY <1>1, <2>7 DEF Staged
        <3>2. work[c].reply = "sent"
            BY <1>1, <2>1, <2>6, <2>7, <3>1 DEF Told, Executors
        <3> QED
            BY <2>1, <2>3, <2>7, <3>2 DEF SentBy
    <2>8. CASE o.patch = "failed"
        <3>1. CASE o.op = "dispatch"
            BY <2>1, <2>3, <2>4, <2>5, <2>8, <3>1 DEF FailedDispatch, Is
        <3>2. CASE o.op # "dispatch"
            <4>1. work[c].reply # "sent"
                BY <1>1, <2>1, <2>2, <2>8 DEF Told, Row, Terminal
            <4> QED
                BY <2>1, <2>3, <2>4, <2>5, <2>6, <2>8, <3>2, <4>1 DEF FailedUnsent, Executors
        <3> QED
            BY <3>1, <3>2
    <2>9. CASE o.patch \notin {"succeeded", "failed"}
        BY <2>3, <2>9
    <2> QED
        BY <2>7, <2>8, <2>9
<1>5. CASE Read(c) \/ Reread(c) \/ Publish(c)
    BY <1>5 DEF Read, Reread, Publish, rows
<1> QED
    BY <1>2, <1>3, <1>4, <1>5 DEF Statement

LEMMA NextHonest ==
    ASSUME Answered, InitialStatuses \subseteq Live
    PROVE  Safe /\ Doers /\ Working /\ Orderly /\ Honest /\ [ReplyNext]_replyVars => Honest'
<1> SUFFICES ASSUME Safe, Doers, Working, Orderly, Honest, [ReplyNext]_replyVars PROVE Honest'
    OBVIOUS
<1>1. CASE UNCHANGED replyVars
    BY <1>1 DEF replyVars, vars, Honest, Row, Told, SucceededSent, FailedTold, SentBy, FailedDispatch,
                FailedUnsent, Is
<1>2. ASSUME ReplyNext PROVE Honest'
    <2>0. [Next]_vars
        BY ReplyStep
    <2>1. PICK c \in Callers :
            \/ CallbackStep(c)
            \/ ~At(c, "callback") /\ (Statement(c) \/ Continue(c)) /\ UNCHANGED <<kind, work>>
            \/ (\E j \in Jobs : BeginSome(c, j)) /\ UNCHANGED <<kind, work>>
        BY <1>2 DEF ReplyNext, OwnStep, StoreFails, Crash, Answered
    <2>2. \A d \in Callers : Told(call'[d], work'[d], kind'[call'[d].job], Row(d)')
        <3>1. CASE CallbackStep(c)
            BY <2>0, <3>1, CallbackTold
        <3>2. CASE UNCHANGED <<kind, work>> /\ ~CallbackStep(c)
            <4>1. Next
                BY <2>1, <3>2 DEF Next, BeginSome, Begin
            <4> QED
                BY <2>1, <3>2, <4>1, OutsideTold
        <3> QED
            BY <2>1, <3>1, <3>2
    <2>3. ASSUME NEW j \in Jobs, kind'[j] = "reply" PROVE SucceededSent(j)' /\ FailedTold(j)'
        <3>1. kind[j] = "reply"
            BY <2>1, <2>3 DEF CallbackStep, ReportPhase, LoadConversation, RequireCircuit, RequestProvider,
               ReadAnswer, CheckSchema, AcceptReply, AppendReply, Resolves, GoesOn, Throws
        <3>2. CASE status'[j] = status[j]
            <4>1. SucceededSent(j) /\ FailedTold(j)
                BY <3>1 DEF Honest
            <4> QED
                BY <3>2, <4>1, AnswersStay DEF SucceededSent, FailedTold
        <3>3. CASE status'[j] # status[j]
            <4>1. Statement(c) /\ UNCHANGED <<kind, work>>
                BY <2>1, <3>3 DEF CallbackStep, ReportPhase, LoadConversation, RequireCircuit, RequestProvider,
                   ReadAnswer, CheckSchema, AcceptReply, AppendReply, Resolves, GoesOn, Throws, vars, rows,
                   Report, CallbackReturns, CallbackThrows, BeginSome, BeginDispatch, BeginExecute, BeginCancel,
                   Start, Continue, DispatchCreated, Launch, LaunchFails, RunCreated, ClaimLost,
                   EnterCallback, ExecutionSucceeds, ExecutionLost, ExecutionThrows, Rethrow, Reject,
                   Answer, CancelOwned, Local
            <4>2. /\ status'[j] = "succeeded" => SentBy(c, j)
                  /\ status'[j] = "failed" => FailedDispatch(c, j)' \/ FailedUnsent(c, j)'
                BY <3>1, <3>3, <4>1, RowTold
            <4>3. SentBy(c, j) => SentBy(c, j)'
                BY AnswersStay
            <4> QED
                BY <4>2, <4>3 DEF SucceededSent, FailedTold
        <3> QED
            BY <3>2, <3>3
    <2> QED
        BY <2>2, <2>3 DEF Honest
<1> QED
    BY <1>1, <1>2

\* What a job says of its reply is what happened to the reply: a succeeded one was sent, and
\* a failed one was not, unless a dispatch that was told otherwise failed it.
THEOREM RecordsAreTrue ==
    Answered /\ InitialStatuses \subseteq {"queued", "running"} /\ ReplySpec => []RecordedAsSent
<1> SUFFICES ASSUME Answered, InitialStatuses \subseteq Live PROVE ReplySpec => []RecordedAsSent
    BY DEF Live
<1>1. Safe /\ Doers /\ Working /\ Honest => RecordedAsSent
    <2> SUFFICES ASSUME Safe, Working, Honest, NEW j \in Jobs, kind[j] = "reply"
                 PROVE  /\ status[j] = "succeeded" => \E c \in Callers : SentBy(c, j)
                        /\ status[j] = "failed" /\ (\E c \in Callers : SentBy(c, j)) =>
                              \E d \in Callers : FailedDispatch(d, j)
        BY DEF RecordedAsSent, FailedDispatch
    <2>1. SucceededSent(j) /\ FailedTold(j)
        BY DEF Honest
    <2>2. ASSUME NEW c \in Callers, SentBy(c, j), NEW d \in Callers, FailedUnsent(d, j) PROVE FALSE
        <3>1. c \in claimed[j]
            BY <2>2 DEF SentBy, Working, Paced, Untouched
        <3>2. c = d
            BY <2>2, <3>1 DEF FailedUnsent, Safe, AtMostOneClaim
        <3> QED
            BY <2>2, <3>2 DEF SentBy, FailedUnsent
    <2> QED
        BY <2>1, <2>2 DEF SucceededSent, FailedTold
<1>2. ReplyInit => Orderly /\ Honest
    BY InitOrderly, InitHonest DEF ReplyInit
<1>3. Safe /\ Doers /\ Working /\ Orderly /\ Honest /\ [ReplyNext]_replyVars => (Orderly /\ Honest)'
    <2>1. [ReplyNext]_replyVars => [Next]_vars
        BY ReplyStep DEF replyVars
    <2> QED
        BY <2>1, NextOrderly, NextHonest
<1> QED
    BY <1>1, <1>2, <1>3, WorkingAlways, PTL DEF ReplySpec
=============================================================================
