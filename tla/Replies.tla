------------------------------- MODULE Replies -------------------------------
(***************************************************************************)
(* What the executors of features/messaging and features/llm do inside     *)
(* executeJob: the callback that Jobs leaves open.                         *)
(*                                                                         *)
(* executeReplyJob loads a conversation, has a reply generated through the *)
(* LLM service and appends it; generateJob generates only.  Both run as    *)
(* Workflow steps, and report their progress between the steps, each       *)
(* report being an updateJob of Jobs.  What a call to the outside answers  *)
(* (the conversation, the breaker, the provider, the schema's check) is    *)
(* open: it goes on or it throws.                                          *)
(***************************************************************************)
EXTENDS Jobs, Naturals, Sequences

CONSTANT Dispatchers    \* the callers that create jobs; the others execute or cancel them

ASSUME RepliesAssumption == Dispatchers \subseteq Callers

VARIABLES kind,     \* what each job is for: a reply, or a generation
          work      \* how far the callback of each call is

replyVars == <<vars, kind, work>>

Kinds == {"reply", "generation"}

\* Against: progress is reported once more after the reply was appended.
ReportsLate(k) ==
    IF k = "reply"
    THEN <<"report", "load", "report", "guard", "ask", "read", "check", "accept", "append", "report">>
    ELSE <<"report", "ask", "report", "read", "report", "check">>
\* The awaits of each callback, in their order.
Plan(k) ==
    IF k = "reply"
    THEN <<"report", "load", "report", "guard", "ask", "read", "check", "accept", "report", "append">>
    ELSE <<"report", "ask", "report", "read", "report", "check">>
AskStep(k) == IF k = "reply" THEN 5 ELSE 2

KindOf(c) == kind[call[c].job]
Finished(c) == work[c].step > Len(Plan(KindOf(c)))
Doing(c, what) == At(c, "callback") /\ ~Finished(c) /\ Plan(KindOf(c))[work[c].step] = what

Untouched == [step |-> 1, asked |-> 0, reply |-> "none"]

\* Only shapes: the kinds of the jobs, the progress of the callbacks.
ReplyTypeOK ==
    /\ kind \in [Jobs -> Kinds]
    /\ work \in [Callers -> [step : 1 .. 11, asked : Nat, reply : {"none", "stored", "sent"}]]

ReplyInit ==
    /\ Init
    /\ kind \in [Jobs -> Kinds]
    /\ work = [c \in Callers |-> Untouched]
-----------------------------------------------------------------------------
(* The steps of the callbacks                                              *)

Later(w) == [w EXCEPT !.step = @ + 1]
GoesOn(c) == work' = [work EXCEPT ![c] = Later(@)] /\ UNCHANGED <<vars, kind>>
Throws(c, w) == CallbackThrows(c) /\ work' = [work EXCEPT ![c] = w] /\ UNCHANGED kind

\* await report({ phase }): whatever row it is answered, the callback goes on.
ReportPhase(c) ==
    /\ Doing(c, "report")
    /\ Report(c)
    /\ work' = [work EXCEPT ![c] = Later(@)]
    /\ UNCHANGED kind

\* findConversationById, or conversation_not_found.
LoadConversation(c) ==
    /\ Doing(c, "load")
    /\ GoesOn(c) \/ Throws(c, work[c])

\* requireFeatureCircuit: the breaker was read as on, or 503.
RequireCircuit(c) ==
    /\ Doing(c, "guard")
    /\ GoesOn(c) \/ Throws(c, work[c])

Asked(w) == [w EXCEPT !.asked = @ + 1]

(* request up to the provider's answer: assertAvailable, resolveConfig and *)
(* resolveModel may throw before the provider is asked, the fetch after.   *)
RequestProvider(c) ==
    /\ Doing(c, "ask")
    /\ \/ work' = [work EXCEPT ![c] = Later(Asked(@))] /\ UNCHANGED <<vars, kind>>
       \/ \E w \in {work[c], Asked(work[c])} : Throws(c, w)

\* The rest of request: an error status, a malformed payload or no text throws.
ReadAnswer(c) ==
    /\ Doing(c, "read")
    /\ GoesOn(c) \/ Throws(c, work[c])

MayRepair(w) == w.asked < 2

(* validateAndReturn: an answer that does not match the schema is repaired *)
(* by one more request; the second one that does not match throws.         *)
CheckSchema(c) ==
    /\ Doing(c, "check")
    /\ \/ GoesOn(c)
       \/ /\ MayRepair(work[c])
          /\ work' = [work EXCEPT ![c].step = AskStep(KindOf(c))]
          /\ UNCHANGED <<vars, kind>>
       \/ ~MayRepair(work[c]) /\ Throws(c, work[c])

\* onSuccess of the service, and "Reply generator must return a message object".
AcceptReply(c) ==
    /\ Doing(c, "accept")
    /\ GoesOn(c) \/ Throws(c, work[c])

(* appendMessage: refused (the conversation is gone, or no longer the      *)
(* sender's), stored and then rejected by its UPDATE, or answered.         *)
AppendReply(c) ==
    /\ Doing(c, "append")
    /\ \/ work' = [work EXCEPT ![c] = Later([@ EXCEPT !.reply = "sent"])] /\ UNCHANGED <<vars, kind>>
       \/ \E reply \in {"none", "stored"} : Throws(c, [work[c] EXCEPT !.reply = reply])

\* The callback's promise resolves; the default toJobResult only reads ids.
Resolves(c) ==
    /\ Finished(c)
    /\ CallbackReturns(c)
    /\ UNCHANGED <<kind, work>>

CallbackStep(c) ==
    \/ ReportPhase(c) \/ LoadConversation(c) \/ RequireCircuit(c) \/ RequestProvider(c)
    \/ ReadAnswer(c) \/ CheckSchema(c) \/ AcceptReply(c) \/ AppendReply(c) \/ Resolves(c)
-----------------------------------------------------------------------------
(* Around the callback: the calls of Jobs that such a job meets.            *)

BeginSome(c, j) ==
    IF c \in Dispatchers THEN BeginDispatch(c, j) ELSE BeginExecute(c, j) \/ BeginCancel(c, j)

OwnStep(c) ==
    \/ CallbackStep(c)
    \/ ~At(c, "callback") /\ (Statement(c) \/ Continue(c)) /\ UNCHANGED <<kind, work>>

ReplyNext ==
    \E c \in Callers :
        \/ OwnStep(c)
        \/ /\ (\E j \in Jobs : BeginSome(c, j)) \/ StoreFails(c) \/ Crash(c)
           /\ UNCHANGED <<kind, work>>

ReplySpec == ReplyInit /\ [][ReplyNext]_replyVars

\* Statements and requests are answered or abandoned, and promises resume.
FairReplySpec == ReplySpec /\ \A c \in Callers : WF_replyVars(OwnStep(c))
-----------------------------------------------------------------------------
(* However often the Workflow engine delivers a job, and whatever fails, one *)
(* call at most asks the provider for it (twice, at most) and answers in its *)
(* conversation (executeReplyJob and generateJob work after the claim).      *)
WorkIsDoneOnce ==
    \A c \in Callers :
        /\ work[c].asked <= 2
        /\ \A d \in Callers \ {c} : call[c].job = call[d].job => Untouched \in {work[c], work[d]}

(* A reply job is recorded as succeeded only after its reply was appended.  *)
(* One whose reply was appended does not end as failed, even when an event  *)
(* handler threw afterwards, unless its dispatch was told that the Workflow *)
(* had not started and failed it meanwhile (messaging/jobs.ts:70).          *)
SentBy(c, j) == call[c].job = j /\ work[c].reply = "sent"
RecordedAsSent ==
    \A j \in Jobs : kind[j] = "reply" =>
        /\ status[j] = "succeeded" => \E c \in Callers : SentBy(c, j)
        /\ Quiescent /\ status[j] = "failed" /\ (\E c \in Callers : SentBy(c, j)) =>
              \E d \in Callers : call[d].job = j /\ Is(d, {"dispatch"}, {"failed"})

(* A job that ends before any execution claimed it costs nothing: when it was *)
(* cancelled in the queue, or failed by its own dispatch, no delivery by the *)
(* Workflow engine that arrives later, or is under way, asks the provider    *)
(* for it or answers in its conversation (claimJobRow, updateJobRow).        *)
EndedUnclaimed(j) == status[j] \in Terminal /\ claimed[j] = {}
Costless(j) == \A c \in Callers : call[c].job = j => work[c] = Untouched
EndedCostsNothing == \A j \in Jobs : [](EndedUnclaimed(j) => []Costless(j))
=============================================================================
