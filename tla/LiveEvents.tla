----------------------------- MODULE LiveEvents -----------------------------
(***************************************************************************)
(* How a change of a job reaches the pages that show it: core/events (the  *)
(* event handler, the rooms, the hub's Durable Object), the browser's      *)
(* LiveEventsProvider and the hooks useJobs and useJob.                    *)
(*                                                                         *)
(* An event only says that something changed: a hook that hears of it      *)
(* reads the jobs again over HTTP.  Events can be lost between the write   *)
(* and the hub, and on a connection that breaks; the answers of two reads  *)
(* can overtake one another; a read can fail.                              *)
(*                                                                         *)
(* One user's browser is modelled, with one page that holds both hooks.    *)
(* The rooms of other users and of tenants carry nothing to it: connect    *)
(* joins the room of the user only.                                        *)
(***************************************************************************)
EXTENDS Naturals, Sequences

CONSTANTS
    Jobs,       \* jobs of the user
    Watched,    \* the job of useJob's page
    Hooks,      \* hooks on the page: "list" is useJobs, "detail" is useJob
    Final,      \* the last version of a row: the job is settled
    Writers,    \* who changes jobs: requests, Workflows, the page's own button
    Handled,    \* those of them whose env has an eventHandler
    MaxReads,   \* bound: a hook has at most so many unanswered requests
    None

ASSUME LiveAssumption ==
    /\ Watched \in Jobs
    /\ Final \in Nat \ {0}
    /\ MaxReads \in Nat \ {0}
    /\ Hooks \subseteq {"list", "detail"}
    /\ Writers \subseteq {"request", "workflow", "page"} /\ Handled \subseteq Writers
    /\ "page" \in Writers => "detail" \in Hooks
ASSUME NoneAssumption ==
    /\ None \notin [Jobs -> 0 .. Final]
    /\ None \notin [{Watched} -> 0 .. Final]

VARIABLES
    stored,     \* the rows of core_jobs: how often each has changed
    outbox,     \* changes whose event is not emitted yet
    attached,   \* the hub holds this browser's socket
    wire,       \* events sent on it and not delivered
    connection, \* what the provider believes of it
    reads,      \* each hook's requests, oldest first: unread, or what was read
    shown,      \* each hook's value
    failed,     \* each hook's error
    clean,      \* history: no fault since the connection opened
    calm        \* environment: no more faults

vars == <<stored, outbox, attached, wire, connection, reads, shown, failed, clean, calm>>
hooks == <<reads, shown, failed>>
transport == <<attached, wire, connection>>

View(h) == IF h = "list" THEN Jobs ELSE {Watched}
Snapshot(h) == [j \in View(h) |-> stored[j]]
Values(h) == [View(h) -> 0 .. Final] \cup {None}

\* Only shapes: rows, events under way, requests and what the hooks hold.
TypeOK ==
    /\ stored \in [Jobs -> 0 .. Final]
    /\ outbox \subseteq [job : Jobs, version : 1 .. Final, by : Writers]
    /\ attached \in BOOLEAN
    /\ wire \in Seq(Jobs)
    /\ connection \in {"connecting", "open", "reconnecting"}
    /\ reads \in [Hooks -> Seq(Values("list") \cup Values("detail"))]
    /\ shown \in [Hooks -> Values("list") \cup Values("detail")]
    /\ failed \in [Hooks -> BOOLEAN]
    /\ clean \in BOOLEAN /\ calm \in BOOLEAN

\* The page is mounted: both hooks have asked, the provider connects.
Init ==
    /\ stored = [j \in Jobs |-> 0]
    /\ outbox = {}
    /\ attached = FALSE /\ wire = <<>> /\ connection = "connecting"
    /\ reads = [h \in Hooks |-> <<None>>]
    /\ shown = [h \in Hooks |-> None]
    /\ failed = [h \in Hooks |-> FALSE]
    /\ clean = FALSE /\ calm = FALSE

-----------------------------------------------------------------------------
(* The server: a row changes, then its event is emitted.                   *)

\* updateJobRow: a settled row is kept.
Unsettled(j) == stored[j] < Final

(* Any update of core/jobs, by a request or by a Workflow's execution; the *)
(* page's own cancel button settles the job.                               *)
Change(j, by) ==
    /\ Unsettled(j)
    /\ by = "page" => j = Watched /\ shown["detail"] # None /\ shown["detail"][j] < Final
    /\ stored' = [stored EXCEPT ![j] = IF by = "page" THEN Final ELSE @ + 1]
    /\ outbox' = outbox \cup {[job |-> j, version |-> stored'[j], by |-> by]}
    /\ UNCHANGED <<transport, hooks, clean, calm>>

Asking(hs) == [h \in Hooks |-> IF h \in hs THEN Append(reads[h], None) ELSE reads[h]]
CanAsk(hs) == \A h \in hs : Len(reads[h]) < MaxReads

\* The page that cancelled a job reloads it when the request is answered.
Answered(e) == {"detail"} \cap (IF e.by = "page" THEN Hooks ELSE {})

(* emitEvent, publishLiveEvent, and the hub's send to the sockets it holds. *)
Emit(e) ==
    /\ e \in outbox
    /\ outbox' = outbox \ {e}
    /\ CanAsk(Answered(e))
    /\ wire' = IF e.by \in Handled /\ attached THEN Append(wire, e.job) ELSE wire
    /\ reads' = Asking(Answered(e))
    /\ clean' = (clean /\ e.by \in Handled)
    /\ UNCHANGED <<stored, attached, connection, shown, failed, calm>>

\* The hub rejects the event: a warning is logged, and the event is dropped.
EmitFails(e) ==
    /\ ~calm
    /\ e \in outbox
    /\ outbox' = outbox \ {e}
    /\ CanAsk(Answered(e))
    /\ reads' = Asking(Answered(e))
    /\ clean' = FALSE
    /\ UNCHANGED <<stored, transport, shown, failed, calm>>

-----------------------------------------------------------------------------
(* The connection.                                                         *)

\* connect, through the API's GET /api/events: the hub accepts the socket.
Attach ==
    /\ connection # "open" /\ ~attached
    /\ attached' = TRUE
    /\ UNCHANGED <<stored, outbox, wire, connection, hooks, clean, calm>>

\* The hooks that reload when the connection opens; against: none.
NoReopeners == {}
Reopeners == Hooks \cap {"list"}

\* onopen.
Open ==
    /\ attached /\ connection # "open"
    /\ CanAsk(Reopeners)
    /\ connection' = "open"
    /\ reads' = Asking(Reopeners)
    /\ clean' = TRUE
    /\ UNCHANGED <<stored, outbox, attached, wire, shown, failed, calm>>

(* The socket breaks, or the hub could not send on it and closed it: what  *)
(* was on its way is lost.                                                 *)
Break ==
    /\ ~calm
    /\ attached
    /\ attached' = FALSE /\ wire' = <<>>
    /\ clean' = FALSE
    /\ UNCHANGED <<stored, outbox, connection, hooks, calm>>

\* onclose: a timer connects again.
Close ==
    /\ connection = "open" /\ ~attached
    /\ connection' = "reconnecting"
    /\ UNCHANGED <<stored, outbox, attached, wire, hooks, clean, calm>>

\* Against: only the hook of the job itself.
OwnListeners(j) == Hooks \cap {"detail"}
\* Which hooks an event of job j makes reload.
Listeners(j) == {h \in Hooks : j \in View(h)}

\* onmessage.
Deliver ==
    /\ connection = "open" /\ wire # <<>>
    /\ CanAsk(Listeners(Head(wire)))
    /\ wire' = Tail(wire)
    /\ reads' = Asking(Listeners(Head(wire)))
    /\ UNCHANGED <<stored, outbox, attached, connection, shown, failed, clean, calm>>

-----------------------------------------------------------------------------
(* The reads.                                                              *)

\* GET /api/jobs, or /api/jobs/:id: the server reads the rows.
Read(h, i) ==
    /\ i \in DOMAIN reads[h] /\ reads[h][i] = None
    /\ reads' = [reads EXCEPT ![h][i] = Snapshot(h)]
    /\ UNCHANGED <<stored, outbox, transport, shown, failed, clean, calm>>

\* The oldest request is answered: setJobs or setJob, and setError(null).
Show(h) ==
    /\ reads[h] # <<>> /\ Head(reads[h]) # None
    /\ shown' = [shown EXCEPT ![h] = Head(reads[h])]
    /\ failed' = [failed EXCEPT ![h] = FALSE]
    /\ reads' = [reads EXCEPT ![h] = Tail(@)]
    /\ UNCHANGED <<stored, outbox, transport, clean, calm>>

\* A younger one is answered first; the older will replace it.
Overtake(h) ==
    /\ ~calm
    /\ Len(reads[h]) > 1 /\ reads[h][2] # None
    /\ shown' = [shown EXCEPT ![h] = reads[h][2]]
    /\ failed' = [failed EXCEPT ![h] = FALSE]
    /\ reads' = [reads EXCEPT ![h] = <<Head(@)>> \o Tail(Tail(@))]
    /\ clean' = FALSE
    /\ UNCHANGED <<stored, outbox, transport, calm>>

\* A request fails: setError.
ReadFails(h) ==
    /\ ~calm
    /\ reads[h] # <<>>
    /\ failed' = [failed EXCEPT ![h] = TRUE]
    /\ reads' = [reads EXCEPT ![h] = Tail(@)]
    /\ clean' = FALSE
    /\ UNCHANGED <<stored, outbox, transport, shown, calm>>

BecomeCalm ==
    /\ ~calm /\ calm' = TRUE
    /\ UNCHANGED <<stored, outbox, transport, hooks, clean>>

-----------------------------------------------------------------------------
EmitSome == \E e \in outbox : Emit(e)
ReadSome(h) == \E i \in DOMAIN reads[h] : Read(h, i)

Next ==
    \/ \E j \in Jobs, by \in Writers : Change(j, by)
    \/ EmitSome
    \/ \E e \in outbox : EmitFails(e)
    \/ Attach \/ Open \/ Break \/ Close \/ Deliver
    \/ \E h \in Hooks : ReadSome(h) \/ Show(h) \/ Overtake(h) \/ ReadFails(h)
    \/ BecomeCalm

Spec == Init /\ [][Next]_vars

(* Invocations go on, requests are answered, the provider connects again   *)
(* whenever it has noticed that its connection is gone.                    *)
FairSpec ==
    /\ Spec
    /\ WF_vars(EmitSome)
    /\ WF_vars(Attach) /\ WF_vars(Open) /\ WF_vars(Close) /\ WF_vars(Deliver)
    /\ \A h \in Hooks : WF_vars(ReadSome(h)) /\ WF_vars(Show(h))

-----------------------------------------------------------------------------
Current(h) == shown[h] = Snapshot(h) /\ ~failed[h]

(* On a connection that has had no fault since it opened, a list with       *)
(* nothing under way shows the jobs as they are stored: the reload on       *)
(* opening covers every change made while there was no connection, however  *)
(* the two overlap (useJobs, jobs.tsx:56).                                  *)
ListIsCurrent ==
    "list" \in Hooks /\ clean /\ connection = "open" /\ outbox = {} /\ wire = <<>>
        => reads["list"] # <<>> \/ Current("list")

(* Whatever was lost, overtaken or failed before, a list that reconnects    *)
(* when the faults are over is up to date in the end, and stays so.         *)
ListCatchesUp == (calm /\ connection # "open") ~> []Current("list")

(* The same for the page of one job: README.md:244.                        *)
DetailCatchesUp == (calm /\ connection # "open") ~> []Current("detail")

(* Every lifecycle change is emitted to the owner's room: README.md:240.   *)
EveryChangeIsEmitted == [][\A e \in outbox : e \notin outbox' /\ attached /\ calm
                              => wire' = Append(wire, e.job)]_vars
=============================================================================
