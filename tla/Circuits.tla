------------------------------ MODULE Circuits ------------------------------
(***************************************************************************)
(* Healthchecks and circuit breakers: src/core/healthchecks, src/core/     *)
(* circuits and the manifest registration of src/runtime/features.ts, one  *)
(* D1 statement at a time.                                                 *)
(*                                                                         *)
(* A caller is an invocation: a request, or the scheduled handler of one   *)
(* isolate (Scheduler).  It registers manifests, writes a health state or  *)
(* a breaker state, and evaluates breakers in parallel: task[c][b] is the  *)
(* evaluateCircuitBreaker or setCircuitBreaker that c has in flight for b. *)
(***************************************************************************)
EXTENDS Naturals, Sequences

CONSTANTS Checks, Breakers, Callers,
          Scheduler,     \* the caller that runs the scheduled refresh
          Watches,       \* the healthchecks a breaker declares
          DependsOn,     \* the breakers a breaker declares
          Mode,          \* healthcheck_mode
          SelfHeals,     \* the breakers with allow_self_healing
          Declared,      \* the state a breaker is first registered with
          Manifest,      \* the order in which the manifests register everything
          Calls,         \* the calls in use
          Measurable,    \* what a health probe measures
          HumanStates,   \* states an administrator asks for
          Faults         \* a subset of {"store", "crash"}

HealthState == {"green", "yellow", "red"}
BreakerState == {"off", "tripped", "on"}

\* The scheduled refresh, the registration a request starts, the PUTs of a health and of
\* a breaker state, the operator's commands for both, and the model probe.
CallNames == {"refresh", "ensure", "put", "set", "cli", "models"}

ASSUME CircuitsAssumption ==
    /\ Scheduler \in Callers
    /\ Checks \cap Breakers = {}
    /\ Watches \in [Breakers -> SUBSET Checks]
    /\ DependsOn \in [Breakers -> SUBSET Breakers]
    /\ Mode \in [Breakers -> {"any", "all"}]
    /\ SelfHeals \subseteq Breakers
    /\ Declared \in [Breakers -> {"off", "on"}]
    /\ Manifest \in Seq(Checks \cup Breakers) /\ Manifest # <<>>
    /\ Calls \subseteq CallNames
    /\ Measurable \subseteq HealthState /\ "green" \in Measurable
    /\ HumanStates \subseteq BreakerState
    /\ Faults \subseteq {"store", "crash"}

VARIABLES world,    \* what a probe would measure now
          health,   \* core_healthchecks.state
          state,    \* core_circuit_breakers.state
          related,  \* breakers whose relation rows are stored
          cached,   \* featureRegistrationPromises of the isolate
          call,     \* activation records
          task,     \* evaluations and writes in flight
          alarmed,  \* history: something was red, or an operator tripped a breaker
          overtaken,\* history: automated writes about to be made over somebody else's
          settled   \* from now on the outside world and the administrators are quiet

rows == <<health, state, related>>
outside == <<world, settled>>
vars == <<world, health, state, related, cached, call, task, alarmed, overtaken, settled>>

Green == [h \in Checks |-> "green"]
Red == [h \in Checks |-> "red"]

NoTask == [pc |-> "none", automated |-> TRUE, next |-> "on", seen |-> "on",
           pending |-> {}, trip |-> FALSE]
Task == [pc : {"none", "breaker", "states", "current", "write"}, automated : BOOLEAN,
         next : BreakerState, seen : BreakerState,
         pending : SUBSET {"checks", "dependencies"}, trip : BOOLEAN]

NoCall == [op |-> "refresh", pc |-> "idle", todo |-> <<>>, measured |-> Green]
Call == [op : CallNames,
         pc : {"idle", "register", "relations", "list", "await", "failed"},
         todo : Seq(Checks \cup Breakers), measured : [Checks -> HealthState]]

TypeOK ==
    /\ world \in [Checks -> HealthState]
    /\ health \in [Checks -> HealthState \cup {"absent"}]
    /\ state \in [Breakers -> BreakerState \cup {"absent"}]
    /\ related \subseteq Breakers
    /\ cached \in {"none", "running", "done"}
    /\ call \in [Callers -> Call]
    /\ task \in [Callers -> [Breakers -> Task]]
    /\ alarmed \in BOOLEAN
    /\ overtaken \subseteq Callers \X Breakers
    /\ settled \in BOOLEAN

Init ==
    /\ world = Green
    /\ health = [h \in Checks |-> "absent"]
    /\ state = [b \in Breakers |-> "absent"]
    /\ related = {}
    /\ cached = "none"
    /\ call = [c \in Callers |-> NoCall]
    /\ task = [c \in Callers |-> [b \in Breakers |-> NoTask]]
    /\ alarmed = FALSE
    /\ overtaken = {}
    /\ settled = FALSE
-----------------------------------------------------------------------------
(* Activation records *)

Idle(c) == call[c].pc = "idle" /\ task[c] = [b \in Breakers |-> NoTask]

Begin(c, op, pc, todo, measured) ==
    /\ op \in Calls
    /\ Idle(c)
    /\ call' = [call EXCEPT ![c] = [op |-> op, pc |-> pc, todo |-> todo,
                                    measured |-> measured]]

Goto(c, pc, todo) == call' = [call EXCEPT ![c].pc = pc, ![c].todo = todo]

\* A registration moves on; after the last row the breakers are listed.
Advance(c) ==
    LET rest == Tail(call[c].todo) IN
    call' = [call EXCEPT ![c].todo = rest,
                         ![c].pc = IF rest = <<>> THEN "list" ELSE "register",
                         ![c].measured = IF rest = <<>> THEN Green ELSE @]

Resume(c, b, t) == task' = [task EXCEPT ![c][b] = t]

At(c, b, pc) == task[c][b].pc = pc
-----------------------------------------------------------------------------
(* The calls *)

\* The scheduled handler, refreshFeatureManifests: probe, register, evaluate.
BeginRefresh(c) ==
    /\ c = Scheduler
    /\ Begin(c, "refresh", "register", Manifest, world)
    /\ UNCHANGED <<outside, rows, cached, task, alarmed, overtaken>>

\* A request in an isolate that has no registration promise.  One that finds a promise
\* changes nothing.
BeginEnsure(c) ==
    /\ c # Scheduler
    /\ cached = "none"
    /\ cached' = "running"
    /\ Begin(c, "ensure", "register", Manifest, world)
    /\ UNCHANGED <<outside, rows, task, alarmed, overtaken>>

\* PUT /api/admin/healthchecks/:id, updateHealthcheck: the state is written, then the
\* breakers are listed.
BeginPut(c, h, s) ==
    /\ ~settled
    /\ c # Scheduler
    /\ health[h] # "absent"
    /\ health' = [health EXCEPT ![h] = s]
    /\ alarmed' = (alarmed \/ s = "red")
    /\ Begin(c, "put", "list", <<h>>, Green)
    /\ UNCHANGED <<outside, state, related, cached, task, overtaken>>

\* PUT /api/admin/circuit-breakers/:id by an administrator.
BeginSet(c, b, s) ==
    /\ ~settled
    /\ c # Scheduler
    /\ Begin(c, "set", "await", <<>>, Green)
    /\ Resume(c, b, [NoTask EXCEPT !.pc = "current", !.automated = FALSE, !.next = s])
    /\ UNCHANGED <<outside, rows, cached, alarmed, overtaken>>

\* cf-genai circuit-breakers set: the row is looked up, then written in any state.
BeginOperatorSet(c, b, s) ==
    /\ ~settled
    /\ c # Scheduler
    /\ state[b] # "absent"
    /\ Begin(c, "cli", "await", <<>>, Green)
    /\ Resume(c, b, [NoTask EXCEPT !.pc = "write", !.automated = FALSE, !.next = s])
    /\ alarmed' = (alarmed \/ s = "tripped")
    /\ UNCHANGED <<outside, rows, cached, overtaken>>

\* cf-genai healthchecks set: one UPDATE, no evaluation.
OperatorSetsHealth(h, s) ==
    /\ "cli" \in Calls
    /\ ~settled
    /\ health[h] # "absent"
    /\ health' = [health EXCEPT ![h] = s]
    /\ alarmed' = (alarmed \/ s = "red")
    /\ UNCHANGED <<outside, state, related, cached, call, task, overtaken>>

\* createLLM's listModels asked the provider; it registers the outcome and its breaker,
\* which heals itself.
BeginModels(c, h, b) ==
    /\ ~settled
    /\ c # Scheduler
    /\ Watches[b] = {h} /\ DependsOn[b] = {} /\ b \in SelfHeals
    /\ world[h] # "yellow"
    /\ Begin(c, "models", "register", <<h, b>>, [x \in Checks |-> world[h]])
    /\ UNCHANGED <<outside, rows, cached, task, alarmed, overtaken>>
-----------------------------------------------------------------------------
(* Registration *)

\* saveHealthcheck: the upsert overwrites the state.
RegisterCheck(c) ==
    /\ call[c].pc = "register"
    /\ LET h == Head(call[c].todo) IN
         /\ h \in Checks
         /\ health' = [health EXCEPT ![h] = call[c].measured[h]]
    /\ Advance(c)
    /\ UNCHANGED <<outside, state, related, cached, task, alarmed, overtaken>>

OverwritesBreaker(c) ==
    /\ call[c].pc = "register"
    /\ LET b == Head(call[c].todo) IN
         /\ b \in Breakers
         /\ state' = [state EXCEPT ![b] = Declared[b]]
    /\ Goto(c, "relations", call[c].todo)
    /\ UNCHANGED <<outside, health, related, cached, task, alarmed, overtaken>>

\* saveCircuitBreaker: the upsert keeps the state of a row that exists.
RegisterBreaker(c) ==
    /\ call[c].pc = "register"
    /\ LET b == Head(call[c].todo) IN
         /\ b \in Breakers
         /\ state' = [state EXCEPT ![b] = IF @ = "absent" THEN Declared[b] ELSE @]
    /\ Goto(c, "relations", call[c].todo)
    /\ UNCHANGED <<outside, health, related, cached, task, alarmed, overtaken>>

\* The probe of a listModels call failed.
Failed(c) == \E h \in Checks : call[c].measured[h] = "red"

\* The foreign keys of the relation rows of b.
RelationsFit(b) == /\ \A h \in Watches[b] : health[h] # "absent"
                   /\ \A d \in DependsOn[b] : state[d] # "absent"

\* The batch of saveCircuitBreaker replaces the relation rows in one transaction.  A
\* manifest registration goes on; listModels ends in an automated setCircuitBreaker.
RegisterRelations(c) ==
    /\ call[c].pc = "relations"
    /\ LET b == Head(call[c].todo) IN
         /\ RelationsFit(b)
         /\ related' = related \cup {b}
         /\ \/ /\ call[c].op # "models"
               /\ Advance(c)
               /\ UNCHANGED task
            \/ /\ call[c].op = "models"
               /\ call' = [call EXCEPT ![c] = [NoCall EXCEPT !.op = "models", !.pc = "await"]]
               /\ Resume(c, b, [NoTask EXCEPT !.pc = "current",
                    !.next = IF Failed(c) THEN "tripped" ELSE "on"])
    /\ UNCHANGED <<outside, health, state, cached, alarmed, overtaken>>

\* listCircuitBreakers, then Promise.all over evaluateCircuitBreaker: all breakers, or
\* the ones that watch the check a PUT has written.
List(c) ==
    /\ call[c].pc = "list"
    /\ task' = [task EXCEPT ![c] = [b \in Breakers |->
         IF /\ state[b] # "absent"
            /\ call[c].op = "put" => b \in related /\ Head(call[c].todo) \in Watches[b]
         THEN [NoTask EXCEPT !.pc = "breaker"]
         ELSE NoTask]]
    /\ Goto(c, "await", <<>>)
    /\ UNCHANGED <<outside, rows, cached, alarmed, overtaken>>

\* The promise of ensureFeatureManifests: kept when it resolves, deleted when it rejects.
Settle(c, outcome) == cached' = IF call[c].op = "ensure" THEN outcome ELSE cached

Finish(c) ==
    /\ call[c].pc \in {"await", "failed"}
    /\ task[c] = [b \in Breakers |-> NoTask]
    /\ call' = [call EXCEPT ![c] = NoCall]
    /\ IF call[c].pc = "await" THEN Settle(c, "done") ELSE UNCHANGED cached
    /\ UNCHANGED <<outside, rows, task, alarmed, overtaken>>

StoreMayFail == "store" \in Faults /\ ~settled

StatementRejects(c) ==
    \/ StoreMayFail /\ call[c].pc \in {"register", "relations", "list"}
    \/ call[c].pc = "relations" /\ ~RelationsFit(Head(call[c].todo))

KeepsRejection(c) ==
    /\ StatementRejects(c)
    /\ call' = [call EXCEPT ![c] = NoCall]
    /\ Settle(c, "done")
    /\ UNCHANGED <<outside, rows, task, alarmed, overtaken>>

\* A statement of the call's own rejects: D1 fails, or a foreign key does.  When listModels
\* stores a success, the error is caught as if the probe had failed and the outcome is
\* stored again, as red; when it stores a failure, it ignores a check it cannot store.
Throw(c) ==
    /\ StatementRejects(c)
    /\ \/ /\ call[c].op = "models" => Failed(c) /\ Head(call[c].todo) \in Breakers
          /\ call' = [call EXCEPT ![c] = NoCall]
          /\ UNCHANGED alarmed
       \/ /\ call[c].op = "models" /\ Failed(c)
          /\ \E h \in Checks, b \in Breakers :
               /\ call[c].todo = <<h, b>>
               /\ call' = [call EXCEPT ![c].todo = <<b>>]
          /\ UNCHANGED alarmed
       \/ /\ call[c].op = "models" /\ ~Failed(c)
          /\ \E h \in Checks, b \in Breakers :
               /\ call[c].todo[Len(call[c].todo)] = b
               /\ Watches[b] = {h}
               /\ call' = [call EXCEPT ![c].pc = "register", ![c].todo = <<h, b>>,
                                       ![c].measured = Red]
          /\ alarmed' = TRUE
    /\ Settle(c, "none")
    /\ UNCHANGED <<outside, rows, task, overtaken>>
-----------------------------------------------------------------------------
(* evaluateCircuitBreaker and setCircuitBreaker *)

TaskStep == UNCHANGED <<outside, rows, cached, call, alarmed, overtaken>>

ReadBreaker(c, b) ==
    /\ At(c, b, "breaker")
    /\ Resume(c, b, [NoTask EXCEPT !.pc = "states", !.seen = state[b],
                                   !.pending = {"checks", "dependencies"}])
    /\ TaskStep

HealthFailed(b) ==
    LET watched == IF b \in related THEN Watches[b] ELSE {} IN
    /\ watched # {}
    /\ IF Mode[b] = "all" THEN \A h \in watched : health[h] = "red"
                          ELSE \E h \in watched : health[h] = "red"

DependencyFailed(b) == b \in related /\ \E d \in DependsOn[b] : state[d] = "tripped"

NeverHeals(t, b) ==
    IF t.pending # {} THEN t
    ELSE IF t.seen = "on" /\ t.trip
         THEN [NoTask EXCEPT !.pc = "current", !.next = "tripped"]
    ELSE NoTask

\* Once both SELECTs have answered, the evaluation trips, heals or leaves the breaker.
Decide(t, b) ==
    IF t.pending # {} THEN t
    ELSE IF t.seen = "on" /\ t.trip
         THEN [NoTask EXCEPT !.pc = "current", !.next = "tripped"]
    ELSE IF t.seen = "tripped" /\ ~t.trip /\ b \in SelfHeals
         THEN [NoTask EXCEPT !.pc = "current", !.next = "on"]
    ELSE NoTask

\* readHealthcheckStates and readDependencyStates run in parallel.
ReadStates(c, b, source, failed) ==
    /\ At(c, b, "states")
    /\ source \in task[c][b].pending
    /\ Resume(c, b, Decide([task[c][b] EXCEPT !.pending = @ \ {source},
                                              !.trip = @ \/ failed], b))
    /\ TaskStep

ReadHealthcheckStates(c, b) == ReadStates(c, b, "checks", HealthFailed(b))
ReadDependencyStates(c, b) == ReadStates(c, b, "dependencies", DependencyFailed(b))

MayTripByHand(t, b) ==
    IF t.automated
    THEN \/ state[b] = "on" /\ t.next = "tripped"
         \/ state[b] = "tripped" /\ t.next = "on" /\ b \in SelfHeals
    ELSE state[b] # "absent"

\* Against: what the evaluation saw is believed, and the row is not read again.
MayMoveUnread(t, b) ==
    IF t.automated
    THEN t.next = "tripped" \/ b \in SelfHeals
    ELSE state[b] # "absent" /\ t.next # "tripped"

\* What setCircuitBreaker lets through, given the state it has just read.
MayMove(t, b) ==
    IF t.automated
    THEN \/ state[b] = "on" /\ t.next = "tripped"
         \/ state[b] = "tripped" /\ t.next = "on" /\ b \in SelfHeals
    ELSE state[b] # "absent" /\ t.next # "tripped"

ReadCurrent(c, b) ==
    /\ At(c, b, "current")
    /\ Resume(c, b, IF MayMove(task[c][b], b)
                    THEN [task[c][b] EXCEPT !.pc = "write"] ELSE NoTask)
    /\ TaskStep

\* History: c writes b, past the automated writes that were decided on what b was.
Overtakes(c, b) ==
    overtaken' = (overtaken \ {<<c, b>>}) \cup
        ({d \in Callers \ {c} : At(d, b, "write") /\ task[d][b].automated} \X {b})

WriteCause(c, b) ==
    /\ At(c, b, "write")
    /\ state' = [state EXCEPT ![b] = IF task[c][b].next = "tripped" THEN "red" ELSE "on"]
    /\ Resume(c, b, NoTask)
    /\ Overtakes(c, b)
    /\ UNCHANGED <<outside, health, related, cached, call, alarmed>>

\* writeCircuitBreakerState: UPDATE ... WHERE id = ?, whatever the state is by now.  The
\* audit row and the SELECT for the answer follow.
WriteState(c, b) ==
    /\ At(c, b, "write")
    /\ state' = [state EXCEPT ![b] = task[c][b].next]
    /\ Resume(c, b, NoTask)
    /\ Overtakes(c, b)
    /\ UNCHANGED <<outside, health, related, cached, call, alarmed>>

\* A statement of a task rejects, before or after the UPDATE; so does Promise.all, while
\* the other tasks run on.
TaskThrows(c, b) ==
    /\ StoreMayFail
    /\ task[c][b].pc # "none"
    /\ \/ UNCHANGED state /\ overtaken' = overtaken \ {<<c, b>>}
       \/ /\ At(c, b, "write")
          /\ state' = [state EXCEPT ![b] = task[c][b].next]
          /\ Overtakes(c, b)
    /\ Resume(c, b, NoTask)
    /\ call' = [call EXCEPT ![c].pc = "failed"]
    /\ IF call[c].pc = "await" THEN Settle(c, "none") ELSE UNCHANGED cached
    /\ UNCHANGED <<outside, health, related, alarmed>>
-----------------------------------------------------------------------------
(* The environment *)

WorldChanges(h, s) ==
    /\ ~settled
    /\ world' = [world EXCEPT ![h] = s]
    /\ alarmed' = (alarmed \/ s = "red")
    /\ UNCHANGED <<settled, rows, cached, call, task, overtaken>>

WorldSettles ==
    /\ ~settled
    /\ settled' = TRUE
    /\ UNCHANGED <<world, rows, cached, call, task, alarmed, overtaken>>

\* The invocation is evicted, with the promise that its isolate holds.
Crash(c) ==
    /\ "crash" \in Faults /\ ~settled
    /\ ~Idle(c)
    /\ call' = [call EXCEPT ![c] = NoCall]
    /\ task' = [task EXCEPT ![c] = [b \in Breakers |-> NoTask]]
    /\ overtaken' = overtaken \ ({c} \X Breakers)
    /\ IF call[c].pc = "failed" THEN UNCHANGED cached ELSE Settle(c, "none")
    /\ UNCHANGED <<outside, rows, alarmed>>

BeginCall(c) ==
    \/ BeginRefresh(c)
    \/ BeginEnsure(c)
    \/ \E h \in Checks, s \in Measurable : BeginPut(c, h, s)
    \/ \E b \in Breakers, s \in HumanStates : BeginSet(c, b, s)
    \/ \E b \in Breakers, s \in HumanStates : BeginOperatorSet(c, b, s)
    \/ \E h \in Checks, b \in Breakers : BeginModels(c, h, b)

CallStep(c) ==
    \/ RegisterCheck(c)
    \/ RegisterBreaker(c)
    \/ RegisterRelations(c)
    \/ List(c)
    \/ Finish(c)
    \/ Throw(c)

Evaluate(c, b) ==
    \/ ReadBreaker(c, b)
    \/ ReadHealthcheckStates(c, b)
    \/ ReadDependencyStates(c, b)
    \/ ReadCurrent(c, b)
    \/ WriteState(c, b)

Next ==
    \/ \E c \in Callers :
         \/ BeginCall(c)
         \/ CallStep(c)
         \/ \E b \in Breakers : Evaluate(c, b) \/ TaskThrows(c, b)
         \/ Crash(c)
    \/ \E h \in Checks, s \in Measurable : OperatorSetsHealth(h, s) \/ WorldChanges(h, s)

Spec == Init /\ [][Next]_vars

\* From some point on the outside is quiet; D1 answers, and the platform keeps running
\* the scheduled handler.
FairSpec ==
    /\ Init /\ [][Next \/ WorldSettles]_vars
    /\ WF_vars(BeginRefresh(Scheduler))
    /\ \A c \in Callers : WF_vars(CallStep(c))
    /\ \A c \in Callers, b \in Breakers : WF_vars(Evaluate(c, b))
-----------------------------------------------------------------------------
(* Properties *)

HumanWrites(b) ==
    \E c \in Callers : /\ At(c, b, "write")
                       /\ ~task[c][b].automated
                       /\ task'[c][b] = NoTask

\* The write of b that is made now was decided before another write of b.
WritesLate(b) ==
    \E c \in Callers : At(c, b, "write") /\ task'[c][b] = NoTask /\ <<c, b>> \in overtaken

\* Whatever races, automation only trips what is on and only revives what is tripped and
\* heals itself; it leaves an "off" breaker, one that was put in order by hand, and any row
\* that a registration finds, as they are.  The one exception is a write that another
\* write has overtaken since setCircuitBreaker read the row; and even that neither turns a
\* breaker off nor revives one that does not heal itself.
AutomationStaysInPolicy ==
    [][\A b \in Breakers :
         state'[b] # state[b] /\ state[b] # "absent" /\ ~HumanWrites(b)
         => /\ state'[b] = "tripped" \/ (state'[b] = "on" /\ b \in SelfHeals)
            /\ state[b] # "off" \/ WritesLate(b)]_vars

\* No breaker trips unless a check was red, a model probe failed or an operator tripped
\* one: not while relation rows are missing, not through a dependency that is off.
TripsAreCaused ==
    ~alarmed => \A b \in Breakers : state[b] # "tripped"

\* An isolate that skips registration because its promise resolved finds every breaker
\* of its manifests in the table, with its relations.
WarmMeansRegistered ==
    cached = "done" =>
        \A i \in 1 .. Len(Manifest) :
            Manifest[i] \in Breakers => /\ state[Manifest[i]] # "absent"
                                        /\ Manifest[i] \in related

\* A breaker that is not off is tripped exactly when its checks or dependencies say so,
\* unless it waits for a human to restore it.
Agrees(b) ==
    LET trip == HealthFailed(b) \/ DependencyFailed(b) IN
    /\ state[b] = "on" => ~trip
    /\ state[b] = "tripped" /\ b \in SelfHeals => trip

\* Once the world and the administrators are quiet, the scheduled refreshes bring the
\* checks, the breakers and the rollups that depend on breakers into agreement, and keep
\* them there, whatever was interrupted before.
Converges ==
    [](settled => <>[](/\ \A h \in Checks : health[h] = world[h]
                       /\ \A b \in Breakers : Agrees(b)))

\* "off" belongs to the administrators: automation never leaves it.
OffIsHuman ==
    [][\A b \in Breakers :
         state[b] = "off" /\ state'[b] # "off" => HumanWrites(b)]_vars
=============================================================================
