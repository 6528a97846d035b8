--------------------------- MODULE CircuitsProofs ---------------------------
(***************************************************************************)
(* Proofs about Circuits for every set of checks, breakers and callers,    *)
(* every manifest and every subset of the calls, states and faults.        *)
(***************************************************************************)
EXTENDS Circuits, TLAPS

\* TypeOK without the history of overtaken writes, which no action reads.
Shapes ==
    /\ world \in [Checks -> HealthState]
    /\ health \in [Checks -> HealthState \cup {"absent"}]
    /\ state \in [Breakers -> BreakerState \cup {"absent"}]
    /\ related \subseteq Breakers
    /\ cached \in {"none", "running", "done"}
    /\ call \in [Callers -> Call]
    /\ task \in [Callers -> [Breakers -> Task]]
    /\ alarmed \in BOOLEAN
    /\ settled \in BOOLEAN

\* A registration has a row left to store; the relations are those of a breaker.
RegistrationFits ==
    \A c \in Callers :
        /\ call[c].pc \in {"register", "relations"} => call[c].todo # <<>>
        /\ call[c].pc = "relations" => Head(call[c].todo) \in Breakers

\* What automation may write.
Automatic(next, b) == next = "tripped" \/ (next = "on" /\ b \in SelfHeals)

\* An evaluation finds its breaker; an automated UPDATE in flight was let through.
TasksFit ==
    \A c \in Callers, b \in Breakers :
        /\ At(c, b, "breaker") => state[b] # "absent"
        /\ At(c, b, "write") /\ task[c][b].automated =>
             Automatic(task[c][b].next, b)

\* Without an alarm nothing anywhere, stored or in flight, is a reason to trip.
Calm ==
    ~alarmed =>
        /\ \A h \in Checks : world[h] # "red" /\ health[h] # "red"
        /\ \A c \in Callers, h \in Checks : call[c].measured[h] # "red"
        /\ \A c \in Callers, b \in Breakers :
             /\ ~task[c][b].trip
             /\ task[c][b].automated \/ At(c, b, "write") => task[c][b].next # "tripped"
        /\ \A b \in Breakers : state[b] # "tripped"

\* The inductive invariant.
Safe == Shapes /\ RegistrationFits /\ TasksFit /\ Calm
-----------------------------------------------------------------------------


LEMMA NoTaskTyped == NoTask \in Task
    BY DEF NoTask, Task, BreakerState

LEMMA GreenTyped == Green \in [Checks -> HealthState] /\ Red \in [Checks -> HealthState]
    BY DEF Green, Red, HealthState

LEMMA NoCallTyped == NoCall \in Call
    BY GreenTyped DEF NoCall, Call, CallNames

LEMMA InitSafe == Init => Safe
<1> SUFFICES ASSUME Init PROVE Safe
    OBVIOUS
<1>1. Shapes
    BY NoTaskTyped, NoCallTyped, GreenTyped DEF Init, Shapes
<1>2. RegistrationFits
    BY DEF Init, RegistrationFits, NoCall
<1>3. TasksFit
    BY DEF Init, TasksFit, NoTask, At
<1>4. Calm
    BY DEF Init, Calm, NoTask, NoCall, Green, At
<1> QED
    BY <1>1, <1>2, <1>3, <1>4 DEF Safe

\* A step that replaces the record of one call, and no task.
LEMMA CallRecordStep ==
    ASSUME Safe, NEW c \in Callers, NEW k \in Call,
           call' = [call EXCEPT ![c] = k],
           UNCHANGED task,
           world' \in [Checks -> HealthState],
           health' \in [Checks -> HealthState \cup {"absent"}],
           state' \in [Breakers -> BreakerState \cup {"absent"}],
           related' \subseteq Breakers,
           cached' \in {"none", "running", "done"},
           alarmed' \in BOOLEAN, settled' \in BOOLEAN,
           k.pc \in {"register", "relations"} => k.todo # <<>>,
           k.pc = "relations" => Head(k.todo) \in Breakers,
           \A b \in Breakers : state[b] # "absent" => state'[b] # "absent",
           ~alarmed' =>
              /\ ~alarmed
              /\ \A h \in Checks : world'[h] # "red" /\ health'[h] # "red" /\ k.measured[h] # "red"
              /\ \A b \in Breakers : state'[b] # "tripped"
    PROVE  Safe'
<1>1. Shapes'
    BY DEF Safe, Shapes
<1>2. RegistrationFits'
    BY DEF Safe, Shapes, RegistrationFits
<1>3. TasksFit'
    BY DEF Safe, TasksFit, At
<1>4. Calm'
    BY DEF Safe, Shapes, Calm, At
<1> QED
    BY <1>1, <1>2, <1>3, <1>4 DEF Safe

\* A step that replaces one task, and possibly the state of its breaker.
LEMMA TaskRecordStep ==
    ASSUME Safe, NEW c \in Callers, NEW b \in Breakers, NEW t \in Task,
           task' = [task EXCEPT ![c][b] = t],
           UNCHANGED <<outside, health, alarmed>>, related' \subseteq Breakers,
           call' \in [Callers -> Call],
           \A d \in Callers : /\ \/ call'[d].todo = call[d].todo
                                 \/ call'[d].pc \notin {"register", "relations"}
                              /\ call'[d].pc \in {"register", "relations"} =>
                                    call'[d].pc = call[d].pc
                              /\ ~alarmed => \A h \in Checks : call'[d].measured[h] # "red",
           cached' \in {"none", "running", "done"},
           state' = state \/ \E s \in BreakerState : state' = [state EXCEPT ![b] = s]
                                                  /\ (~alarmed => s # "tripped"),
           t.pc = "breaker" => state[b] # "absent",
           t.pc = "write" /\ t.automated =>
              Automatic(t.next, b),
           ~alarmed => ~t.trip /\ (t.automated \/ t.pc = "write" => t.next # "tripped")
    PROVE  Safe'
<1>0. /\ state' \in [Breakers -> BreakerState \cup {"absent"}]
      /\ \A x \in Breakers : state[x] # "absent" => state'[x] # "absent"
      /\ ~alarmed => \A x \in Breakers : state'[x] # "tripped"
    BY DEF Safe, Shapes, Calm, BreakerState
<1>1. Shapes'
    BY <1>0 DEF Safe, Shapes, outside
<1>2. RegistrationFits'
    BY DEF Safe, Shapes, RegistrationFits
<1>3. TasksFit'
    BY <1>0 DEF Safe, Shapes, TasksFit, At
<1>4. Calm'
    BY <1>0 DEF Safe, Shapes, Calm, At, outside
<1> QED
    BY <1>1, <1>2, <1>3, <1>4 DEF Safe

LEMMA ManifestTyped == Manifest \in Seq(Checks \cup Breakers) /\ Manifest # <<>>
    BY CircuitsAssumption

\* The parts of Safe that every action starts from.
LEMMA SafeTypes ==
    ASSUME Safe
    PROVE  /\ Shapes
           /\ world \in [Checks -> HealthState]
           /\ health \in [Checks -> HealthState \cup {"absent"}]
           /\ state \in [Breakers -> BreakerState \cup {"absent"}]
           /\ related \subseteq Breakers
           /\ cached \in {"none", "running", "done"}
           /\ call \in [Callers -> Call]
           /\ task \in [Callers -> [Breakers -> Task]]
           /\ alarmed \in BOOLEAN
           /\ settled \in BOOLEAN
           /\ ~alarmed => /\ \A h \in Checks : world[h] # "red" /\ health[h] # "red"
                          /\ \A b \in Breakers : state[b] # "tripped"
    BY DEF Safe, Shapes, Calm

LEMMA BeginRefreshSafe == ASSUME Safe, NEW c \in Callers, BeginRefresh(c) PROVE Safe'
<1> DEFINE k == [op |-> "refresh", pc |-> "register", todo |-> Manifest, measured |-> world]
<1>1. k \in Call
    BY ManifestTyped, SafeTypes DEF Call, CallNames
<1>2. call' = [call EXCEPT ![c] = k]
    BY DEF BeginRefresh, Begin
<1>3. /\ k.pc = "register" /\ k.todo # <<>>
      /\ ~alarmed => \A h \in Checks : k.measured[h] # "red"
    BY ManifestTyped, SafeTypes
<1>4. UNCHANGED <<world, settled, health, state, related, cached, task, alarmed>>
    BY DEF BeginRefresh, outside, rows
<1> HIDE DEF k
<1> QED
    BY <1>1, <1>2, <1>3, <1>4, CallRecordStep, SafeTypes

LEMMA BeginEnsureSafe == ASSUME Safe, NEW c \in Callers, BeginEnsure(c) PROVE Safe'
<1> DEFINE k == [op |-> "ensure", pc |-> "register", todo |-> Manifest, measured |-> world]
<1>1. k \in Call
    BY ManifestTyped, SafeTypes DEF Call, CallNames
<1>2. call' = [call EXCEPT ![c] = k]
    BY DEF BeginEnsure, Begin
<1>3. /\ k.pc = "register" /\ k.todo # <<>>
      /\ ~alarmed => \A h \in Checks : k.measured[h] # "red"
    BY ManifestTyped, SafeTypes
<1>4. UNCHANGED <<world, settled, health, state, related, task, alarmed>> /\ cached' = "running"
    BY DEF BeginEnsure, outside, rows
<1> HIDE DEF k
<1> QED
    BY <1>1, <1>2, <1>3, <1>4, CallRecordStep, SafeTypes

LEMMA BeginPutSafe ==
    ASSUME Safe, NEW c \in Callers, NEW h \in Checks, NEW s \in Measurable, BeginPut(c, h, s)
    PROVE  Safe'
<1> DEFINE k == [op |-> "put", pc |-> "list", todo |-> <<h>>, measured |-> Green]
<1>1. k \in Call
    BY GreenTyped DEF Call, CallNames
<1>2. call' = [call EXCEPT ![c] = k]
    BY DEF BeginPut, Begin
<1>3. k.pc = "list" /\ \A x \in Checks : k.measured[x] # "red"
    BY DEF Green
<1>4. UNCHANGED <<world, settled, state, related, cached, task>>
    BY DEF BeginPut, outside
<1>5. /\ health' \in [Checks -> HealthState \cup {"absent"}]
      /\ alarmed' \in BOOLEAN
      /\ ~alarmed' => ~alarmed /\ \A x \in Checks : health'[x] # "red"
    BY SafeTypes, CircuitsAssumption DEF BeginPut
<1> HIDE DEF k
<1> QED
    BY <1>1, <1>2, <1>3, <1>4, <1>5, CallRecordStep, SafeTypes

LEMMA BeginModelsSafe ==
    ASSUME Safe, NEW c \in Callers, NEW h \in Checks, NEW b \in Breakers, BeginModels(c, h, b)
    PROVE  Safe'
<1> DEFINE probe == [x \in Checks |-> world[h]]
           k == [op |-> "models", pc |-> "register", todo |-> <<h, b>>, measured |-> probe]
<1>1. k \in Call
    BY SafeTypes DEF Call, CallNames
<1>2. call' = [call EXCEPT ![c] = k]
    BY DEF BeginModels, Begin
<1>3. /\ k.pc = "register" /\ k.todo # <<>>
      /\ ~alarmed => \A x \in Checks : k.measured[x] # "red"
    BY SafeTypes
<1>4. UNCHANGED <<world, settled, health, state, related, cached, task, alarmed>>
    BY DEF BeginModels, outside, rows
<1> HIDE DEF k
<1> QED
    BY <1>1, <1>2, <1>3, <1>4, CallRecordStep, SafeTypes

\* The record that a call moves on to has its todo among the rows left.
LEMMA CallFields ==
    ASSUME Safe, NEW c \in Callers
    PROVE  /\ call[c] \in Call
           /\ call[c].todo \in Seq(Checks \cup Breakers)
           /\ call[c].measured \in [Checks -> HealthState]
           /\ call[c].op \in CallNames
           /\ ~alarmed => \A h \in Checks : call[c].measured[h] # "red"
           /\ call[c].pc \in {"register", "relations"} => call[c].todo # <<>>
           /\ call[c].pc = "relations" => Head(call[c].todo) \in Breakers
    BY SafeTypes DEF Call, Safe, Calm, RegistrationFits

LEMMA AdvanceRecord ==
    ASSUME Safe, NEW c \in Callers, Advance(c), call[c].pc \in {"register", "relations"}
    PROVE  \E k \in Call :
             /\ call' = [call EXCEPT ![c] = k]
             /\ k.pc \in {"register", "list"}
             /\ k.pc = "register" => k.todo # <<>>
             /\ ~alarmed => \A h \in Checks : k.measured[h] # "red"
<1> DEFINE rest == Tail(call[c].todo)
           k == [call[c] EXCEPT !.todo = rest,
                                !.pc = IF rest = <<>> THEN "list" ELSE "register",
                                !.measured = IF rest = <<>> THEN Green ELSE @]
<1>1. rest \in Seq(Checks \cup Breakers)
    BY CallFields
<1>2. k \in Call
    BY <1>1, CallFields, GreenTyped DEF Call
<1>3. call' = [call EXCEPT ![c] = k]
    BY SafeTypes DEF Advance
<1>4. /\ k.pc \in {"register", "list"}
      /\ k.pc = "register" => k.todo # <<>>
      /\ ~alarmed => \A h \in Checks : k.measured[h] # "red"
    BY CallFields DEF Call, Green
<1> QED
    BY <1>2, <1>3, <1>4

LEMMA RegisterCheckSafe == ASSUME Safe, NEW c \in Callers, RegisterCheck(c) PROVE Safe'
<1>1. PICK k \in Call :
        /\ call' = [call EXCEPT ![c] = k]
        /\ k.pc \in {"register", "list"}
        /\ k.pc = "register" => k.todo # <<>>
        /\ ~alarmed => \A h \in Checks : k.measured[h] # "red"
    BY AdvanceRecord DEF RegisterCheck
<1>2. /\ health' \in [Checks -> HealthState \cup {"absent"}]
      /\ ~alarmed => \A h \in Checks : health'[h] # "red"
    BY SafeTypes, CallFields DEF RegisterCheck
<1>3. UNCHANGED <<world, settled, state, related, cached, task, alarmed>>
    BY DEF RegisterCheck, outside
<1> QED
    BY <1>1, <1>2, <1>3, CallRecordStep, SafeTypes

LEMMA RegisterBreakerSafe == ASSUME Safe, NEW c \in Callers, RegisterBreaker(c) PROVE Safe'
<1> DEFINE b == Head(call[c].todo)
           k == [call[c] EXCEPT !.pc = "relations"]
<1>1. k \in Call
    BY CallFields DEF Call
<1>2. call' = [call EXCEPT ![c] = k]
    BY CallFields, SafeTypes DEF RegisterBreaker, Goto, Call
<1>3. /\ k.pc = "relations" /\ k.todo # <<>> /\ Head(k.todo) \in Breakers
      /\ ~alarmed => \A h \in Checks : k.measured[h] # "red"
    BY CallFields DEF RegisterBreaker, Call
<1>4. /\ state' \in [Breakers -> BreakerState \cup {"absent"}]
      /\ \A x \in Breakers : state[x] # "absent" => state'[x] # "absent"
      /\ ~alarmed => \A x \in Breakers : state'[x] # "tripped"
    BY SafeTypes, CircuitsAssumption DEF RegisterBreaker, BreakerState
<1>5. UNCHANGED <<world, settled, health, related, cached, task, alarmed>>
    BY DEF RegisterBreaker, outside
<1> HIDE DEF k, b
<1> QED
    BY <1>1, <1>2, <1>3, <1>4, <1>5, CallRecordStep, SafeTypes

LEMMA SettleTyped ==
    ASSUME Safe, NEW c \in Callers, NEW o \in {"none", "done"},
           Settle(c, o) \/ UNCHANGED cached
    PROVE  cached' \in {"none", "running", "done"}
    BY SafeTypes DEF Settle

LEMMA NoCallFits == /\ NoCall \in Call
                    /\ NoCall.pc = "idle"
                    /\ \A h \in Checks : NoCall.measured[h] # "red"
    BY NoCallTyped DEF NoCall, Green

LEMMA FinishSafe == ASSUME Safe, NEW c \in Callers, Finish(c) PROVE Safe'
<1>1. cached' \in {"none", "running", "done"}
    BY SettleTyped DEF Finish
<1>2. /\ UNCHANGED <<world, settled, health, state, related, task, alarmed>>
      /\ call' = [call EXCEPT ![c] = NoCall]
    BY DEF Finish, outside, rows
<1> QED
    BY <1>1, <1>2, NoCallFits, CallRecordStep, SafeTypes

LEMMA ThrowSafe == ASSUME Safe, NEW c \in Callers, Throw(c) PROVE Safe'
<1>1. cached' \in {"none", "running", "done"}
    BY SettleTyped DEF Throw
<1>2. UNCHANGED <<world, settled, health, state, related, task>>
    BY DEF Throw, outside, rows
<1>3. CASE call' = [call EXCEPT ![c] = NoCall] /\ UNCHANGED alarmed
    BY <1>1, <1>2, <1>3, NoCallFits, CallRecordStep, SafeTypes
<1>4. CASE /\ alarmed' = TRUE
           /\ \E h \in Checks, b \in Breakers :
                call' = [call EXCEPT ![c].pc = "register", ![c].todo = <<h, b>>,
                                     ![c].measured = Red]
    <2>1. PICK h \in Checks, b \in Breakers :
            call' = [call EXCEPT ![c].pc = "register", ![c].todo = <<h, b>>,
                                 ![c].measured = Red]
        BY <1>4
    <2> DEFINE k == [call[c] EXCEPT !.pc = "register", !.todo = <<h, b>>, !.measured = Red]
    <2>2. k \in Call
        <3>1. <<h, b>> \in Seq(Checks \cup Breakers)
            OBVIOUS
        <3> QED
            BY <3>1, CallFields, GreenTyped DEF Call
    <2>3. call' = [call EXCEPT ![c] = k]
        BY <2>1, SafeTypes
    <2>4. k.pc = "register" /\ k.todo # <<>>
        BY CallFields DEF Call
    <2> HIDE DEF k
    <2> QED
        BY <1>1, <1>2, <1>4, <2>2, <2>3, <2>4, CallRecordStep, SafeTypes
<1>5. CASE /\ UNCHANGED alarmed
           /\ \E h \in Checks, b \in Breakers :
                /\ call[c].todo = <<h, b>>
                /\ call' = [call EXCEPT ![c].todo = <<b>>]
    <2>1. PICK b \in Breakers : call' = [call EXCEPT ![c].todo = <<b>>]
        BY <1>5
    <2> DEFINE k == [call[c] EXCEPT !.todo = <<b>>]
    <2>2. k \in Call
        <3>1. <<b>> \in Seq(Checks \cup Breakers)
            OBVIOUS
        <3> QED
            BY <3>1, CallFields DEF Call
    <2>3. call' = [call EXCEPT ![c] = k]
        BY <2>1, SafeTypes
    <2>4. k.todo # <<>> /\ Head(k.todo) \in Breakers /\ k.measured = call[c].measured
        BY CallFields DEF Call
    <2>5. ~alarmed => \A h \in Checks : k.measured[h] # "red"
        BY <2>4, CallFields
    <2> HIDE DEF k
    <2> QED
        BY <1>1, <1>2, <1>5, <2>2, <2>3, <2>4, <2>5, CallRecordStep, SafeTypes
<1> QED
    BY <1>3, <1>4, <1>5 DEF Throw
-----------------------------------------------------------------------------
(* Steps of tasks *)

LEMMA TaskFields ==
    ASSUME Safe, NEW c \in Callers, NEW b \in Breakers
    PROVE  /\ task[c][b] \in Task
           /\ task[c][b].next \in BreakerState
           /\ task[c][b].pending \in SUBSET {"checks", "dependencies"}
           /\ task[c][b].trip \in BOOLEAN
           /\ task[c][b].automated \in BOOLEAN
           /\ ~alarmed => ~task[c][b].trip
           /\ ~alarmed /\ (task[c][b].automated \/ At(c, b, "write"))
                => task[c][b].next # "tripped"
           /\ At(c, b, "breaker") => state[b] # "absent"
           /\ At(c, b, "write") /\ task[c][b].automated =>
                Automatic(task[c][b].next, b)
    BY SafeTypes DEF Task, Safe, Calm, TasksFit

\* A step of the task of c for b that leaves the calls alone.
LEMMA TaskOnlyStep ==
    ASSUME Safe, NEW c \in Callers, NEW b \in Breakers, NEW t \in Task,
           Resume(c, b, t), TaskStep,
           t.pc \in {"none", "states", "current", "write"},
           t.pc = "write" /\ t.automated =>
              Automatic(t.next, b),
           ~alarmed => ~t.trip /\ (t.automated \/ t.pc = "write" => t.next # "tripped")
    PROVE  Safe'
<1>1. /\ UNCHANGED <<outside, health, alarmed, state, call, cached>> /\ related' = related
      /\ task' = [task EXCEPT ![c][b] = t]
    BY DEF TaskStep, rows, Resume
<1>2. \A d \in Callers : ~alarmed => \A h \in Checks : call'[d].measured[h] # "red"
    BY <1>1, CallFields
<1> QED
    BY <1>1, <1>2, TaskRecordStep, SafeTypes

LEMMA NoTaskFits == /\ NoTask \in Task
                    /\ NoTask.pc = "none" /\ ~NoTask.trip /\ NoTask.automated
                    /\ NoTask.next = "on"
    BY NoTaskTyped DEF NoTask

LEMMA ReadBreakerSafe ==
    ASSUME Safe, NEW c \in Callers, NEW b \in Breakers, ReadBreaker(c, b) PROVE Safe'
<1> DEFINE t == [NoTask EXCEPT !.pc = "states", !.seen = state[b],
                               !.pending = {"checks", "dependencies"}]
<1>1. state[b] \in BreakerState
    BY TaskFields, SafeTypes DEF ReadBreaker
<1>2. t \in Task /\ t.pc = "states" /\ ~t.trip /\ t.next = "on"
    BY <1>1, NoTaskTyped DEF Task, NoTask, BreakerState
<1>3. Resume(c, b, t) /\ TaskStep
    BY DEF ReadBreaker
<1> HIDE DEF t
<1> QED
    BY <1>2, <1>3, TaskOnlyStep

\* What an evaluation decides to do is a task that fits; it trips only if told to.
LEMMA DecideFits ==
    ASSUME NEW t \in Task, NEW b \in Breakers, t.pc = "states"
    PROVE  /\ Decide(t, b) \in Task
           /\ Decide(t, b).pc \in {"none", "states", "current"}
           /\ ~t.trip /\ (t.automated => t.next # "tripped")
                => /\ ~Decide(t, b).trip
                   /\ Decide(t, b).automated => Decide(t, b).next # "tripped"
<1>1. CASE t.pending # {}
    BY <1>1 DEF Decide, Task
<1>2. CASE t.pending = {}
    BY <1>2, NoTaskTyped DEF Decide, Task, NoTask, BreakerState
<1> QED
    BY <1>1, <1>2

\* A healthcheck or dependency state only trips when something was alarming.
LEMMA CalmStates ==
    ASSUME Safe, ~alarmed, NEW b \in Breakers
    PROVE  ~HealthFailed(b) /\ ~DependencyFailed(b)
<1>1. Watches[b] \subseteq Checks /\ DependsOn[b] \subseteq Breakers
    BY CircuitsAssumption
<1> QED
    BY <1>1, SafeTypes DEF HealthFailed, DependencyFailed

LEMMA ReadStatesSafe ==
    ASSUME Safe, NEW c \in Callers, NEW b \in Breakers,
           NEW source \in {"checks", "dependencies"}, NEW failed \in BOOLEAN,
           ReadStates(c, b, source, failed), ~alarmed => ~failed
    PROVE  Safe'
<1> DEFINE t == [task[c][b] EXCEPT !.pending = @ \ {source}, !.trip = @ \/ failed]
<1>1. /\ t.pc = "states" /\ t.next = task[c][b].next
      /\ t.automated = task[c][b].automated
      /\ t.trip = (task[c][b].trip \/ failed)
    BY TaskFields DEF ReadStates, At, Task
<1>2. t \in Task
    BY TaskFields DEF Task
<1>3. Resume(c, b, Decide(t, b)) /\ TaskStep
    BY DEF ReadStates
<1>4. ~alarmed => ~t.trip /\ (t.automated => t.next # "tripped")
    BY <1>1, TaskFields
<1> HIDE DEF t
<1> QED
    BY <1>1, <1>2, <1>3, <1>4, DecideFits, TaskOnlyStep

LEMMA ReadCurrentSafe ==
    ASSUME Safe, NEW c \in Callers, NEW b \in Breakers, ReadCurrent(c, b) PROVE Safe'
<1> DEFINE t == [task[c][b] EXCEPT !.pc = "write"]
<1>1. CASE MayMove(task[c][b], b)
    <2>1. Resume(c, b, t) /\ TaskStep
        BY <1>1 DEF ReadCurrent
    <2>2. /\ t \in Task /\ t.pc = "write" /\ t.trip = task[c][b].trip
          /\ t.automated = task[c][b].automated /\ t.next = task[c][b].next
        BY TaskFields DEF Task
    <2>3. /\ task[c][b].automated => Automatic(task[c][b].next, b)
          /\ ~task[c][b].automated => task[c][b].next # "tripped"
        BY <1>1 DEF MayMove, Automatic
    <2>4. ~alarmed => ~t.trip /\ (t.automated \/ t.pc = "write" => t.next # "tripped")
        BY <2>2, <2>3, TaskFields
    <2> HIDE DEF t
    <2> QED
        BY <2>1, <2>2, <2>3, <2>4, TaskOnlyStep
<1>2. CASE ~MayMove(task[c][b], b)
    <2>1. Resume(c, b, NoTask) /\ TaskStep
        BY <1>2 DEF ReadCurrent
    <2> QED
        BY <2>1, NoTaskFits, TaskOnlyStep
<1> QED
    BY <1>1, <1>2

\* A task that has written, or given up, ends.
LEMMA TaskEnds ==
    ASSUME Safe, NEW c \in Callers, NEW b \in Breakers, Resume(c, b, NoTask),
           UNCHANGED <<outside, health, related, alarmed>>,
           \/ UNCHANGED state
           \/ At(c, b, "write") /\ state' = [state EXCEPT ![b] = task[c][b].next],
           cached' \in {"none", "running", "done"},
           call' = call \/ call' = [call EXCEPT ![c].pc = "failed"]
    PROVE  Safe'
<1>1. /\ call' \in [Callers -> Call]
      /\ \A d \in Callers :
           /\ call'[d].todo = call[d].todo
           /\ call'[d].pc \in {"register", "relations"} => call'[d].pc = call[d].pc
           /\ call'[d].measured = call[d].measured
    <2>1. CASE call' = call
        BY <2>1, SafeTypes
    <2>2. CASE call' = [call EXCEPT ![c].pc = "failed"]
        <3> DEFINE k == [call[c] EXCEPT !.pc = "failed"]
        <3>1. /\ k \in Call /\ k.pc = "failed"
              /\ k.todo = call[c].todo /\ k.measured = call[c].measured
            BY CallFields DEF Call
        <3>2. call' = [call EXCEPT ![c] = k]
            BY <2>2, SafeTypes
        <3> HIDE DEF k
        <3> QED
            BY <3>1, <3>2, SafeTypes
    <2> QED
        BY <2>1, <2>2
<1>2. \A d \in Callers : ~alarmed => \A h \in Checks : call'[d].measured[h] # "red"
    BY <1>1, CallFields
<1>3. state' = state \/ \E s \in BreakerState : state' = [state EXCEPT ![b] = s]
                                             /\ (~alarmed => s # "tripped")
    BY TaskFields
<1>4. task' = [task EXCEPT ![c][b] = NoTask]
    BY DEF Resume
<1>5. \A d \in Callers :
        /\ call'[d].todo = call[d].todo \/ call'[d].pc \notin {"register", "relations"}
        /\ call'[d].pc \in {"register", "relations"} => call'[d].pc = call[d].pc
        /\ ~alarmed => \A h \in Checks : call'[d].measured[h] # "red"
    BY <1>1, <1>2
<1>6. /\ NoTask.pc # "breaker" /\ NoTask.pc # "write"
      /\ ~NoTask.trip /\ NoTask.next # "tripped"
    BY NoTaskFits
<1>7. /\ UNCHANGED <<outside, health, alarmed>> /\ call' \in [Callers -> Call]
      /\ related' \subseteq Breakers
    BY <1>1, SafeTypes
<1> QED
    BY <1>3, <1>4, <1>5, <1>6, <1>7, NoTaskFits, TaskRecordStep

LEMMA WriteStateSafe ==
    ASSUME Safe, NEW c \in Callers, NEW b \in Breakers, WriteState(c, b) PROVE Safe'
<1>1. /\ Resume(c, b, NoTask) /\ At(c, b, "write")
      /\ state' = [state EXCEPT ![b] = task[c][b].next]
      /\ UNCHANGED <<outside, health, related, alarmed>> /\ call' = call /\ cached' = cached
    BY DEF WriteState
<1> QED
    BY <1>1, TaskEnds, SafeTypes

LEMMA TaskThrowsSafe ==
    ASSUME Safe, NEW c \in Callers, NEW b \in Breakers, TaskThrows(c, b) PROVE Safe'
<1>1. cached' \in {"none", "running", "done"}
    BY SettleTyped DEF TaskThrows
<1>2. /\ Resume(c, b, NoTask)
      /\ call' = [call EXCEPT ![c].pc = "failed"]
      /\ UNCHANGED <<outside, health, related, alarmed>>
      /\ \/ UNCHANGED state
         \/ At(c, b, "write") /\ state' = [state EXCEPT ![b] = task[c][b].next]
    BY DEF TaskThrows
<1> QED
    BY <1>1, <1>2, TaskEnds

\* An administrator's or an operator's write begins with a task of its own.
LEMMA HumanTaskBegins ==
    ASSUME Safe, NEW c \in Callers, NEW b \in Breakers, NEW s \in HumanStates,
           NEW pc \in {"current", "write"}, NEW op \in {"set", "cli"},
           Begin(c, op, "await", <<>>, Green),
           Resume(c, b, [NoTask EXCEPT !.pc = pc, !.automated = FALSE, !.next = s]),
           UNCHANGED <<outside, rows, cached>>, alarmed' \in BOOLEAN,
           ~alarmed' => ~alarmed, pc = "write" /\ ~alarmed' => s # "tripped"
    PROVE  Safe'
<1> DEFINE t == [NoTask EXCEPT !.pc = pc, !.automated = FALSE, !.next = s]
           k == [op |-> op, pc |-> "await", todo |-> <<>>, measured |-> Green]
<1>1. t \in Task /\ t.pc = pc /\ ~t.automated /\ t.next = s /\ ~t.trip
    BY NoTaskTyped, CircuitsAssumption DEF Task, NoTask
<1>2. k \in Call /\ k.pc = "await" /\ \A h \in Checks : k.measured[h] # "red"
    BY GreenTyped DEF Call, CallNames, Green
<1>3. /\ task' = [task EXCEPT ![c][b] = t]
      /\ call' = [call EXCEPT ![c] = k]
      /\ UNCHANGED <<world, settled, health, state, related, cached>>
    BY DEF Resume, Begin, outside, rows
<1> HIDE DEF t, k
<1>4. Shapes'
    BY <1>1, <1>2, <1>3, SafeTypes DEF Shapes
<1>5. RegistrationFits'
    BY <1>2, <1>3, SafeTypes DEF RegistrationFits, Safe
<1>6. TasksFit'
    BY <1>1, <1>3, SafeTypes DEF TasksFit, Safe, At
<1>7. Calm'
    BY <1>1, <1>2, <1>3, SafeTypes DEF Calm, Safe, At
<1> QED
    BY <1>4, <1>5, <1>6, <1>7 DEF Safe

LEMMA BeginSetSafe ==
    ASSUME Safe, NEW c \in Callers, NEW b \in Breakers, NEW s \in HumanStates,
           BeginSet(c, b, s)
    PROVE  Safe'
<1>1. /\ Begin(c, "set", "await", <<>>, Green)
      /\ Resume(c, b, [NoTask EXCEPT !.pc = "current", !.automated = FALSE, !.next = s])
      /\ UNCHANGED <<outside, rows, cached>> /\ alarmed' = alarmed
    BY DEF BeginSet
<1> QED
    BY <1>1, HumanTaskBegins, SafeTypes

LEMMA BeginOperatorSetSafe ==
    ASSUME Safe, NEW c \in Callers, NEW b \in Breakers, NEW s \in HumanStates,
           BeginOperatorSet(c, b, s)
    PROVE  Safe'
<1>1. /\ Begin(c, "cli", "await", <<>>, Green)
      /\ Resume(c, b, [NoTask EXCEPT !.pc = "write", !.automated = FALSE, !.next = s])
      /\ UNCHANGED <<outside, rows, cached>>
    BY DEF BeginOperatorSet
<1>2. alarmed' \in BOOLEAN /\ (~alarmed' => ~alarmed /\ s # "tripped")
    BY SafeTypes DEF BeginOperatorSet
<1> QED
    BY <1>1, <1>2, HumanTaskBegins

LEMMA RegisterRelationsSafe ==
    ASSUME Safe, NEW c \in Callers, RegisterRelations(c) PROVE Safe'
<1> DEFINE b == Head(call[c].todo)
<1>1. b \in Breakers /\ related' \subseteq Breakers
    BY CallFields, SafeTypes DEF RegisterRelations
<1>2. UNCHANGED <<world, settled, health, state, cached, alarmed>>
    BY DEF RegisterRelations, outside
<1>3. CASE Advance(c) /\ UNCHANGED task
    <2>1. PICK k \in Call :
            /\ call' = [call EXCEPT ![c] = k]
            /\ k.pc \in {"register", "list"}
            /\ k.pc = "register" => k.todo # <<>>
            /\ ~alarmed => \A h \in Checks : k.measured[h] # "red"
        BY <1>3, AdvanceRecord DEF RegisterRelations
    <2> QED
        BY <1>1, <1>2, <1>3, <2>1, CallRecordStep, SafeTypes
<1>4. CASE /\ call' = [call EXCEPT ![c] = [NoCall EXCEPT !.op = "models", !.pc = "await"]]
           /\ Resume(c, b, [NoTask EXCEPT !.pc = "current",
                              !.next = IF Failed(c) THEN "tripped" ELSE "on"])
    <2> DEFINE k == [NoCall EXCEPT !.op = "models", !.pc = "await"]
               t == [NoTask EXCEPT !.pc = "current",
                                   !.next = IF Failed(c) THEN "tripped" ELSE "on"]
    <2>1. /\ k \in Call /\ k.pc = "await" /\ k.todo = <<>>
          /\ \A h \in Checks : k.measured[h] # "red"
        BY NoCallFits DEF NoCall, Call, CallNames
    <2>2. /\ t \in Task /\ t.pc = "current" /\ ~t.trip
          /\ t.next = IF Failed(c) THEN "tripped" ELSE "on"
        BY NoTaskTyped DEF Task, NoTask, BreakerState
    <2>3. ~alarmed => t.next # "tripped"
        BY <2>2, CallFields DEF Failed
    <2>4. task' = [task EXCEPT ![c][b] = t] /\ call' = [call EXCEPT ![c] = k]
        BY <1>4 DEF Resume
    <2> HIDE DEF k, t, b
    <2>5. /\ call' \in [Callers -> Call]
          /\ \A d \in Callers :
               /\ call'[d].todo = call[d].todo \/ call'[d].pc \notin {"register", "relations"}
               /\ call'[d].pc \in {"register", "relations"} => call'[d].pc = call[d].pc
               /\ ~alarmed => \A h \in Checks : call'[d].measured[h] # "red"
        BY <2>1, <2>4, SafeTypes, CallFields
    <2>6. UNCHANGED <<outside, health, alarmed>> /\ state' = state
        BY <1>2 DEF outside
    <2> QED
        BY <1>1, <1>2, <2>2, <2>3, <2>4, <2>5, <2>6, TaskRecordStep, SafeTypes
<1> QED
    BY <1>3, <1>4 DEF RegisterRelations
-----------------------------------------------------------------------------
(* Steps that replace every task of a call, and steps of the environment *)

LEMMA AllTasksStep ==
    ASSUME Safe, NEW c \in Callers, NEW k \in Call, NEW f \in [Breakers -> Task],
           call' = [call EXCEPT ![c] = k], task' = [task EXCEPT ![c] = f],
           UNCHANGED <<world, settled, health, state, related, alarmed>>,
           cached' \in {"none", "running", "done"},
           k.pc \notin {"register", "relations"},
           ~alarmed => \A h \in Checks : k.measured[h] # "red",
           \A b \in Breakers : /\ f[b].pc = "breaker" => state[b] # "absent"
                               /\ f[b].pc # "write" /\ ~f[b].trip /\ f[b].next = "on"
    PROVE  Safe'
<1>1. Shapes'
    BY SafeTypes DEF Shapes
<1>2. RegistrationFits'
    BY SafeTypes DEF RegistrationFits, Safe
<1>3. TasksFit'
    BY SafeTypes DEF TasksFit, Safe, At
<1>4. Calm'
    BY SafeTypes DEF Calm, Safe, At
<1> QED
    BY <1>1, <1>2, <1>3, <1>4 DEF Safe

LEMMA ListSafe == ASSUME Safe, NEW c \in Callers, List(c) PROVE Safe'
<1> DEFINE present(b) == /\ state[b] # "absent"
                         /\ call[c].op = "put" => b \in related /\ Head(call[c].todo) \in Watches[b]
           started == [NoTask EXCEPT !.pc = "breaker"]
           f == [b \in Breakers |-> IF present(b) THEN started ELSE NoTask]
           k == [call[c] EXCEPT !.pc = "await", !.todo = <<>>]
<1>1. started \in Task /\ started.pc = "breaker" /\ ~started.trip /\ started.next = "on"
    BY NoTaskTyped DEF Task, NoTask
<1>2. /\ f \in [Breakers -> Task]
      /\ \A b \in Breakers : /\ f[b].pc = "breaker" => state[b] # "absent"
                             /\ f[b].pc # "write" /\ ~f[b].trip /\ f[b].next = "on"
    <2> HIDE DEF started
    <2> QED
        BY <1>1, NoTaskFits
<1>3. /\ k \in Call /\ k.pc = "await"
      /\ ~alarmed => \A h \in Checks : k.measured[h] # "red"
    <2>1. <<>> \in Seq(Checks \cup Breakers)
        OBVIOUS
    <2>2. k \in Call
        BY <2>1, CallFields DEF Call
    <2>3. k.pc = "await" /\ k.measured = call[c].measured
        BY CallFields DEF Call
    <2> HIDE DEF k
    <2> QED
        BY <2>2, <2>3, CallFields
<1>4. /\ call' = [call EXCEPT ![c] = k]
      /\ UNCHANGED <<world, settled, health, state, related, alarmed>> /\ cached' = cached
    BY SafeTypes DEF List, Goto, outside, rows
<1>5. task' = [task EXCEPT ![c] = f]
    BY DEF List
<1> HIDE DEF f, k
<1> QED
    BY <1>2, <1>3, <1>4, <1>5, AllTasksStep, SafeTypes

LEMMA CrashSafe == ASSUME Safe, NEW c \in Callers, Crash(c) PROVE Safe'
<1> DEFINE f == [b \in Breakers |-> NoTask]
<1>1. /\ f \in [Breakers -> Task]
      /\ \A b \in Breakers : /\ f[b].pc = "breaker" => state[b] # "absent"
                             /\ f[b].pc # "write" /\ ~f[b].trip /\ f[b].next = "on"
    BY NoTaskFits
<1>2. /\ call' = [call EXCEPT ![c] = NoCall] /\ task' = [task EXCEPT ![c] = f]
      /\ UNCHANGED <<world, settled, health, state, related, alarmed>>
    BY DEF Crash, outside, rows
<1>3. cached' \in {"none", "running", "done"}
    BY SettleTyped DEF Crash
<1> HIDE DEF f
<1> QED
    BY <1>1, <1>2, <1>3, AllTasksStep, NoCallFits

\* A step of the outside leaves every call and task alone.
LEMMA OutsideStep ==
    ASSUME Safe, UNCHANGED <<state, related, cached, call, task>>,
           world' \in [Checks -> HealthState],
           health' \in [Checks -> HealthState \cup {"absent"}],
           alarmed' \in BOOLEAN, settled' \in BOOLEAN,
           ~alarmed' => /\ ~alarmed
                        /\ \A h \in Checks : world'[h] # "red" /\ health'[h] # "red"
    PROVE  Safe'
<1>1. Shapes'
    BY SafeTypes DEF Shapes
<1>2. RegistrationFits' /\ TasksFit'
    BY DEF RegistrationFits, TasksFit, Safe, At
<1>3. Calm'
    BY DEF Calm, Safe, At
<1> QED
    BY <1>1, <1>2, <1>3 DEF Safe

LEMMA WorldChangesSafe ==
    ASSUME Safe, NEW h \in Checks, NEW s \in Measurable, WorldChanges(h, s) PROVE Safe'
    BY OutsideStep, SafeTypes, CircuitsAssumption DEF WorldChanges, rows

LEMMA OperatorSetsHealthSafe ==
    ASSUME Safe, NEW h \in Checks, NEW s \in Measurable, OperatorSetsHealth(h, s) PROVE Safe'
    BY OutsideStep, SafeTypes, CircuitsAssumption DEF OperatorSetsHealth, outside

LEMMA NextSafe == Safe /\ [Next]_vars => Safe'
<1> SUFFICES ASSUME Safe, [Next]_vars PROVE Safe'
    OBVIOUS
<1>1. ASSUME NEW c \in Callers, BeginCall(c) PROVE Safe'
    BY <1>1, BeginRefreshSafe, BeginEnsureSafe, BeginPutSafe, BeginSetSafe,
       BeginOperatorSetSafe, BeginModelsSafe DEF BeginCall
<1>2. ASSUME NEW c \in Callers, CallStep(c) PROVE Safe'
    BY <1>2, RegisterCheckSafe, RegisterBreakerSafe, RegisterRelationsSafe, ListSafe,
       FinishSafe, ThrowSafe DEF CallStep
<1>3. ASSUME NEW c \in Callers, NEW b \in Breakers, Evaluate(c, b) PROVE Safe'
    <2>1. HealthFailed(b) \in BOOLEAN /\ DependencyFailed(b) \in BOOLEAN
        BY DEF HealthFailed, DependencyFailed
    <2>2. CASE ReadHealthcheckStates(c, b)
        BY <2>1, <2>2, CalmStates, ReadStatesSafe DEF ReadHealthcheckStates
    <2>3. CASE ReadDependencyStates(c, b)
        BY <2>1, <2>3, CalmStates, ReadStatesSafe DEF ReadDependencyStates
    <2> QED
        BY <1>3, <2>2, <2>3, ReadBreakerSafe, ReadCurrentSafe, WriteStateSafe DEF Evaluate
<1>4. ASSUME NEW c \in Callers, NEW b \in Breakers, TaskThrows(c, b) PROVE Safe'
    BY <1>4, TaskThrowsSafe
<1>5. ASSUME NEW c \in Callers, Crash(c) PROVE Safe'
    BY <1>5, CrashSafe
<1>6. ASSUME NEW h \in Checks, NEW s \in Measurable,
             OperatorSetsHealth(h, s) \/ WorldChanges(h, s)
      PROVE  Safe'
    BY <1>6, OperatorSetsHealthSafe, WorldChangesSafe
<1>7. CASE UNCHANGED vars
    BY <1>7 DEF vars, Safe, Shapes, RegistrationFits, TasksFit, Calm, At
<1> QED
    BY <1>1, <1>2, <1>3, <1>4, <1>5, <1>6, <1>7 DEF Next
-----------------------------------------------------------------------------
(* What a finished registration has stored *)

\* The row of b and its relation rows are in the tables.
Registered(b) == state[b] # "absent" /\ b \in related

\* Every breaker of the manifests is registered or among the rows todo.
Covers(todo) ==
    \A i \in 1 .. Len(Manifest) :
        Manifest[i] \in Breakers =>
            Registered(Manifest[i]) \/ \E j \in 1 .. Len(todo) : todo[j] = Manifest[i]

\* A request's registration has skipped no breaker, and its batch finds the row.
Warming(c) ==
    call[c].op = "ensure" =>
        /\ call[c].pc \in {"register", "relations"} => Covers(call[c].todo)
        /\ call[c].pc = "relations" => state[Head(call[c].todo)] # "absent"
        /\ call[c].pc \in {"list", "await"} => Covers(<<>>)

Warm == WarmMeansRegistered /\ \A c \in Callers : Warming(c)

\* No step removes a breaker's row or its relations.
RowsKept == /\ \A b \in Breakers : state[b] # "absent" => state'[b] # "absent"
            /\ related \subseteq related'

LEMMA NextKeepsRows == ASSUME Safe, [Next]_vars PROVE RowsKept
<1>1. ASSUME NEW c \in Callers, BeginCall(c) PROVE RowsKept
    BY <1>1, SafeTypes DEF RowsKept, BeginCall, BeginRefresh, BeginEnsure, BeginPut, BeginSet,
       BeginOperatorSet, BeginModels, rows
<1>2. ASSUME NEW c \in Callers, CallStep(c) PROVE RowsKept
    BY <1>2, SafeTypes, CircuitsAssumption DEF RowsKept, CallStep, RegisterCheck,
       RegisterBreaker, RegisterRelations, List, Finish, Throw, rows
<1>3. ASSUME NEW c \in Callers, NEW b \in Breakers, Evaluate(c, b) \/ TaskThrows(c, b)
      PROVE  RowsKept
    <2>1. /\ related' = related
          /\ state' = state \/ state' = [state EXCEPT ![b] = task[c][b].next]
        BY <1>3 DEF Evaluate, ReadBreaker, ReadHealthcheckStates, ReadDependencyStates,
           ReadStates, ReadCurrent, WriteState, TaskThrows, TaskStep, rows
    <2> QED
        BY <2>1, SafeTypes, TaskFields DEF RowsKept, BreakerState
<1>4. ASSUME NEW c \in Callers, Crash(c) PROVE RowsKept
    BY <1>4 DEF RowsKept, Crash, rows
<1>5. ASSUME NEW h \in Checks, NEW s \in Measurable,
             OperatorSetsHealth(h, s) \/ WorldChanges(h, s)
      PROVE  RowsKept
    BY <1>5 DEF RowsKept, OperatorSetsHealth, WorldChanges, rows
<1>6. CASE UNCHANGED vars
    BY <1>6 DEF RowsKept, vars, rows
<1> QED
    BY <1>1, <1>2, <1>3, <1>4, <1>5, <1>6 DEF Next

\* A call that keeps its record, or is no registration, stays warm as the rows grow.
LEMMA WarmingKept ==
    ASSUME Safe, RowsKept, NEW c \in Callers, Warming(c),
           call'[c] = call[c] \/ call'[c].op # "ensure" \/ call'[c].pc \in {"idle", "failed"}
    PROVE  Warming(c)'
<1>1. CASE call'[c].op # "ensure" \/ call'[c].pc \in {"idle", "failed"}
    BY <1>1 DEF Warming
<1>2. CASE call'[c] = call[c]
    <2>1. \A i \in 1 .. Len(Manifest) :
            Manifest[i] \in Breakers /\ Registered(Manifest[i]) => Registered(Manifest[i])'
        BY DEF Registered, RowsKept
    <2>2. Covers(call[c].todo) => Covers(call[c].todo)'
        BY <1>2, <2>1 DEF Covers
    <2>3. Covers(<<>>) => Covers(<<>>)'
        BY <2>1 DEF Covers
    <2>4. call[c].pc = "relations" => Head(call[c].todo) \in Breakers
        BY CallFields
    <2> QED
        BY <1>2, <2>2, <2>3, <2>4 DEF Warming, RowsKept
<1> QED
    BY <1>1, <1>2

LEMMA WarmStaysRegistered ==
    ASSUME Safe, RowsKept, WarmMeansRegistered, cached' = "done" => cached = "done"
    PROVE  WarmMeansRegistered'
    BY DEF WarmMeansRegistered, RowsKept

\* A step of one call that resolves no promise keeps Warm if it keeps that call warm.
LEMMA OneCallWarm ==
    ASSUME Safe, Warm, RowsKept, NEW c \in Callers,
           \A d \in Callers \ {c} : call'[d] = call[d],
           cached' = "done" => cached = "done",
           Warming(c)'
    PROVE  Warm'
<1>1. ASSUME NEW d \in Callers PROVE Warming(d)'
    BY <1>1, WarmingKept DEF Warm
<1>2. WarmMeansRegistered'
    BY WarmStaysRegistered DEF Warm
<1> QED
    BY <1>1, <1>2 DEF Warm

LEMMA BeginCallWarm ==
    ASSUME Safe, Warm, RowsKept, NEW c \in Callers, BeginCall(c) PROVE Warm'
<1>0. PICK op, pc, todo, measured :
        /\ Begin(c, op, pc, todo, measured)
        /\ op = "ensure" => pc = "register" /\ todo = Manifest
        /\ cached' = "done" => cached = "done"
    <2>1. CASE BeginRefresh(c) \/ BeginEnsure(c)
        BY <2>1 DEF BeginRefresh, BeginEnsure
    <2>2. CASE \E h \in Checks, s \in Measurable : BeginPut(c, h, s)
        BY <2>2 DEF BeginPut
    <2>3. CASE \E b \in Breakers, s \in HumanStates : BeginSet(c, b, s)
        BY <2>3 DEF BeginSet
    <2>4. CASE \E b \in Breakers, s \in HumanStates : BeginOperatorSet(c, b, s)
        BY <2>4 DEF BeginOperatorSet
    <2>5. CASE \E h \in Checks, b \in Breakers : BeginModels(c, h, b)
        BY <2>5 DEF BeginModels
    <2> QED
        BY <2>1, <2>2, <2>3, <2>4, <2>5 DEF BeginCall
<1>1. /\ \A d \in Callers \ {c} : call'[d] = call[d]
      /\ cached' = "done" => cached = "done"
    BY <1>0, SafeTypes DEF Begin
<1>2. \/ call'[c].op # "ensure"
      \/ call'[c].pc = "register" /\ call'[c].todo = Manifest
    BY <1>0, SafeTypes DEF Begin
<1>3. CASE call'[c].op # "ensure"
    BY <1>1, <1>3, OneCallWarm DEF Warming
<1>4. CASE call'[c].pc = "register" /\ call'[c].todo = Manifest
    <2>1. Covers(call[c].todo)'
        BY <1>4 DEF Covers
    <2>2. Warming(c)'
        BY <1>4, <2>1 DEF Warming
    <2> QED
        BY <1>1, <2>2, OneCallWarm
<1> QED
    BY <1>2, <1>3, <1>4

\* The row that a registration moves past is a check or a registered breaker.
LEMMA AdvanceWarm ==
    ASSUME Safe, RowsKept, NEW c \in Callers, Warming(c), Advance(c),
           call[c].pc \in {"register", "relations"},
           Head(call[c].todo) \in Breakers =>
              /\ state'[Head(call[c].todo)] # "absent"
              /\ Head(call[c].todo) \in related'
    PROVE  Warming(c)'
<1> DEFINE todo == call[c].todo
           rest == Tail(todo)
<1>1. /\ call'[c].op = call[c].op /\ call'[c].todo = rest
      /\ call'[c].pc = IF rest = <<>> THEN "list" ELSE "register"
    BY CallFields, SafeTypes DEF Advance, Call
<1>2. todo \in Seq(Checks \cup Breakers) /\ todo # <<>>
    BY CallFields
<1> HIDE DEF rest
<1>3. ASSUME call[c].op = "ensure", NEW i \in 1 .. Len(Manifest), Manifest[i] \in Breakers,
             ~Registered(Manifest[i])'
      PROVE  \E j \in 1 .. Len(rest) : rest[j] = Manifest[i]
    <2>1. ~Registered(Manifest[i])
        BY <1>3 DEF Registered, RowsKept
    <2>2. PICK j \in 1 .. Len(todo) : todo[j] = Manifest[i]
        BY <1>3, <2>1 DEF Warming, Covers
    <2>3. j # 1
        BY <1>2, <1>3, <2>2 DEF Registered
    <2>4. j - 1 \in 1 .. Len(rest) /\ rest[j - 1] = todo[j]
        BY <1>2, <2>3 DEF rest
    <2> QED
        BY <2>2, <2>4
<1>4. call[c].op = "ensure" => Covers(call[c].todo)'
    BY <1>1, <1>3 DEF Covers
<1>5. rest = <<>> /\ call[c].op = "ensure" => Covers(<<>>)'
    BY <1>1, <1>4 DEF Covers
<1> QED
    BY <1>1, <1>4, <1>5 DEF Warming

LEMMA CallStepWarm ==
    ASSUME Safe, Warm, RowsKept, NEW c \in Callers, CallStep(c) PROVE Warm'
<1>0. Warming(c)
    BY DEF Warm
<1>1. CASE RegisterCheck(c)
    <2>1. Advance(c) /\ call[c].pc = "register" /\ cached' = cached
          /\ Head(call[c].todo) \notin Breakers
        BY <1>1, CircuitsAssumption DEF RegisterCheck
    <2>2. \A d \in Callers \ {c} : call'[d] = call[d]
        BY <2>1, SafeTypes DEF Advance
    <2>3. Warming(c)'
        BY <1>0, <2>1, AdvanceWarm
    <2> QED
        BY <2>1, <2>2, <2>3, OneCallWarm
<1>2. CASE RegisterBreaker(c)
    <2>1. /\ \A d \in Callers \ {c} : call'[d] = call[d]
          /\ cached' = cached /\ related' = related
          /\ call[c].pc = "register" /\ call'[c].pc = "relations"
          /\ call'[c].todo = call[c].todo /\ call'[c].op = call[c].op
        BY <1>2, SafeTypes, CallFields DEF RegisterBreaker, Goto, Call
    <2>2. state'[Head(call[c].todo)] # "absent"
        BY <1>2, SafeTypes, CircuitsAssumption DEF RegisterBreaker
    <2>3. call[c].op = "ensure" => Covers(call[c].todo)'
        BY <1>0, <2>1 DEF Warming, Covers, Registered, RowsKept
    <2>4. Warming(c)'
        BY <2>1, <2>2, <2>3 DEF Warming
    <2> QED
        BY <2>1, <2>4, OneCallWarm
<1>3. CASE RegisterRelations(c)
    <2> DEFINE b == Head(call[c].todo)
    <2>1. b \in Breakers /\ b \in related' /\ cached' = cached /\ call[c].pc = "relations"
        BY <1>3, CallFields DEF RegisterRelations
    <2>2. CASE call[c].op # "models" /\ Advance(c)
        <3>1. \A d \in Callers \ {c} : call'[d] = call[d]
            BY <2>2, SafeTypes DEF Advance
        <3>2. CASE call[c].op = "ensure"
            <4>1. state'[b] # "absent"
                BY <1>0, <2>1, <3>2 DEF Warming, RowsKept
            <4>2. Warming(c)'
                BY <1>0, <2>1, <2>2, <4>1, AdvanceWarm
            <4> QED
                BY <2>1, <3>1, <4>2, OneCallWarm
        <3>3. CASE call[c].op # "ensure"
            <4>1. call'[c].op # "ensure"
                BY <2>2, <3>3, SafeTypes, CallFields DEF Advance, Call
            <4> QED
                BY <2>1, <3>1, <4>1, OneCallWarm DEF Warming
        <3> QED
            BY <3>2, <3>3
    <2>3. CASE call[c].op = "models"
        <3>1. /\ \A d \in Callers \ {c} : call'[d] = call[d]
              /\ call'[c].op # "ensure"
            BY <1>3, <2>3, SafeTypes DEF RegisterRelations, NoCall
        <3> QED
            BY <2>1, <3>1, OneCallWarm DEF Warming
    <2> QED
        BY <1>3, <2>2, <2>3 DEF RegisterRelations
<1>4. CASE List(c)
    <2>1. /\ \A d \in Callers \ {c} : call'[d] = call[d]
          /\ cached' = cached
          /\ call[c].pc = "list" /\ call'[c].pc = "await" /\ call'[c].op = call[c].op
        BY <1>4, SafeTypes, CallFields DEF List, Goto, Call
    <2>2. call[c].op = "ensure" => Covers(<<>>)'
        BY <1>0, <2>1 DEF Warming, Covers, Registered, RowsKept
    <2>3. Warming(c)'
        BY <2>1, <2>2 DEF Warming
    <2> QED
        BY <2>1, <2>3, OneCallWarm
<1>5. CASE Finish(c)
    <2>1. /\ \A d \in Callers \ {c} : call'[d] = call[d]
          /\ call'[c].op # "ensure"
        BY <1>5, SafeTypes DEF Finish, NoCall
    <2>2. ASSUME NEW d \in Callers PROVE Warming(d)'
        BY <2>1, <2>2, WarmingKept DEF Warm
    <2>3. CASE cached' = "done" => cached = "done"
        BY <2>2, <2>3, WarmStaysRegistered DEF Warm
    <2>4. CASE cached' = "done" /\ cached # "done"
        <3>1. call[c].pc = "await" /\ call[c].op = "ensure"
            BY <1>5, <2>4 DEF Finish, Settle
        <3>2. Covers(<<>>)
            BY <1>0, <3>1 DEF Warming
        <3>3. WarmMeansRegistered'
            BY <3>2 DEF Covers, Registered, RowsKept, WarmMeansRegistered
        <3> QED
            BY <2>2, <3>3 DEF Warm
    <2> QED
        BY <2>3, <2>4
<1>6. CASE Throw(c)
    <2>0. NoCall.op # "ensure"
        BY DEF NoCall
    <2>1. /\ \A d \in Callers \ {c} : call'[d] = call[d]
          /\ call'[c].op # "ensure"
        <3>1. CASE call' = [call EXCEPT ![c] = NoCall]
            BY <2>0, <3>1, SafeTypes
        <3>2. ASSUME call[c].op = "models", NEW h \in Checks, NEW b \in Breakers,
                     \/ call' = [call EXCEPT ![c].todo = <<b>>]
                     \/ call' = [call EXCEPT ![c].pc = "register", ![c].todo = <<h, b>>,
                                            ![c].measured = Red]
              PROVE  call'[c].op # "ensure" /\ \A d \in Callers \ {c} : call'[d] = call[d]
            BY <3>2, SafeTypes, CallFields DEF Call
        <3> QED
            BY <1>6, <3>1, <3>2 DEF Throw
    <2>2. cached' = "done" => cached = "done"
        BY <1>6 DEF Throw, Settle
    <2> QED
        BY <2>1, <2>2, OneCallWarm DEF Warming
<1> QED
    BY <1>1, <1>2, <1>3, <1>4, <1>5, <1>6 DEF CallStep

LEMMA WarmNext == ASSUME Safe, Warm, [Next]_vars PROVE Warm'
<1>0. RowsKept
    BY NextKeepsRows
<1>1. ASSUME NEW c \in Callers, BeginCall(c) PROVE Warm'
    BY <1>0, <1>1, BeginCallWarm
<1>2. ASSUME NEW c \in Callers, CallStep(c) PROVE Warm'
    BY <1>0, <1>2, CallStepWarm
<1>3. ASSUME UNCHANGED <<call, cached>> PROVE Warm'
    <2>1. ASSUME NEW c \in Callers PROVE Warming(c)'
        BY <1>0, <1>3, <2>1, WarmingKept DEF Warm
    <2> QED
        BY <1>0, <1>3, <2>1, WarmStaysRegistered DEF Warm
<1>4. ASSUME NEW c \in Callers, NEW b \in Breakers, Evaluate(c, b) PROVE Warm'
    BY <1>3, <1>4 DEF Evaluate, ReadBreaker, ReadHealthcheckStates, ReadDependencyStates,
       ReadStates, ReadCurrent, WriteState, TaskStep
<1>5. ASSUME NEW c \in Callers, NEW b \in Breakers, TaskThrows(c, b) PROVE Warm'
    <2>1. /\ \A d \in Callers \ {c} : call'[d] = call[d]
          /\ call'[c].pc = "failed"
        BY <1>5, SafeTypes, CallFields DEF TaskThrows, Call
    <2>2. cached' = "done" => cached = "done"
        BY <1>5 DEF TaskThrows, Settle
    <2> QED
        BY <1>0, <2>1, <2>2, OneCallWarm DEF Warming
<1>6. ASSUME NEW c \in Callers, Crash(c) PROVE Warm'
    <2>1. /\ \A d \in Callers \ {c} : call'[d] = call[d]
          /\ call'[c].pc = "idle"
        BY <1>6, SafeTypes DEF Crash, NoCall
    <2>2. cached' = "done" => cached = "done"
        BY <1>6 DEF Crash, Settle
    <2> QED
        BY <1>0, <2>1, <2>2, OneCallWarm DEF Warming
<1>7. ASSUME NEW h \in Checks, NEW s \in Measurable,
             OperatorSetsHealth(h, s) \/ WorldChanges(h, s)
      PROVE  Warm'
    BY <1>3, <1>7 DEF OperatorSetsHealth, WorldChanges
<1>8. CASE UNCHANGED vars
    BY <1>3, <1>8 DEF vars
<1> QED
    BY <1>1, <1>2, <1>4, <1>5, <1>6, <1>7, <1>8 DEF Next
-----------------------------------------------------------------------------
(* What an automated write finds when nobody has overtaken it *)

\* An automated write finds its breaker in order or tripped, or it was overtaken.
Unhurried ==
    /\ overtaken \subseteq Callers \X Breakers
    /\ \A c \in Callers, b \in Breakers :
         At(c, b, "write") /\ task[c][b].automated /\ <<c, b>> \notin overtaken
         => state[b] \in {"on", "tripped"}

LEMMA InitUnhurried == Init => Unhurried
    BY DEF Init, Unhurried, At, NoTask

\* A step that stores no row but an absent one, and brings no task to its write.
LEMMA QuietUnhurried ==
    ASSUME Unhurried,
           overtaken' = overtaken,
           \A b \in Breakers : state[b] # "absent" => state'[b] = state[b],
           \A c \in Callers, b \in Breakers :
               \/ task'[c][b] = task[c][b]
               \/ task'[c][b].pc # "write"
               \/ ~task'[c][b].automated
    PROVE  Unhurried'
    BY DEF Unhurried, At

\* A task that wrote leaves the other automated writes of its breaker overtaken.
LEMMA WriteUnhurried ==
    ASSUME Safe, Unhurried, NEW c \in Callers, NEW b \in Breakers,
           Resume(c, b, NoTask),
           \/ UNCHANGED state /\ overtaken' = overtaken \ {<<c, b>>}
           \/ (\E s \in BreakerState : state' = [state EXCEPT ![b] = s]) /\ Overtakes(c, b)
    PROVE  Unhurried'
<1>1. /\ task'[c][b].pc = "none"
      /\ \A d \in Callers, x \in Breakers :
            <<d, x>> # <<c, b>> => task'[d][x] = task[d][x]
    BY SafeTypes DEF Resume, NoTask
<1>2. overtaken' \subseteq Callers \X Breakers
    BY DEF Unhurried, Overtakes
<1>3. ASSUME NEW d \in Callers, NEW x \in Breakers,
             At(d, x, "write")', task'[d][x].automated, <<d, x>> \notin overtaken'
      PROVE  state'[x] \in {"on", "tripped"}
    <2>1. <<d, x>> # <<c, b>> /\ At(d, x, "write") /\ task[d][x].automated
        BY <1>1, <1>3 DEF At
    <2>2. x = b => UNCHANGED state
        BY <1>3, <2>1 DEF Overtakes
    <2>3. <<d, x>> \notin overtaken /\ state'[x] = state[x]
        BY <1>3, <2>1, <2>2, SafeTypes DEF Overtakes
    <2> QED
        BY <2>1, <2>3 DEF Unhurried
<1> QED
    BY <1>2, <1>3 DEF Unhurried

LEMMA EvaluateUnhurried ==
    ASSUME Safe, Unhurried, NEW c \in Callers, NEW b \in Breakers, Evaluate(c, b)
    PROVE  Unhurried'
<1>1. CASE WriteState(c, b)
    BY <1>1, TaskFields, WriteUnhurried DEF WriteState
<1>2. CASE ReadBreaker(c, b) \/ ReadHealthcheckStates(c, b) \/ ReadDependencyStates(c, b)
           \/ ReadCurrent(c, b)
    <2>1. UNCHANGED <<state, overtaken>>
        BY <1>2 DEF ReadBreaker, ReadHealthcheckStates, ReadDependencyStates, ReadStates,
           ReadCurrent, TaskStep, rows
    <2>2. \A d \in Callers, x \in Breakers :
              <<d, x>> # <<c, b>> => task'[d][x] = task[d][x]
        BY <1>2, SafeTypes DEF ReadBreaker, ReadHealthcheckStates, ReadDependencyStates,
           ReadStates, ReadCurrent, Resume
    <2>3. \/ task'[c][b].pc # "write"
          \/ ~task'[c][b].automated
          \/ state[b] \in {"on", "tripped"}
        <3>1. CASE ReadBreaker(c, b)
            BY <3>1, SafeTypes DEF ReadBreaker, Resume, NoTask
        <3>2. ASSUME NEW source, NEW failed, ReadStates(c, b, source, failed)
              PROVE  task'[c][b].pc # "write"
            <4> DEFINE t == [task[c][b] EXCEPT !.pending = @ \ {source}, !.trip = @ \/ failed]
            <4>1. t.pc = "states"
                BY <3>2, SafeTypes DEF ReadStates, At, Task
            <4>2. task'[c][b] = Decide(t, b)
                BY <3>2, SafeTypes DEF ReadStates, Resume
            <4> HIDE DEF t
            <4> QED
                BY <4>1, <4>2 DEF Decide, NoTask
        <3>3. CASE ReadCurrent(c, b)
            <4>1. CASE MayMove(task[c][b], b)
                BY <3>3, <4>1, SafeTypes DEF ReadCurrent, Resume, MayMove, Task
            <4>2. CASE ~MayMove(task[c][b], b)
                BY <3>3, <4>2, SafeTypes DEF ReadCurrent, Resume, NoTask
            <4> QED
                BY <4>1, <4>2
        <3> QED
            BY <1>2, <3>1, <3>2, <3>3 DEF ReadHealthcheckStates, ReadDependencyStates
    <2> QED
        BY <2>1, <2>2, <2>3 DEF Unhurried, At
<1> QED
    BY <1>1, <1>2 DEF Evaluate

LEMMA NextUnhurried == ASSUME Safe, Unhurried, [Next]_vars PROVE Unhurried'
<1>1. ASSUME NEW c \in Callers, BeginCall(c) PROVE Unhurried'
    <2>1. UNCHANGED <<state, overtaken>>
        BY <1>1 DEF BeginCall, BeginRefresh, BeginEnsure, BeginPut, BeginSet,
           BeginOperatorSet, BeginModels, rows
    <2>2. \A d \in Callers, b \in Breakers :
              task'[d][b] = task[d][b] \/ ~task'[d][b].automated
        <3>1. CASE BeginRefresh(c) \/ BeginEnsure(c)
                   \/ (\E h \in Checks, s \in Measurable : BeginPut(c, h, s))
                   \/ (\E h \in Checks, x \in Breakers : BeginModels(c, h, x))
            <4>1. UNCHANGED task
                BY <3>1 DEF BeginRefresh, BeginEnsure, BeginPut, BeginModels
            <4> QED
                BY <4>1
        <3>2. ASSUME NEW x \in Breakers, NEW s \in HumanStates, BeginSet(c, x, s)
              PROVE  \A d \in Callers, b \in Breakers :
                         task'[d][b] = task[d][b] \/ ~task'[d][b].automated
            BY <3>2, SafeTypes DEF BeginSet, Resume, NoTask
        <3>3. ASSUME NEW x \in Breakers, NEW s \in HumanStates, BeginOperatorSet(c, x, s)
              PROVE  \A d \in Callers, b \in Breakers :
                         task'[d][b] = task[d][b] \/ ~task'[d][b].automated
            BY <3>3, SafeTypes DEF BeginOperatorSet, Resume, NoTask
        <3> QED
            BY <1>1, <3>1, <3>2, <3>3 DEF BeginCall
    <2> QED
        BY <2>1, <2>2, QuietUnhurried
<1>2. ASSUME NEW c \in Callers, CallStep(c) PROVE Unhurried'
    <2>1. overtaken' = overtaken /\ \A b \in Breakers : state[b] # "absent" => state'[b] = state[b]
        BY <1>2, SafeTypes DEF CallStep, RegisterCheck, RegisterBreaker, RegisterRelations,
           List, Finish, Throw, rows
    <2>2. CASE UNCHANGED task
        BY <2>1, <2>2, QuietUnhurried
    <2>3. CASE List(c)
        <3>1. \A d \in Callers, b \in Breakers :
                  task'[d][b] = task[d][b] \/ task'[d][b].pc # "write"
            BY <2>3, SafeTypes DEF List, NoTask
        <3> QED
            BY <2>1, <3>1, QuietUnhurried
    <2>4. CASE \E b \in Breakers : \E s : Resume(c, b, [NoTask EXCEPT !.pc = "current", !.next = s])
        <3>1. \A d \in Callers, b \in Breakers :
                  task'[d][b] = task[d][b] \/ task'[d][b].pc # "write"
            BY <2>4, SafeTypes DEF Resume, NoTask
        <3> QED
            BY <2>1, <3>1, QuietUnhurried
    <2>5. RegisterRelations(c) => UNCHANGED task \/ \E b \in Breakers : \E s :
              Resume(c, b, [NoTask EXCEPT !.pc = "current", !.next = s])
        BY CallFields DEF RegisterRelations
    <2> QED
        BY <1>2, <2>2, <2>3, <2>4, <2>5 DEF CallStep, RegisterCheck, RegisterBreaker, Finish, Throw
<1>3. ASSUME NEW c \in Callers, NEW b \in Breakers, Evaluate(c, b) PROVE Unhurried'
    BY <1>3, EvaluateUnhurried
<1>4. ASSUME NEW c \in Callers, NEW b \in Breakers, TaskThrows(c, b) PROVE Unhurried'
    BY <1>4, TaskFields, WriteUnhurried DEF TaskThrows
<1>5. ASSUME NEW c \in Callers, Crash(c) PROVE Unhurried'
    <2>1. /\ UNCHANGED state /\ overtaken' = overtaken \ ({c} \X Breakers)
          /\ task' = [task EXCEPT ![c] = [b \in Breakers |-> NoTask]]
        BY <1>5 DEF Crash, rows
    <2>2. \A d \in Callers, b \in Breakers :
              task'[d][b] = IF d = c THEN NoTask ELSE task[d][b]
        BY <2>1, SafeTypes
    <2> QED
        BY <2>1, <2>2 DEF Unhurried, At, NoTask
<1>6. ASSUME NEW h \in Checks, NEW s \in Measurable,
             OperatorSetsHealth(h, s) \/ WorldChanges(h, s)
      PROVE  Unhurried'
    BY <1>6 DEF OperatorSetsHealth, WorldChanges, rows, Unhurried, At
<1>7. CASE UNCHANGED vars
    BY <1>7 DEF vars, Unhurried, At
<1> QED
    BY <1>1, <1>2, <1>3, <1>4, <1>5, <1>6, <1>7 DEF Next
-----------------------------------------------------------------------------
(* Theorems *)

LEMMA SafeAlways == Spec => []Safe
    BY InitSafe, NextSafe, PTL DEF Spec

LEMMA UnhurriedAlways == Spec => []Unhurried
<1>1. Safe /\ Unhurried /\ [Next]_vars => Unhurried'
    BY NextUnhurried
<1> QED
    BY <1>1, InitUnhurried, SafeAlways, PTL DEF Spec

\* Every reachable state is well typed: no row ever holds a word of the other table's
\* vocabulary, whoever wrote it.
THEOREM CircuitsTyped == Spec => []TypeOK
<1>1. Safe /\ Unhurried => TypeOK
    BY DEF Safe, Shapes, Unhurried, TypeOK
<1> QED
    BY <1>1, SafeAlways, UnhurriedAlways, PTL

\* Without a red check, a failed model probe or an operator's trip, no breaker is ever
\* tripped, through any number of concurrent registrations and evaluations.
THEOREM TripsCaused == Spec => []TripsAreCaused
<1>1. Safe => TripsAreCaused
    BY DEF Safe, Calm, TripsAreCaused
<1> QED
    BY <1>1, SafeAlways, PTL

\* Whatever stale row it acts on, no registration, evaluation or probe turns a breaker off
\* or revives one that does not heal itself; and one that is off it leaves alone, unless
\* it was put off between the read and the write of setCircuitBreaker.
THEOREM AutomationInPolicy == Spec => AutomationStaysInPolicy
<1> DEFINE Policy == \A b \in Breakers :
             state'[b] # state[b] /\ state[b] # "absent" /\ ~HumanWrites(b)
             => /\ state'[b] = "tripped" \/ (state'[b] = "on" /\ b \in SelfHeals)
                /\ state[b] # "off" \/ WritesLate(b)
<1>1. ASSUME Safe, Unhurried, [Next]_vars PROVE [Policy]_vars
    <2> SUFFICES ASSUME NEW b \in Breakers, state'[b] # state[b], state[b] # "absent",
                        ~HumanWrites(b)
                 PROVE  Automatic(state'[b], b) /\ (state[b] # "off" \/ WritesLate(b))
        BY DEF Automatic
    <2>1. PICK c \in Callers : BeginCall(c) \/ CallStep(c) \/ Crash(c)
                               \/ \E x \in Breakers : Evaluate(c, x) \/ TaskThrows(c, x)
        BY <1>1 DEF Next, vars, rows, OperatorSetsHealth, WorldChanges
    <2>2. ~BeginCall(c) /\ ~Crash(c)
        BY DEF BeginCall, BeginRefresh, BeginEnsure, BeginPut, BeginSet, BeginOperatorSet,
               BeginModels, Crash, rows
    <2>3. ~CallStep(c)
        BY SafeTypes, <1>1 DEF CallStep, RegisterCheck, RegisterBreaker, RegisterRelations,
               List, Finish, Throw, rows
    <2>4. PICK x \in Breakers : Evaluate(c, x) \/ TaskThrows(c, x)
        BY <2>1, <2>2, <2>3
    <2>5. /\ At(c, x, "write") /\ state' = [state EXCEPT ![x] = task[c][x].next]
          /\ Resume(c, x, NoTask)
        BY <2>4 DEF Evaluate, ReadBreaker, ReadHealthcheckStates, ReadDependencyStates,
               ReadStates, ReadCurrent, WriteState, TaskThrows, TaskStep, rows
    <2>6. x = b /\ state'[b] = task[c][b].next
        BY <2>5, SafeTypes, <1>1
    <2>7. task'[c][b] = NoTask
        BY <2>5, <2>6, SafeTypes, <1>1 DEF Resume
    <2>8. task[c][b].automated
        BY <2>5, <2>6, <2>7, TaskFields, <1>1 DEF HumanWrites
    <2>9. state[b] = "off" => <<c, b>> \in overtaken
        BY <1>1, <2>5, <2>6, <2>8 DEF Unhurried
    <2> QED
        BY <2>5, <2>6, <2>7, <2>8, <2>9, TaskFields, <1>1 DEF WritesLate
<1> QED
    BY <1>1, SafeAlways, UnhurriedAlways, PTL DEF Spec, AutomationStaysInPolicy

\* An isolate that skips registration because its promise resolved finds every breaker of
\* its manifests registered, however many registrations raced, failed or were evicted.
THEOREM WarmRegistered == Spec => []WarmMeansRegistered
<1>1. Init => Warm
    BY DEF Init, Warm, WarmMeansRegistered, Warming, NoCall
<1>2. Safe /\ Warm /\ [Next]_vars => Warm'
    BY WarmNext
<1>3. Warm => WarmMeansRegistered
    BY DEF Warm
<1> QED
    BY <1>1, <1>2, <1>3, SafeAlways, PTL DEF Spec

-----------------------------------------------------------------------------
(* Whom a request of a registering isolate waits for *)

\* Evaluations and writes belong to a call that awaits them.
Held ==
    \A c \in Callers, b \in Breakers :
        task[c][b] # NoTask => call[c].pc \in {"await", "failed"}

\* The registration of a request is under way in c.
Registers(c) == call[c].op = "ensure" /\ call[c].pc \notin {"idle", "failed"}

\* The isolate's promise is pending exactly while one call is there to settle it.
OneRegistrar ==
    /\ cached = "running" <=> \E c \in Callers : Registers(c)
    /\ \A c, d \in Callers : Registers(c) /\ Registers(d) => c = d

LEMMA RegistrarStep ==
    ASSUME OneRegistrar, NEW c \in Callers, \A d \in Callers \ {c} : call'[d] = call[d],
           \/ UNCHANGED cached /\ (Registers(c)' <=> Registers(c))
           \/ Registers(c) /\ ~Registers(c)' /\ cached' # "running"
           \/ ~Registers(c) /\ Registers(c)' /\ cached # "running" /\ cached' = "running"
    PROVE  OneRegistrar'
<1>1. \A d \in Callers \ {c} : Registers(d)' <=> Registers(d)
    BY DEF Registers
<1> QED
    BY <1>1 DEF OneRegistrar

LEMMA BeginHeld ==
    ASSUME Safe, Held, OneRegistrar, NEW c \in Callers, BeginCall(c)
    PROVE  Held' /\ OneRegistrar'
<1>1. PICK op, pc, todo, measured :
        /\ Begin(c, op, pc, todo, measured)
        /\ \/ op = "ensure" /\ pc = "register" /\ cached # "running" /\ cached' = "running"
           \/ op # "ensure" /\ UNCHANGED cached
        /\ \/ UNCHANGED task
           \/ pc = "await" /\ \E b \in Breakers : \E t : Resume(c, b, t)
    <2>1. CASE BeginRefresh(c)
        BY <2>1 DEF BeginRefresh
    <2>2. CASE BeginEnsure(c)
        BY <2>2 DEF BeginEnsure
    <2>3. CASE \E h \in Checks, s \in Measurable : BeginPut(c, h, s)
        BY <2>3 DEF BeginPut
    <2>4. CASE \E b \in Breakers, s \in HumanStates : BeginSet(c, b, s)
        BY <2>4 DEF BeginSet
    <2>5. CASE \E b \in Breakers, s \in HumanStates : BeginOperatorSet(c, b, s)
        BY <2>5 DEF BeginOperatorSet
    <2>6. CASE \E h \in Checks, b \in Breakers : BeginModels(c, h, b)
        BY <2>6 DEF BeginModels
    <2> QED
        BY <2>1, <2>2, <2>3, <2>4, <2>5, <2>6 DEF BeginCall
<1>2. /\ \A d \in Callers \ {c} : call'[d] = call[d] /\ task'[d] = task[d]
      /\ call'[c].op = op /\ call'[c].pc = pc /\ call[c].pc = "idle"
      /\ task[c] = [b \in Breakers |-> NoTask]
    BY <1>1, SafeTypes DEF Begin, Idle, Resume
<1>3. Held'
    <2>1. \A b \in Breakers : task[c][b] = NoTask
        BY <1>2
    <2> QED
        BY <1>1, <1>2, <2>1 DEF Held
<1>4. OneRegistrar'
    <2>1. ~Registers(c)
        BY <1>2 DEF Registers
    <2>2. Registers(c)' <=> op = "ensure" /\ pc \notin {"idle", "failed"}
        BY <1>2 DEF Registers
    <2> QED
        BY <1>1, <1>2, <2>1, <2>2, RegistrarStep
<1> QED
    BY <1>3, <1>4

LEMMA CallStepHeld ==
    ASSUME Safe, Held, OneRegistrar, NEW c \in Callers, CallStep(c)
    PROVE  Held' /\ OneRegistrar'
<1>0. call[c] \in Call /\ task[c] \in [Breakers -> Task] /\ NoCall.op = "refresh" /\ NoCall.pc = "idle"
    BY SafeTypes DEF NoCall
\* The call moves on, with no task.
<1>1. ASSUME call[c].pc \in {"register", "relations", "list"}, UNCHANGED <<task, cached>>,
             \A d \in Callers \ {c} : call'[d] = call[d],
             call'[c].op = call[c].op, call'[c].pc \notin {"idle", "failed"}
      PROVE  Held' /\ OneRegistrar'
    <2>1. Held'
        BY <1>1 DEF Held
    <2>2. Registers(c)' <=> Registers(c)
        BY <1>1 DEF Registers
    <2> QED
        BY <1>1, <2>1, <2>2, RegistrarStep
<1>2. CASE RegisterCheck(c)
    <2>1. /\ \A d \in Callers \ {c} : call'[d] = call[d]
          /\ call'[c].op = call[c].op /\ call'[c].pc \in {"list", "register"}
        BY <1>0, <1>2, SafeTypes DEF RegisterCheck, Advance, Call
    <2> QED
        BY <1>1, <1>2, <2>1 DEF RegisterCheck
<1>3. CASE RegisterBreaker(c)
    <2>1. /\ \A d \in Callers \ {c} : call'[d] = call[d]
          /\ call'[c].op = call[c].op /\ call'[c].pc = "relations"
        BY <1>0, <1>3, SafeTypes DEF RegisterBreaker, Goto, Call
    <2> QED
        BY <1>1, <1>3, <2>1 DEF RegisterBreaker
<1>4. CASE RegisterRelations(c)
    <2>1. call[c].pc = "relations" /\ UNCHANGED cached
        BY <1>4 DEF RegisterRelations
    <2>2. CASE call[c].op # "models" /\ Advance(c) /\ UNCHANGED task
        <3>1. /\ \A d \in Callers \ {c} : call'[d] = call[d]
              /\ call'[c].op = call[c].op /\ call'[c].pc \in {"list", "register"}
            BY <1>0, <2>2, SafeTypes DEF Advance, Call
        <3> QED
            BY <1>1, <2>1, <2>2, <3>1
    <2>3. CASE /\ call[c].op = "models"
               /\ call' = [call EXCEPT ![c] = [NoCall EXCEPT !.op = "models", !.pc = "await"]]
               /\ \E b \in Breakers : \E t : Resume(c, b, t)
        <3>1. /\ \A d \in Callers \ {c} : call'[d] = call[d] /\ task'[d] = task[d]
              /\ call'[c].op = "models" /\ call'[c].pc = "await"
            BY <2>3, SafeTypes DEF NoCall, Resume
        <3>2. Held'
            BY <3>1 DEF Held
        <3>3. ~Registers(c) /\ ~Registers(c)'
            BY <2>3, <3>1 DEF Registers
        <3> QED
            BY <2>1, <3>1, <3>2, <3>3, RegistrarStep
    <2>4. Head(call[c].todo) \in Breakers
        BY <2>1, CallFields
    <2> QED
        BY <1>4, <2>2, <2>3, <2>4 DEF RegisterRelations
<1>5. CASE List(c)
    <2>1. /\ \A d \in Callers \ {c} : call'[d] = call[d] /\ task'[d] = task[d]
          /\ call'[c].op = call[c].op /\ call'[c].pc = "await"
          /\ call[c].pc = "list" /\ UNCHANGED cached
        BY <1>0, <1>5, SafeTypes DEF List, Goto, Call
    <2>2. Held'
        BY <2>1 DEF Held
    <2>3. Registers(c)' <=> Registers(c)
        BY <2>1 DEF Registers
    <2> QED
        BY <2>1, <2>2, <2>3, RegistrarStep
\* The call ends, and with it the registration it was.
<1>6. ASSUME call' = [call EXCEPT ![c] = NoCall], UNCHANGED task,
             \A b \in Breakers : task[c][b] = NoTask,
             call[c].pc # "idle",
             IF Registers(c) THEN cached' # "running" ELSE UNCHANGED cached
      PROVE  Held' /\ OneRegistrar'
    <2>1. \A d \in Callers \ {c} : call'[d] = call[d]
        BY <1>6, SafeTypes
    <2>2. call'[c].op = "refresh"
        BY <1>0, <1>6, SafeTypes
    <2>3. Held'
        BY <1>6, <2>1 DEF Held
    <2>4. ~Registers(c)'
        BY <2>2 DEF Registers
    <2> QED
        BY <1>6, <2>1, <2>3, <2>4, RegistrarStep
<1>7. CASE Finish(c)
    <2>1. \A b \in Breakers : task[c][b] = NoTask
        BY <1>7 DEF Finish
    <2>2. IF Registers(c) THEN cached' # "running" ELSE UNCHANGED cached
        BY <1>7 DEF Finish, Settle, Registers
    <2> QED
        BY <1>6, <1>7, <2>1, <2>2 DEF Finish
<1>8. CASE Throw(c)
    <2>1. /\ call[c].pc \in {"register", "relations", "list"} /\ UNCHANGED task
          /\ IF Registers(c) THEN cached' # "running" ELSE UNCHANGED cached
        BY <1>8 DEF Throw, StatementRejects, Settle, Registers
    <2>2. CASE call' = [call EXCEPT ![c] = NoCall]
        <3>1. \A b \in Breakers : task[c][b] = NoTask
            BY <2>1 DEF Held
        <3> QED
            BY <1>6, <2>1, <2>2, <3>1
    <2>3. ASSUME call[c].op = "models", NEW h \in Checks, NEW b \in Breakers,
                 \/ call' = [call EXCEPT ![c].todo = <<b>>]
                 \/ call' = [call EXCEPT ![c].pc = "register", ![c].todo = <<h, b>>,
                                        ![c].measured = Red]
          PROVE  Held' /\ OneRegistrar'
        <3>1. /\ \A d \in Callers \ {c} : call'[d] = call[d]
              /\ call'[c].op = "models" /\ call'[c].pc \notin {"idle", "failed"}
            <4>1. call \in [Callers -> Call]
                BY SafeTypes
            <4>2. CASE call' = [call EXCEPT ![c].todo = <<b>>]
                <5>1. call'[c].op = call[c].op /\ call'[c].pc = call[c].pc
                    BY <4>1, <4>2 DEF Call
                <5>2. \A d \in Callers \ {c} : call'[d] = call[d]
                    BY <4>1, <4>2
                <5> QED
                    BY <2>1, <2>3, <5>1, <5>2
            <4>3. CASE call' = [call EXCEPT ![c].pc = "register", ![c].todo = <<h, b>>,
                                           ![c].measured = Red]
                <5>1. call'[c].op = call[c].op /\ call'[c].pc = "register"
                    BY <4>1, <4>3 DEF Call
                <5>2. \A d \in Callers \ {c} : call'[d] = call[d]
                    BY <4>1, <4>3
                <5> QED
                    BY <2>3, <5>1, <5>2
            <4> QED
                BY <2>3, <4>2, <4>3
        <3>2. UNCHANGED cached
            BY <2>1, <2>3 DEF Registers
        <3> QED
            BY <1>1, <2>1, <2>3, <3>1, <3>2
    <2> QED
        BY <1>8, <2>2, <2>3 DEF Throw
<1> QED
    BY <1>2, <1>3, <1>4, <1>5, <1>7, <1>8 DEF CallStep

LEMMA HeldNext == ASSUME Safe, Held, OneRegistrar, [Next]_vars PROVE Held' /\ OneRegistrar'
<1>1. ASSUME UNCHANGED <<call, cached>>, \A c \in Callers, b \in Breakers :
                 task'[c][b] = task[c][b] \/ task[c][b] # NoTask
      PROVE  Held' /\ OneRegistrar'
    BY <1>1 DEF Held, OneRegistrar, Registers
<1>2. ASSUME NEW c \in Callers, NEW b \in Breakers, Evaluate(c, b)
      PROVE  Held' /\ OneRegistrar'
    <2>1. UNCHANGED <<call, cached>> /\ task[c][b].pc # "none" /\ \E t : Resume(c, b, t)
        BY <1>2 DEF Evaluate, ReadBreaker, ReadHealthcheckStates, ReadDependencyStates,
           ReadStates, ReadCurrent, WriteState, TaskStep, At
    <2>2. task[c][b] # NoTask
        BY <2>1 DEF NoTask
    <2> QED
        BY <1>1, <2>1, <2>2, SafeTypes DEF Resume
<1>3. ASSUME NEW c \in Callers, NEW b \in Breakers, TaskThrows(c, b)
      PROVE  Held' /\ OneRegistrar'
    <2>1. call[c].pc \in {"await", "failed"}
        BY <1>3 DEF TaskThrows, Held, NoTask
    <2>2. /\ \A d \in Callers \ {c} : call'[d] = call[d] /\ task'[d] = task[d]
          /\ call'[c].pc = "failed"
        BY <1>3, SafeTypes, CallFields DEF TaskThrows, Resume, Call
    <2>3. Held'
        BY <2>2 DEF Held
    <2>4. ~Registers(c)' /\ IF Registers(c) THEN cached' # "running" ELSE UNCHANGED cached
        BY <1>3, <2>1, <2>2 DEF TaskThrows, Settle, Registers
    <2> QED
        BY <2>2, <2>3, <2>4, RegistrarStep
<1>4. ASSUME NEW c \in Callers, Crash(c) PROVE Held' /\ OneRegistrar'
    <2>1. /\ \A d \in Callers \ {c} : call'[d] = call[d] /\ task'[d] = task[d]
          /\ call'[c].op = "refresh" /\ \A b \in Breakers : task'[c][b] = NoTask
        BY <1>4, SafeTypes DEF Crash, NoCall
    <2>2. call[c].pc # "idle"
        <3>1. CASE task[c] = [b \in Breakers |-> NoTask]
            BY <1>4, <3>1 DEF Crash, Idle
        <3>2. CASE task[c] # [b \in Breakers |-> NoTask]
            <4>1. task[c] \in [Breakers -> Task]
                BY SafeTypes
            <4>2. PICK b \in Breakers : task[c][b] # NoTask
                BY <3>2, <4>1
            <4> QED
                BY <4>2 DEF Held
        <3> QED
            BY <3>1, <3>2
    <2>3. Held'
        BY <2>1 DEF Held
    <2>4. ~Registers(c)' /\ IF Registers(c) THEN cached' # "running" ELSE UNCHANGED cached
        BY <1>4, <2>1, <2>2 DEF Crash, Settle, Registers
    <2> QED
        BY <2>1, <2>3, <2>4, RegistrarStep
<1>5. ASSUME NEW h \in Checks, NEW s \in Measurable,
             OperatorSetsHealth(h, s) \/ WorldChanges(h, s)
      PROVE  Held' /\ OneRegistrar'
    BY <1>1, <1>5 DEF OperatorSetsHealth, WorldChanges
<1>6. CASE UNCHANGED vars
    BY <1>1, <1>6 DEF vars
<1> QED
    BY <1>2, <1>3, <1>4, <1>5, <1>6, BeginHeld, CallStepHeld DEF Next

\* No request waits in vain for the registration of its isolate, and no two registrations
\* race for its promise: whatever rejects, throws or is evicted, the promise is pending only
\* while the call that will settle it is under way (ensureFeatureManifests).
THEOREM PromiseIsOwned == Spec => []OneRegistrar
<1>1. Init => Held /\ OneRegistrar
    BY DEF Init, Held, OneRegistrar, Registers, NoCall
<1>2. Safe /\ Held /\ OneRegistrar /\ [Next]_vars => Held' /\ OneRegistrar'
    BY HeldNext
<1> QED
    BY <1>1, <1>2, SafeAlways, PTL DEF Spec
=============================================================================
