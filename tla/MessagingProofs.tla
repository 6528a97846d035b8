--------------------------- MODULE MessagingProofs ---------------------------
(***************************************************************************)
(* Proofs about Messaging, for any users, contexts, callers, calls and     *)
(* faults, and any bounds: the tables keep their foreign keys, and only    *)
(* members speak.  Where calls name only ids that were handed out          *)
(* (EarlyIds is FALSE), only members read and only creators manage.        *)
(***************************************************************************)
EXTENDS Messaging, TLAPS

USE MessagingAssumption

-----------------------------------------------------------------------------
(* Types *)

\* An INSERT of a participant names a user.
Typed == TypeOK /\ \A c \in Callers : At(c, "put") => call[c].target \in Users

\* Every helper on activation records answers an activation record.
LEMMA HelpersTyped ==
    ASSUME NEW k \in Call
    PROVE  /\ End(k) \in Call /\ Answered(k) \in Call /\ Thrown(k) \in Call
           /\ Adding(k) \in Call /\ WithoutRow(k) \in Call /\ Granted(k) \in Call
           /\ Forgotten(Granted(k)) \in Call
<1>1. End(k) \in Call
  BY DEF End, Blank, Call, Stages, PCs, CallNames, Creators
<1>2. Answered(k) \in Call
  <2>1. [End(k) EXCEPT !.pc = "resolved", !.op = k.op, !.id = k.id, !.wanted = k.wanted] \in Call
    BY <1>1 DEF Call, PCs
  <2> QED
    BY <1>1, <2>1 DEF Answered
<1>3. Thrown(k) \in Call
  <2>1. [k EXCEPT !.pc = "find", !.stage = "raced", !.creating = FALSE, !.todo = {}] \in Call
    BY DEF Call, PCs, Stages
  <2> QED
    BY <1>1, <2>1 DEF Thrown
<1>4. Adding(k) \in Call
  <2>1. /\ [k EXCEPT !.pc = "probe"] \in Call
        /\ [k EXCEPT !.pc = "hydrate", !.stage = "answer"] \in Call
        /\ [k EXCEPT !.pc = "load", !.stage = "answer"] \in Call
    BY DEF Call, PCs, Stages
  <2> QED
    BY <1>2, <2>1 DEF Adding
<1>5. WithoutRow(k) \in Call
  <2>1. [k EXCEPT !.pc = "list"] \in Call
    BY DEF Call, PCs
  <2> QED
    BY <1>1, <1>2, <1>4, <2>1 DEF WithoutRow
<1>6. Granted(k) \in Call
  <2>1. k.op \in CallNames
    BY DEF Call
  <2>2. [k EXCEPT !.pc = "load", !.stage = "manage"] \in Call
    BY DEF Call, PCs, Stages
  <2>3. [k EXCEPT !.pc = "list"] \in Call
    BY DEF Call, PCs
  <2>4. k.op \notin {"getOrCreate", "create", "add", "read"} => [k EXCEPT !.pc = k.op] \in Call
    BY <2>1 DEF Call, PCs, CallNames
  <2> QED
    BY <1>2, <1>4, <2>2, <2>3, <2>4 DEF Granted
<1>7. Forgotten(Granted(k)) \in Call
  BY <1>6 DEF Forgotten, Call, Creators
<1> QED
  BY <1>1, <1>2, <1>3, <1>4, <1>5, <1>6, <1>7

\* Where the helpers lead: none of them to the INSERT of a participant.
LEMMA HelpersLead ==
    ASSUME NEW k \in Call
    PROVE  /\ End(k).pc = "idle"
           /\ Answered(k).pc \in {"idle", "resolved"}
           /\ Thrown(k).pc \in {"idle", "find"}
           /\ Adding(k).pc \in {"idle", "resolved", "probe", "hydrate", "load"}
           /\ WithoutRow(k).pc \in {"idle", "resolved", "probe", "hydrate", "load", "list"}
           /\ Forgotten(Granted(k)).pc \in {"idle", "resolved", "probe", "hydrate", "load", "list",
                                           "append", "remove", "delete", "deleteMessage"}
<1>1. End(k).pc = "idle"
  BY DEF End, Blank
<1>2. Answered(k).pc \in {"idle", "resolved"}
  <2>1. [End(k) EXCEPT !.pc = "resolved", !.op = k.op, !.id = k.id, !.wanted = k.wanted].pc = "resolved"
    BY HelpersTyped DEF Call
  <2> QED
    BY <1>1, <2>1 DEF Answered
<1>3. Thrown(k).pc \in {"idle", "find"}
  BY <1>1 DEF Thrown, Call
<1>4. Adding(k).pc \in {"idle", "resolved", "probe", "hydrate", "load"}
  BY <1>2 DEF Adding, Call
<1>5. WithoutRow(k).pc \in {"idle", "resolved", "probe", "hydrate", "load", "list"}
  BY <1>1, <1>2, <1>4 DEF WithoutRow, Call
<1>6. Granted(k).pc \in {"idle", "resolved", "probe", "hydrate", "load", "list",
                        "append", "remove", "delete", "deleteMessage"}
  <2>1. k.op \in {"getOrCreate", "create", "add", "read", "append", "remove", "delete", "deleteMessage"}
    BY DEF Call, CallNames
  <2>2. /\ [k EXCEPT !.pc = "load", !.stage = "manage"].pc = "load"
        /\ [k EXCEPT !.pc = "list"].pc = "list"
        /\ [k EXCEPT !.pc = k.op].pc = k.op
    BY DEF Call
  <2> QED
    BY <1>2, <1>4, <2>1, <2>2 DEF Granted
<1>7. Forgotten(Granted(k)).pc = Granted(k).pc
  <2>1. Granted(k) \in Call
    BY HelpersTyped
  <2> QED
    BY <2>1 DEF Forgotten, Call
<1> QED
  BY <1>1, <1>2, <1>3, <1>4, <1>5, <1>6, <1>7

\* A step that leaves the tables alone keeps the types if its activation record is one.
LEMMA ContinueTyped ==
    ASSUME TypeOK, NEW c \in Callers, NEW k \in Call, Continue(c, k)
    PROVE  call' \in [Callers -> Call]
  BY DEF TypeOK, Continue

LEMMA QuietTyped ==
    ASSUME TypeOK, UNCHANGED tables, call' \in [Callers -> Call]
    PROVE  TypeOK'
  BY DEF TypeOK, tables

\* A call that has just begun.
Fresh(k, op) ==
    k \in Call /\ k.op = op /\ k.id = 0 /\ k.creator = "nobody" /\ k.stage = "look"
Begun(k) ==
    /\ k \in Call
    /\ k.pc \in {"insert", "find", "load"} /\ k.creator = "nobody"
    /\ k.id # 0 => Nameable(k.id)
    /\ k.pc = "find" => k.stage = "look"
    /\ k.stage = "access" => k.op \in {"append", "read"}

LEMMA BeginTyped ==
    ASSUME TypeOK, NEW c \in Callers, BeginCall(c)
    PROVE  (\E k : Begun(k) /\ Continue(c, k)) /\ UNCHANGED tables
<1>0. PICK a \in Actors :
        \/ \E op \in {"getOrCreate", "create"}, x \in Contexts, ps \in Requests :
             BeginCreate(c, op, a, x, ps)
        \/ \E i \in Ids :
             \/ \E ps \in Requests : BeginAdd(c, a, i, ps)
             \/ \E u \in Users : BeginRemove(c, a, i, u)
             \/ \E op \in {"append", "read"} : BeginVisit(c, op, a, i)
             \/ BeginDelete(c, a, i)
             \/ \E v \in 1..(nextMessage - 1) : BeginDeleteMessage(c, a, i, v)
  BY DEF BeginCall
<1>1. a \in Users \cup {"system"} /\ call[c].context \in Contexts
  BY DEF TypeOK, Call
<1> DEFINE Goal == (\E k : Begun(k) /\ Continue(c, k)) /\ UNCHANGED tables
<1>2. ASSUME NEW k, Begun(k), Begin(c, k) PROVE Goal
  BY <1>2 DEF Begin
<1> HIDE DEF Goal
<1>3. ASSUME NEW op \in CallNames PROVE Fresh(Asked(c, op, a), op)
  <2>1. Fresh(Blank(op, call[c].context), op)
    BY <1>1 DEF Fresh, Blank, Call, Stages, PCs, Creators
  <2> QED
    BY <1>1, <2>1 DEF Fresh, Asked, Call
<1>4. ASSUME NEW op \in {"getOrCreate", "create"}, NEW x \in Contexts, NEW ps \in Requests,
             BeginCreate(c, op, a, x, ps)
      PROVE  Goal
  <2> DEFINE pc == IF op = "create" THEN "insert" ELSE "find"
             creating == op = "create"
             k == [Asked(c, op, a) EXCEPT !.context = x, !.todo = ps,
                                          !.pc = pc, !.creating = creating]
  <2>1. pc \in PCs /\ pc \in {"insert", "find"} /\ creating \in BOOLEAN /\ ps \in SUBSET Users /\ Fresh(Asked(c, op, a), op)
    BY <1>3 DEF PCs, CallNames
  <2>2. Begin(c, k)
    BY <1>4 DEF BeginCreate
  <2> HIDE DEF pc, creating
  <2>3. Begun(k)
    BY <2>1 DEF Fresh, Begun, Call
  <2> QED
    BY <1>2, <2>2, <2>3
<1>5. ASSUME NEW i \in Ids, NEW ps \in Requests, BeginAdd(c, a, i, ps)
      PROVE  Goal
  <2> DEFINE k == [Asked(c, "add", a) EXCEPT !.id = i, !.todo = ps, !.pc = "load", !.stage = "manage"]
  <2>0. Fresh(Asked(c, "add", a), "add") /\ i \in 0..MaxId /\ Nameable(i) /\ ps \in SUBSET Users
    BY <1>3, <1>5 DEF BeginAdd, CallNames, Ids
  <2>1. Begun(k)
    BY <2>0 DEF Fresh, Begun, Call, PCs, Stages
  <2>2. Begin(c, k)
    BY <1>5 DEF BeginAdd
  <2> QED
    BY <1>2, <2>1, <2>2
<1>6. ASSUME NEW i \in Ids, NEW u \in Users, BeginRemove(c, a, i, u)
      PROVE  Goal
  <2> DEFINE k == [Asked(c, "remove", a) EXCEPT !.id = i, !.target = u, !.pc = "load", !.stage = "manage"]
  <2>0. Fresh(Asked(c, "remove", a), "remove") /\ i \in 0..MaxId /\ Nameable(i) /\ u \in Creators
    BY <1>3, <1>6 DEF BeginRemove, CallNames, Ids, Creators
  <2>1. Begun(k)
    BY <2>0 DEF Fresh, Begun, Call, PCs, Stages
  <2>2. Begin(c, k)
    BY <1>6 DEF BeginRemove
  <2> QED
    BY <1>2, <2>1, <2>2
<1>7. ASSUME NEW i \in Ids, NEW op \in {"append", "read"}, BeginVisit(c, op, a, i)
      PROVE  Goal
  <2> DEFINE k == [Asked(c, op, a) EXCEPT !.id = i, !.pc = "load", !.stage = "access"]
  <2>0. Fresh(Asked(c, op, a), op) /\ i \in 0..MaxId /\ Nameable(i)
    BY <1>3, <1>7 DEF BeginVisit, CallNames, Ids
  <2>1. Begun(k)
    BY <2>0 DEF Fresh, Begun, Call, PCs, Stages
  <2>2. Begin(c, k)
    BY <1>7 DEF BeginVisit
  <2> QED
    BY <1>2, <2>1, <2>2
<1>8. ASSUME NEW i \in Ids, BeginDelete(c, a, i)
      PROVE  Goal
  <2> DEFINE k == [Asked(c, "delete", a) EXCEPT !.id = i, !.pc = "load", !.stage = "manage"]
  <2>0. Fresh(Asked(c, "delete", a), "delete") /\ i \in 0..MaxId /\ Nameable(i)
    BY <1>3, <1>8 DEF BeginDelete, CallNames, Ids
  <2>1. Begun(k)
    BY <2>0 DEF Fresh, Begun, Call, PCs, Stages
  <2>2. Begin(c, k)
    BY <1>8 DEF BeginDelete
  <2> QED
    BY <1>2, <2>1, <2>2
<1>9. ASSUME NEW i \in Ids, NEW v \in 1..(nextMessage - 1), BeginDeleteMessage(c, a, i, v)
      PROVE  Goal
  <2> DEFINE k == [Asked(c, "deleteMessage", a) EXCEPT !.id = i, !.victim = v,
                                                       !.pc = "load", !.stage = "manage"]
  <2>0. Fresh(Asked(c, "deleteMessage", a), "deleteMessage") /\ i \in 0..MaxId /\ Nameable(i)
    BY <1>3, <1>9 DEF BeginDeleteMessage, CallNames, Ids
  <2>1. v \in 0..MaxMessage
    BY DEF TypeOK
  <2>2. Begun(k)
    BY <2>0, <2>1 DEF Fresh, Begun, Call, PCs, Stages
  <2>3. Begin(c, k)
    BY <1>9 DEF BeginDeleteMessage
  <2> QED
    BY <1>2, <2>2, <2>3
<1> QED
  BY <1>0, <1>4, <1>5, <1>6, <1>7, <1>8, <1>9 DEF Goal

\* Where a statement leaves its activation record, whatever it did to the tables.
LEMMA StatementTyped ==
    ASSUME TypeOK, NEW c \in Callers, Statement(c)
    PROVE  \E k \in Call : Continue(c, k) /\ (k.pc = "put" => k.target \in Users)
<1> DEFINE r == call[c]
           Fine(k) == k \in Call /\ (k.pc = "put" => k.target \in Users)
           Goal == \E k : Fine(k) /\ Continue(c, k)
<1>1. r \in Call
  BY DEF TypeOK
<1>2. ASSUME NEW k \in Call
      PROVE  /\ Fine(End(k)) /\ Fine(Thrown(k)) /\ Fine(Adding(k)) /\ Fine(WithoutRow(k))
             /\ Fine(Forgotten(Granted(k)))
  BY HelpersTyped, HelpersLead
<1>3. ASSUME NEW k, Fine(k), Continue(c, k) PROVE Goal
  BY <1>3
<1>4. SUFFICES Goal
  OBVIOUS
<1> HIDE DEF r, Goal, Fine
<1>5. CASE Find(c)
  <2>1. ASSUME NEW x \in Contexts
        PROVE  Fine([r EXCEPT !.id = conversation[x].id, !.creator = conversation[x].creator, !.pc = "hydrate"])
    <3>1. conversation[x].id \in 0..MaxId /\ conversation[x].creator \in Creators
      BY DEF TypeOK
    <3> QED
      BY <1>1, <3>1 DEF Call, PCs, Fine
  <2>2. Fine([r EXCEPT !.pc = "insert", !.creating = TRUE]) /\ r.context \in Contexts
    BY <1>1 DEF Call, PCs, Fine
  <2> DEFINE found == [r EXCEPT !.id = conversation[r.context].id,
                                !.creator = conversation[r.context].creator, !.pc = "hydrate"]
             fresh == [r EXCEPT !.pc = "insert", !.creating = TRUE]
  <2>3. Continue(c, found) \/ Continue(c, fresh) \/ Continue(c, End(r))
    BY <1>5 DEF Find, r
  <2>4. Fine(found) /\ Fine(fresh)
    <3>1. r.context \in Contexts
      BY <1>1 DEF Call
    <3> QED
      BY <2>1, <2>2, <3>1
  <2> HIDE DEF found, fresh
  <2> QED
    BY <1>1, <1>2, <1>3, <2>3, <2>4
<1>6. CASE Load(c)
  <2>1. ASSUME Exists(r.id) PROVE conversation[RowOf(r.id)].creator \in Creators
    <3>1. RowOf(r.id) \in Contexts
      BY <2>1 DEF Exists, RowOf
    <3> QED
      BY <3>1 DEF TypeOK
  <2>2. ASSUME NEW u \in Creators PROVE Fine([r EXCEPT !.creator = u, !.pc = "hydrate"])
    BY <1>1 DEF Call, PCs, Fine
  <2> DEFINE found == [r EXCEPT !.creator = conversation[RowOf(r.id)].creator, !.pc = "hydrate"]
  <2>3. (Exists(r.id) /\ Continue(c, found)) \/ Continue(c, WithoutRow(r))
    BY <1>6 DEF Load, r
  <2>4. Exists(r.id) => Fine(found)
    BY <2>1, <2>2
  <2> HIDE DEF found
  <2> QED
    BY <1>1, <1>2, <1>3, <2>3, <2>4
<1>7. CASE Hydrate(c)
  BY <1>1, <1>2, <1>3, <1>7 DEF Hydrate, r
<1>8. CASE Insert(c)
  <2> DEFINE me == IF IsUser(r) THEN {r.actor} ELSE {}
             k == [r EXCEPT !.todo = @ \cup me, !.wanted = r.todo \cup me]
             n == [k EXCEPT !.id = FreshId, !.pc = "load", !.stage = "manage"]
  <2>1. me \subseteq Users
    BY <1>1 DEF IsUser, Call
  <2>2. k \in Call
    BY <1>1, <2>1 DEF Call
  <2>3. FreshId \in 0..MaxId
    BY <1>8 DEF Insert, FreshId, TypeOK
  <2>4. Continue(c, n) \/ Continue(c, Thrown(k))
    BY <1>8 DEF Insert, r
  <2> HIDE DEF k
  <2>5. Fine(n)
    BY <2>2, <2>3 DEF Call, PCs, Stages, Fine
  <2> HIDE DEF n
  <2> QED
    BY <1>2, <1>3, <2>2, <2>4, <2>5
<1>9. CASE Probe(c)
  <2>1. PICK u \in r.todo :
          LET k == [r EXCEPT !.todo = @ \ {u}]
          IN  Continue(c, IF <<k.id, u>> \in participants THEN Adding(k)
                          ELSE [k EXCEPT !.pc = "put", !.target = u])
    BY <1>9 DEF Probe, r
  <2> DEFINE k == [r EXCEPT !.todo = @ \ {u}]
             n == [k EXCEPT !.pc = "put", !.target = u]
  <2>2. k \in Call /\ u \in Users
    BY <1>1 DEF Call
  <2>3. Continue(c, n) \/ Continue(c, Adding(k))
    BY <2>1
  <2> HIDE DEF k
  <2>4. Fine(n)
    BY <2>2 DEF Call, PCs, Fine, Creators
  <2> HIDE DEF n
  <2> QED
    BY <1>2, <1>3, <2>2, <2>3, <2>4
<1>10. CASE Put(c)
  <2>1. [r EXCEPT !.target = "nobody"] \in Call
    BY <1>1 DEF Call, Creators
  <2>2. Continue(c, Adding([r EXCEPT !.target = "nobody"])) \/ Continue(c, Thrown(r))
    BY <1>10 DEF Put, r
  <2> QED
    BY <1>1, <1>2, <1>3, <2>1, <2>2
<1>11. CASE Append(c)
  <2>1. Fine([r EXCEPT !.pc = "touch"])
    BY <1>1 DEF Call, PCs, Fine
  <2> QED
    BY <1>1, <1>2, <1>3, <1>11, <2>1 DEF Append, r
<1>12. CASE Touch(c) \/ List(c) \/ Remove(c) \/ Delete(c) \/ DeleteMessage(c)
  BY <1>1, <1>2, <1>3, <1>12 DEF Touch, List, Remove, Delete, DeleteMessage, r
<1> QED
  BY <1>5, <1>6, <1>7, <1>8, <1>9, <1>10, <1>11, <1>12 DEF Statement

\* What each statement may do to the tables.
LEMMA TablesTyped ==
    ASSUME Typed, NEW c \in Callers, Statement(c)
    PROVE  /\ conversation' \in [Contexts -> [id : 0..MaxId, creator : Creators]]
           /\ nextId' \in 1..(MaxId + 1)
           /\ nextMessage' \in 1..(MaxMessage + 1)
           /\ participants' \subseteq Ids \X Users
           /\ messages' \subseteq Message
           /\ member' \subseteq Ids \X Users
<1>0. TypeOK /\ call[c] \in Call
  BY DEF Typed, TypeOK
<1>1. CASE UNCHANGED tables
  BY <1>0, <1>1 DEF TypeOK, tables
<1>2. CASE Insert(c) /\ ~ UNCHANGED tables
  <2>1. FreshId \in Ids /\ FreshId = nextId /\ nextId <= MaxId
    BY <1>0, <1>2 DEF Insert, FreshId, TypeOK, Ids
  <2>2. PICK creator \in Creators :
          /\ conversation' = [conversation EXCEPT ![call[c].context] = [id |-> FreshId, creator |-> creator]]
          /\ member' = {p \in member : p[1] # FreshId} \cup ({FreshId} \X ({creator} \ {"nobody"}))
          /\ nextId' = nextId + 1
          /\ UNCHANGED <<nextMessage, participants, messages>>
    <3> DEFINE me == IF IsUser(call[c]) THEN {call[c].actor} ELSE {}
               k == [call[c] EXCEPT !.todo = @ \cup me, !.wanted = call[c].todo \cup me]
               S == IF IsUser(k) THEN me ELSE Creators
    <3>1. me \subseteq Users
      BY <1>0 DEF IsUser, Call
    <3>2. k.context = call[c].context
      BY <1>0 DEF Call
    <3>3. S \subseteq Creators
      BY <3>1 DEF Creators
    <3>4. \E creator \in S :
            /\ conversation' = [conversation EXCEPT ![k.context] = [id |-> FreshId, creator |-> creator]]
            /\ member' = {p \in member : p[1] # FreshId} \cup ({FreshId} \X ({creator} \ {"nobody"}))
            /\ nextId' = nextId + 1
            /\ UNCHANGED <<nextMessage, participants, messages>>
      BY <1>2 DEF Insert
    <3> HIDE DEF k, S
    <3> QED
      BY <3>2, <3>3, <3>4
  <2>3. {creator} \ {"nobody"} \subseteq Users
    BY DEF Creators
  <2>4. conversation' \in [Contexts -> [id : 0..MaxId, creator : Creators]]
    <3>1. [id |-> FreshId, creator |-> creator] \in [id : 0..MaxId, creator : Creators]
      BY <2>1 DEF Ids
    <3> QED
      BY <1>0, <2>2, <3>1 DEF TypeOK
  <2>5. member' \subseteq Ids \X Users
    BY <1>0, <2>1, <2>2, <2>3 DEF TypeOK
  <2> QED
    BY <1>0, <2>1, <2>2, <2>4, <2>5 DEF TypeOK
<1>3. CASE Put(c) /\ ~ UNCHANGED tables
  <2>1. call[c].id \in Ids
    BY <1>0, <1>3 DEF Put, Exists, TypeOK, Ids
  <2>2. call[c].target \in Users
    BY <1>3 DEF Put, Typed
  <2> QED
    BY <1>0, <1>3, <2>1, <2>2 DEF Put, TypeOK
<1>4. CASE Append(c) /\ ~ UNCHANGED tables
  <2>1. call[c].id \in Ids
    BY <1>0, <1>4 DEF Append, Exists, TypeOK, Ids
  <2>2. Appended(call[c]) \in Message
    BY <1>0, <1>4, <2>1 DEF Append, Appended, Message, Call, TypeOK
  <2> QED
    BY <1>0, <1>4, <2>2 DEF Append, TypeOK
<1>5. CASE (Remove(c) \/ DeleteMessage(c)) /\ ~ UNCHANGED tables
  BY <1>0, <1>5 DEF Remove, DeleteMessage, TypeOK
<1>6. CASE Delete(c) /\ ~ UNCHANGED tables
  BY <1>0, <1>6 DEF Delete, TypeOK, NoRow, Creators
<1> QED
  BY <1>1, <1>2, <1>3, <1>4, <1>5, <1>6 DEF Statement, Find, Load, Hydrate, Probe, Touch, List

LEMMA InitTyped == Init => Typed
  BY DEF Init, Typed, TypeOK, NoRow, Creators, Call, Blank, Stages, PCs, CallNames, At

LEMMA StepTyped == Typed /\ [Next]_vars => Typed'
<1> SUFFICES ASSUME Typed, [Next]_vars PROVE Typed'
  OBVIOUS
<1>0. TypeOK
  BY DEF Typed
<1>1. ASSUME NEW c \in Callers, NEW k \in Call, Continue(c, k), k.pc = "put" => k.target \in Users
      PROVE  /\ call' \in [Callers -> Call]
             /\ \A d \in Callers : call'[d].pc = "put" => call'[d].target \in Users
  BY <1>0, <1>1 DEF Continue, Typed, TypeOK, At
<1>2. ASSUME NEW c \in Callers, BeginCall(c) PROVE Typed'
  <2>1. PICK k \in Call : Continue(c, k) /\ k.pc \in {"insert", "find", "load"}
    BY <1>0, <1>2, BeginTyped DEF Begun
  <2> QED
    BY <1>0, <1>1, <1>2, <2>1, BeginTyped, QuietTyped DEF Typed, At
<1>3. ASSUME NEW c \in Callers, Statement(c) PROVE Typed'
  <2>1. PICK k \in Call : Continue(c, k) /\ (k.pc = "put" => k.target \in Users)
    BY <1>0, <1>3, StatementTyped
  <2> QED
    BY <1>1, <1>3, <2>1, TablesTyped DEF Typed, TypeOK, At
<1>4. ASSUME NEW c \in Callers, StoreFails(c) PROVE Typed'
  <2>1. call[c] \in Call
    BY <1>0 DEF TypeOK
  <2>2. Thrown(call[c]) \in Call /\ Thrown(call[c]).pc # "put"
    BY <2>1, HelpersTyped, HelpersLead
  <2> QED
    BY <1>0, <1>1, <1>4, <2>2, QuietTyped DEF StoreFails, Typed, At
<1>5. CASE UNCHANGED vars
  BY <1>5 DEF Typed, TypeOK, At, vars
<1> QED
  BY <1>2, <1>3, <1>4, <1>5 DEF Next

(* The tables and the activation records keep their shapes, whatever the   *)
(* bounds and however calls interleave and fail.                           *)
THEOREM MessagingTyped == Spec => []TypeOK
<1>1. Spec => []Typed
  BY InitTyped, StepTyped, PTL DEF Spec
<1> QED
  BY <1>1, PTL DEF Typed
-----------------------------------------------------------------------------
(* Foreign keys *)

\* An id that a statement names is handed out when the row is there.
LEMMA InitOrphans == Init => NoOrphans
  BY DEF Init, NoOrphans

LEMMA StepOrphans == Typed /\ NoOrphans /\ [Next]_vars => NoOrphans'
<1> SUFFICES ASSUME Typed, NoOrphans, [Next]_vars PROVE NoOrphans'
  OBVIOUS
<1>0. TypeOK
  BY DEF Typed
<1>1. CASE UNCHANGED tables
  BY <1>1 DEF NoOrphans, Exists, tables
<1>2. ASSUME NEW c \in Callers, Insert(c), ~ UNCHANGED tables PROVE NoOrphans'
  <2>1. \A x \in Contexts : conversation[x].id # 0 => conversation'[x] = conversation[x]
    <3> DEFINE k == [call[c] EXCEPT !.todo = @ \cup (IF IsUser(call[c]) THEN {call[c].actor} ELSE {}),
                                    !.wanted = call[c].todo \cup (IF IsUser(call[c]) THEN {call[c].actor} ELSE {})]
    <3>1. k.context = call[c].context
      BY <1>0 DEF TypeOK, Call
    <3>2. /\ conversation[k.context].id = 0
          /\ \E row : conversation' = [conversation EXCEPT ![k.context] = row]
      BY <1>2 DEF Insert
    <3> HIDE DEF k
    <3> QED
      BY <1>0, <3>2 DEF TypeOK
  <2>2. \A i : Exists(i) => Exists(i)'
    BY <2>1 DEF Exists
  <2>3. participants' = participants /\ messages' = messages
    BY <1>2 DEF Insert
  <2> QED
    BY <2>2, <2>3 DEF NoOrphans
<1>3. ASSUME NEW c \in Callers, Put(c) \/ Append(c), ~ UNCHANGED tables PROVE NoOrphans'
  BY <1>3 DEF Put, Append, Appended, NoOrphans, Exists
<1>4. ASSUME NEW c \in Callers, Remove(c) \/ DeleteMessage(c) PROVE NoOrphans'
  BY <1>4 DEF Remove, DeleteMessage, NoOrphans, Exists
<1>5. ASSUME NEW c \in Callers, Delete(c) PROVE NoOrphans'
  <2>1. ASSUME NEW i, Exists(i), i # call[c].id PROVE Exists(i)'
    BY <1>0, <1>5, <2>1 DEF Delete, Exists, TypeOK
  <2> QED
    BY <1>5, <2>1 DEF Delete, NoOrphans
<1>6. ASSUME NEW c \in Callers, Statement(c), ~ UNCHANGED tables PROVE NoOrphans'
  BY <1>2, <1>3, <1>4, <1>5, <1>6 DEF Statement, Find, Load, Hydrate, Probe, Touch, List
<1>7. ASSUME NEW c \in Callers, BeginCall(c) \/ StoreFails(c) PROVE UNCHANGED tables
  BY <1>0, <1>7, BeginTyped DEF StoreFails
<1>8. UNCHANGED vars => UNCHANGED tables
  BY DEF vars, tables
<1> QED
  BY <1>1, <1>6, <1>7, <1>8 DEF Next

(* No interleaving of deletions with the calls they overtake leaves a      *)
(* participant or message without its conversation.                        *)
THEOREM RowsHaveConversations == Spec => []NoOrphans
<1>1. Spec => [](Typed /\ NoOrphans)
  BY InitTyped, StepTyped, InitOrphans, StepOrphans, PTL DEF Spec
<1> QED
  BY <1>1, PTL
-----------------------------------------------------------------------------
(* Members *)

\* The ids in use were handed out, and creators and participants are members.
RowsOwned ==
    \A x \in Contexts :
        /\ conversation[x].id < nextId
        /\ conversation[x].id # 0 /\ conversation[x].creator \in Users
           => <<conversation[x].id, conversation[x].creator>> \in member
Members ==
    /\ participants \subseteq member
    /\ \A p \in member : p[1] < nextId

\* The creator a call holds is a member of the conversation it names; so is a user who
\* is about to append.  A call that inserts a conversation holds no creator.
Speaks(k, m) ==
    /\ k.creator \in Users => <<k.id, k.creator>> \in m
    /\ k.pc = "append" /\ k.actor # "system" => <<k.id, k.actor>> \in m
    /\ k.pc = "insert" \/ (k.pc = "find" /\ k.stage = "look") => k.creator = "nobody"

\* The inductive invariant behind OnlyMembersSpeak.
Spoken ==
    /\ Typed /\ RowsOwned /\ Members /\ OnlyMembersSpeak
    /\ \A c \in Callers : Speaks(call[c], member)

LEMMA HelpersSpeak ==
    ASSUME NEW k \in Call, NEW m, Speaks(k, m)
    PROVE  /\ Speaks(End(k), m) /\ Speaks(Answered(k), m) /\ Speaks(Thrown(k), m)
           /\ Speaks(Adding(k), m) /\ Speaks(WithoutRow(k), m)
<1>0. "nobody" \notin Users
  OBVIOUS
<1>1. Speaks(End(k), m)
  BY <1>0 DEF End, Blank, Speaks
<1>2. Speaks(Answered(k), m)
  <2> DEFINE n == [End(k) EXCEPT !.pc = "resolved", !.op = k.op, !.id = k.id, !.wanted = k.wanted]
  <2>1. n.creator = "nobody" /\ n.pc = "resolved"
    BY HelpersTyped DEF End, Blank
  <2>2. Speaks(n, m)
    BY <1>0, <2>1 DEF Speaks
  <2> QED
    BY <1>1, <2>2 DEF Answered
<1>3. Speaks(Thrown(k), m)
  <2>1. Speaks([k EXCEPT !.pc = "find", !.stage = "raced", !.creating = FALSE, !.todo = {}], m)
    BY DEF Speaks, Call
  <2> QED
    BY <1>1, <2>1 DEF Thrown
<1>4. Speaks(Adding(k), m)
  <2>1. /\ Speaks([k EXCEPT !.pc = "probe"], m)
        /\ Speaks([k EXCEPT !.pc = "hydrate", !.stage = "answer"], m)
        /\ Speaks([k EXCEPT !.pc = "load", !.stage = "answer"], m)
    BY DEF Speaks, Call
  <2> QED
    BY <1>2, <2>1 DEF Adding
<1>5. Speaks(WithoutRow(k), m)
  <2>1. Speaks([k EXCEPT !.pc = "list"], m)
    BY DEF Speaks, Call
  <2> QED
    BY <1>1, <1>2, <1>4, <2>1 DEF WithoutRow
<1> QED
  BY <1>1, <1>2, <1>3, <1>4, <1>5

\* A call whose check was passed.
LEMMA GrantedSpeaks ==
    ASSUME NEW k \in Call, NEW m, Speaks(k, m),
           k.actor \in Users => <<k.id, k.actor>> \in m
    PROVE  Speaks(Forgotten(Granted(k)), m)
<1>1. Speaks(Granted(k), m)
  <2>1. /\ Speaks([k EXCEPT !.pc = "load", !.stage = "manage"], m)
        /\ Speaks([k EXCEPT !.pc = "list"], m)
    BY DEF Speaks, Call
  <2>2. k.op \in CallNames => Speaks([k EXCEPT !.pc = k.op], m)
    BY DEF Speaks, Call, CallNames
  <2>3. k.op \in CallNames
    BY DEF Call
  <2> QED
    BY <2>1, <2>2, <2>3, HelpersSpeak DEF Granted
<1>2. Speaks([Granted(k) EXCEPT !.creator = "nobody"], m)
  BY <1>1, HelpersTyped DEF Speaks, Call
<1> QED
  BY <1>1, <1>2 DEF Forgotten

\* A step of c keeps the records of the others, and of c if its new one is fine.
LEMMA RecordsSpeak ==
    ASSUME Spoken, NEW c \in Callers, NEW k, Continue(c, k), Speaks(k, member'),
           member \subseteq member'
    PROVE  \A d \in Callers : Speaks(call'[d], member')
  BY DEF Spoken, Typed, TypeOK, Continue, Speaks

LEMMA QuietSpoken ==
    ASSUME Spoken, Typed', NEW c \in Callers, NEW k, Continue(c, k), Speaks(k, member),
           UNCHANGED tables
    PROVE  Spoken'
<1>1. \A d \in Callers : Speaks(call'[d], member')
  BY RecordsSpeak DEF tables
<1> QED
  BY <1>1 DEF Spoken, RowsOwned, Members, OnlyMembersSpeak, tables

LEMMA InitSpoken == Init => Spoken
<1> SUFFICES ASSUME Init PROVE Spoken
  OBVIOUS
<1>1. RowsOwned /\ Members /\ OnlyMembersSpeak
  BY DEF Init, RowsOwned, Members, OnlyMembersSpeak, NoRow
<1>2. \A c \in Callers : Speaks(call[c], member)
  BY DEF Init, Blank, Speaks
<1> QED
  BY <1>1, <1>2, InitTyped DEF Spoken

LEMMA StepSpoken == Spoken /\ [Next]_vars => Spoken'
<1> SUFFICES ASSUME Spoken, [Next]_vars PROVE Spoken'
  OBVIOUS
<1>0. Typed /\ TypeOK /\ Typed'
  BY StepTyped DEF Spoken, Typed
<1>a. ASSUME NEW c \in Callers PROVE call[c] \in Call /\ Speaks(call[c], member)
  BY <1>0 DEF Spoken, TypeOK
<1>1. ASSUME NEW c \in Callers, BeginCall(c) PROVE Spoken'
  <2>1. PICK k : Continue(c, k) /\ k.creator = "nobody" /\ k.pc \in {"insert", "find", "load"}
                /\ (k.pc = "find" => k.stage = "look")
    BY <1>0, <1>1, BeginTyped DEF Begun
  <2>2. Speaks(k, member)
    BY <2>1 DEF Speaks
  <2>3. UNCHANGED tables
    BY <1>0, <1>1, BeginTyped
  <2> QED
    BY <1>0, <2>1, <2>2, <2>3, QuietSpoken
<1>2. ASSUME NEW c \in Callers, StoreFails(c) PROVE Spoken'
  BY <1>0, <1>2, <1>a, HelpersSpeak, QuietSpoken DEF StoreFails
<1>3. ASSUME NEW c \in Callers, Find(c) PROVE Spoken'
  <2> DEFINE r == call[c]
             found == [r EXCEPT !.id = conversation[r.context].id,
                                !.creator = conversation[r.context].creator, !.pc = "hydrate"]
             fresh == [r EXCEPT !.pc = "insert", !.creating = TRUE]
  <2>1. \/ conversation[r.context].id # 0 /\ Continue(c, found)
        \/ r.stage = "look" /\ Continue(c, fresh)
        \/ Continue(c, End(r))
    BY <1>3 DEF Find
  <2>2. conversation[r.context].id # 0 => Speaks(found, member)
    <3>1. /\ found.id = conversation[r.context].id /\ found.creator = conversation[r.context].creator
          /\ found.pc = "hydrate" /\ r.context \in Contexts
      BY <1>a DEF Call
    <3> HIDE DEF found
    <3> QED
      BY <3>1 DEF Speaks, Spoken, RowsOwned
  <2>3. r.stage = "look" => Speaks(fresh, member)
    <3>1. fresh.creator = r.creator /\ fresh.pc = "insert" /\ fresh.id = r.id
      BY <1>a DEF Call
    <3>2. r.pc = "find"
      BY <1>3 DEF Find, At
    <3> HIDE DEF fresh
    <3> QED
      BY <1>a, <3>1, <3>2 DEF Speaks
  <2>4. UNCHANGED tables
    BY <1>3 DEF Find
  <2> HIDE DEF found, fresh
  <2> QED
    BY <1>0, <1>a, <2>1, <2>2, <2>3, <2>4, HelpersSpeak, QuietSpoken
<1>4. ASSUME NEW c \in Callers, Load(c) PROVE Spoken'
  <2> DEFINE r == call[c]
             found == [r EXCEPT !.creator = conversation[RowOf(r.id)].creator, !.pc = "hydrate"]
  <2>1. (Exists(r.id) /\ Continue(c, found)) \/ Continue(c, WithoutRow(r))
    BY <1>4 DEF Load
  <2>2. Exists(r.id) => RowOf(r.id) \in Contexts /\ conversation[RowOf(r.id)].id = r.id /\ r.id # 0
    BY DEF Exists, RowOf
  <2>3. Exists(r.id) => Speaks(found, member)
    BY <1>a, <2>2 DEF Speaks, Call, Spoken, RowsOwned
  <2>4. UNCHANGED tables
    BY <1>4 DEF Load
  <2> HIDE DEF found
  <2> QED
    BY <1>0, <1>a, <2>1, <2>3, <2>4, HelpersSpeak, QuietSpoken
<1>5. ASSUME NEW c \in Callers, Hydrate(c) PROVE Spoken'
  <2>1. Permitted(call[c]) /\ call[c].actor \in Users => <<call[c].id, call[c].actor>> \in member
    BY <1>a DEF Permitted, CanAccess, CanManage, IsUser, Spoken, Members, Speaks
  <2>2. Permitted(call[c]) => Speaks(Forgotten(Granted(call[c])), member)
    BY <1>a, <2>1, GrantedSpeaks
  <2> QED
    BY <1>0, <1>5, <1>a, <2>2, HelpersSpeak, QuietSpoken DEF Hydrate
<1>6. ASSUME NEW c \in Callers, Insert(c) PROVE Spoken'
  <2> DEFINE me == IF IsUser(call[c]) THEN {call[c].actor} ELSE {}
             k == [call[c] EXCEPT !.todo = @ \cup me, !.wanted = call[c].todo \cup me]
             n == [k EXCEPT !.id = FreshId, !.pc = "load", !.stage = "manage"]
  <2>1. me \subseteq Users
    BY <1>a DEF IsUser, Call
  <2>2. /\ k \in Call /\ Speaks(k, member) /\ k.creator = "nobody" /\ k.context = call[c].context
        /\ k.context \in Contexts
    <3> HIDE DEF me
    <3>1. /\ k \in Call /\ k.creator = call[c].creator /\ k.context = call[c].context
          /\ k.context \in Contexts /\ k.id = call[c].id /\ k.actor = call[c].actor
          /\ k.pc = call[c].pc /\ k.stage = call[c].stage
      BY <1>a, <2>1 DEF Call
    <3>2. call[c].pc = "insert"
      BY <1>6 DEF Insert, At
    <3> HIDE DEF k
    <3> QED
      BY <1>a, <3>1, <3>2 DEF Speaks
  <2>3. CASE UNCHANGED tables /\ Continue(c, Thrown(k))
    BY <1>0, <2>2, <2>3, HelpersSpeak, QuietSpoken
  <2>4. CASE ~ (UNCHANGED tables /\ Continue(c, Thrown(k)))
    <3>1. PICK u \in (IF IsUser(k) THEN me ELSE Creators) :
            /\ conversation' = [conversation EXCEPT ![k.context] = [id |-> FreshId, creator |-> u]]
            /\ member' = {p \in member : p[1] # FreshId} \cup ({FreshId} \X ({u} \ {"nobody"}))
      BY <1>6, <2>4 DEF Insert
    <3>2. /\ nextId' = nextId + 1 /\ Continue(c, n)
          /\ UNCHANGED <<nextMessage, participants, messages>>
      BY <1>6, <2>4 DEF Insert
    <3>3. FreshId = nextId /\ nextId \in Nat
      BY <1>0 DEF FreshId, TypeOK
    <3>4. \A p \in member : p[1] # FreshId
      <4>1. \A p \in member : p[1] < nextId /\ p[1] \in Nat
        BY <1>0 DEF Spoken, Members, TypeOK, Ids
      <4> QED
        BY <3>3, <4>1
    <3>5. member' = member \cup ({FreshId} \X ({u} \ {"nobody"}))
      BY <3>1, <3>4
    <3> HIDE DEF k
    <3>6. n.creator = "nobody" /\ n.pc = "load"
      BY <2>2 DEF Call
    <3>7. Speaks(n, member')
      BY <3>6 DEF Speaks
    <3> HIDE DEF n
    <3>8. \A d \in Callers : Speaks(call'[d], member')
      BY <3>2, <3>5, <3>7, RecordsSpeak
    <3>9. RowsOwned'
      <4>1. \A x \in Contexts : conversation[x].id \in Nat
        BY <1>0 DEF TypeOK
      <4>2. ASSUME NEW x \in Contexts, x # k.context
            PROVE  /\ conversation'[x].id < nextId'
                   /\ conversation'[x].id # 0 /\ conversation'[x].creator \in Users
                      => <<conversation'[x].id, conversation'[x].creator>> \in member'
        <5>1. conversation'[x] = conversation[x]
          BY <1>0, <3>1, <4>2 DEF TypeOK
        <5> QED
          BY <3>2, <3>3, <3>5, <4>1, <5>1 DEF Spoken, RowsOwned
      <4>3. conversation'[k.context] = [id |-> FreshId, creator |-> u]
        BY <1>0, <2>2, <3>1 DEF TypeOK
      <4>4. /\ conversation'[k.context].id < nextId'
            /\ conversation'[k.context].creator \in Users
               => <<conversation'[k.context].id, conversation'[k.context].creator>> \in member'
        BY <3>2, <3>3, <3>5, <4>3
      <4> QED
        BY <4>2, <4>4 DEF RowsOwned
    <3>10. Members'
      BY <3>2, <3>3, <3>5, <1>0 DEF Spoken, Members, TypeOK, Ids
    <3>11. OnlyMembersSpeak'
      BY <3>2, <3>5 DEF Spoken, OnlyMembersSpeak
    <3> QED
      BY <1>0, <3>8, <3>9, <3>10, <3>11 DEF Spoken
  <2> QED
    BY <2>3, <2>4
<1>7. ASSUME NEW c \in Callers, Probe(c) PROVE Spoken'
  <2>1. PICK u \in call[c].todo :
          LET k == [call[c] EXCEPT !.todo = @ \ {u}]
          IN  Continue(c, IF <<k.id, u>> \in participants THEN Adding(k)
                          ELSE [k EXCEPT !.pc = "put", !.target = u])
    BY <1>7 DEF Probe
  <2> DEFINE k == [call[c] EXCEPT !.todo = @ \ {u}]
             n == [k EXCEPT !.pc = "put", !.target = u]
  <2>2. k \in Call /\ Speaks(k, member)
    BY <1>a DEF Call, Speaks
  <2>3. Continue(c, n) \/ Continue(c, Adding(k))
    BY <2>1
  <2> HIDE DEF k
  <2>4. Speaks(n, member)
    BY <2>2 DEF Call, Speaks
  <2> HIDE DEF n
  <2> QED
    BY <1>0, <1>7, <2>2, <2>3, <2>4, HelpersSpeak, QuietSpoken DEF Probe
<1>8. ASSUME NEW c \in Callers, Put(c) PROVE Spoken'
  <2> DEFINE n == [call[c] EXCEPT !.target = "nobody"]
  <2>1. n \in Call /\ Speaks(n, member)
    BY <1>a DEF Call, Speaks, Creators
  <2> HIDE DEF n
  <2>2. CASE UNCHANGED tables /\ Continue(c, Thrown(call[c]))
    BY <1>0, <1>a, <2>2, HelpersSpeak, QuietSpoken
  <2>3. CASE ~ (UNCHANGED tables /\ Continue(c, Thrown(call[c])))
    <3> DEFINE pair == <<call[c].id, call[c].target>>
    <3>1. /\ Exists(call[c].id) /\ participants' = participants \cup {pair}
          /\ member' = member \cup {pair} /\ Continue(c, Adding(n))
          /\ UNCHANGED <<conversation, nextId, nextMessage, messages>>
      BY <1>8, <2>3 DEF Put, n
    <3>2. Speaks(n, member')
      BY <2>1, <3>1 DEF Speaks
    <3>3. Speaks(Adding(n), member')
      BY <2>1, <3>2, HelpersSpeak
    <3>4. \A d \in Callers : Speaks(call'[d], member')
      BY <3>1, <3>3, RecordsSpeak
    <3>5. call[c].id < nextId
      BY <3>1 DEF Exists, Spoken, RowsOwned
    <3>6. RowsOwned' /\ OnlyMembersSpeak'
      BY <3>1 DEF Spoken, RowsOwned, OnlyMembersSpeak
    <3> HIDE DEF pair
    <3>7. pair[1] < nextId
      BY <3>5 DEF pair
    <3>8. Members'
      BY <3>1, <3>7 DEF Spoken, Members
    <3> QED
      BY <1>0, <3>4, <3>6, <3>8 DEF Spoken
  <2> QED
    BY <2>2, <2>3
<1>9. ASSUME NEW c \in Callers, Append(c) PROVE Spoken'
  <2> DEFINE n == [call[c] EXCEPT !.pc = "touch"]
  <2>1. Speaks(n, member)
    BY <1>a DEF Call, Speaks
  <2> HIDE DEF n
  <2>2. CASE UNCHANGED tables /\ Continue(c, Thrown(call[c]))
    BY <1>0, <1>a, <2>2, HelpersSpeak, QuietSpoken
  <2>3. CASE ~ (UNCHANGED tables /\ Continue(c, Thrown(call[c])))
    <3>1. /\ messages' = messages \cup {Appended(call[c])} /\ Continue(c, n)
          /\ UNCHANGED <<conversation, nextId, participants, member>>
      BY <1>9, <2>3 DEF Append, n
    <3>2. \A d \in Callers : Speaks(call'[d], member')
      BY <2>1, <3>1, RecordsSpeak
    <3>3. Appended(call[c]).sender \in Users
          => <<Appended(call[c]).conversation, Appended(call[c]).sender>> \in member
      BY <1>9, <1>a DEF Append, At, Appended, Speaks
    <3>4. OnlyMembersSpeak'
      BY <3>1, <3>3 DEF Spoken, OnlyMembersSpeak
    <3> QED
      BY <1>0, <3>1, <3>2, <3>4 DEF Spoken, RowsOwned, Members
  <2> QED
    BY <2>2, <2>3
<1>10. ASSUME NEW c \in Callers, Touch(c) \/ List(c) PROVE Spoken'
  BY <1>0, <1>10, <1>a, HelpersSpeak, QuietSpoken DEF Touch, List
<1>11. ASSUME NEW c \in Callers, Remove(c) \/ Delete(c) \/ DeleteMessage(c) PROVE Spoken'
  <2>1. /\ Continue(c, End(call[c])) /\ member' = member /\ nextId' = nextId
        /\ participants' \subseteq participants /\ messages' \subseteq messages
    BY <1>11 DEF Remove, Delete, DeleteMessage
  <2>2. \A x \in Contexts : conversation'[x] \in {conversation[x], NoRow}
    BY <1>0, <1>11 DEF Remove, Delete, DeleteMessage, TypeOK
  <2>3. \A d \in Callers : Speaks(call'[d], member')
    BY <1>a, <2>1, HelpersSpeak, RecordsSpeak
  <2>4. RowsOwned'
    <3>1. 0 < nextId
      BY <1>0 DEF TypeOK
    <3> QED
      BY <2>1, <2>2, <3>1 DEF Spoken, RowsOwned, NoRow
  <2> QED
    BY <1>0, <2>1, <2>3, <2>4 DEF Spoken, Members, OnlyMembersSpeak
<1>12. CASE UNCHANGED vars
  BY <1>0, <1>12 DEF vars, Spoken, RowsOwned, Members, OnlyMembersSpeak
<1> QED
  BY <1>1, <1>2, <1>3, <1>4, <1>5, <1>6, <1>7, <1>8, <1>9, <1>10, <1>11, <1>12 DEF Next, Statement

(* Whoever is removed, and whatever is deleted and created again between   *)
(* appendMessage's check and its INSERT, a user's message is in a          *)
(* conversation that user created or took part in.                         *)
THEOREM MembersSpeak == Spec => []OnlyMembersSpeak
<1>1. Spec => []Spoken
  BY InitSpoken, StepSpoken, PTL DEF Spec
<1> QED
  BY <1>1, PTL DEF Spoken
-----------------------------------------------------------------------------
(* Management, where calls name only ids that were handed out *)

Owns(i, u) == \A x \in Contexts : i # 0 /\ conversation[x].id = i => conversation[x].creator = u

\* What a call that was granted management, or is about to be, knows of its conversation.
Manages(k) ==
    /\ k.id < nextId
    /\ k.pc = "hydrate" /\ k.stage = "manage" => Owns(k.id, k.creator)
    /\ k.actor # "system" /\ k.pc \in {"probe", "put", "remove", "delete", "deleteMessage"}
       => Owns(k.id, k.actor)
    /\ k.actor # "system" /\ k.pc = "list" => <<k.id, k.actor>> \in member \/ ~ Exists(k.id)
    /\ k.pc = "find" => k.stage \in {"look", "raced"}
    /\ k.stage = "access" => k.op \in {"append", "read"}

Distinct ==
    \A x, y \in Contexts :
        conversation[x].id = conversation[y].id /\ conversation[x].id # 0 => x = y

\* The inductive invariant behind OnlyMembersRead and OnlyCreatorManages.
Managed ==
    /\ Spoken /\ NoOrphans /\ Distinct
    /\ \A c \in Callers : Manages(call[c])

LEMMA HelpersManage ==
    ASSUME TypeOK, NEW k \in Call, Manages(k)
    PROVE  /\ Manages(End(k)) /\ Manages(Answered(k)) /\ Manages(Thrown(k))
           /\ (k.actor # "system" => Owns(k.id, k.actor)) => Manages(Adding(k))
           /\ ~ Exists(k.id) => Manages(WithoutRow(k))
<1>0. nextId > 0 /\ k.id \in Nat
  BY DEF TypeOK, Call
<1>1. Manages(End(k))
  BY <1>0 DEF End, Blank, Manages
<1>2. Manages(Answered(k))
  <2> DEFINE n == [End(k) EXCEPT !.pc = "resolved", !.op = k.op, !.id = k.id, !.wanted = k.wanted]
  <2>1. n.id = k.id /\ n.pc = "resolved" /\ n.stage = "look"
    BY HelpersTyped DEF End, Blank
  <2> HIDE DEF n
  <2>2. Manages(n)
    BY <2>1 DEF Manages
  <2> QED
    BY <1>1, <2>2 DEF Answered, n
<1>3. Manages(Thrown(k))
  <2>1. Manages([k EXCEPT !.pc = "find", !.stage = "raced", !.creating = FALSE, !.todo = {}])
    BY DEF Manages, Call
  <2> QED
    BY <1>1, <2>1 DEF Thrown
<1>4. ASSUME k.actor # "system" => Owns(k.id, k.actor) PROVE Manages(Adding(k))
  <2>1. /\ Manages([k EXCEPT !.pc = "probe"])
        /\ Manages([k EXCEPT !.pc = "hydrate", !.stage = "answer"])
        /\ Manages([k EXCEPT !.pc = "load", !.stage = "answer"])
    BY <1>4 DEF Manages, Call
  <2> QED
    BY <1>2, <2>1 DEF Adding
<1>5. ASSUME ~ Exists(k.id) PROVE Manages(WithoutRow(k))
  <2>1. Manages([k EXCEPT !.pc = "list"])
    BY <1>5 DEF Manages, Call
  <2>2. Owns(k.id, k.actor)
    BY <1>5 DEF Owns, Exists
  <2> QED
    BY <1>1, <1>2, <1>4, <2>1, <2>2 DEF WithoutRow
<1> QED
  BY <1>1, <1>2, <1>3, <1>4, <1>5

LEMMA GrantedManages ==
    ASSUME TypeOK, NEW k \in Call, Manages(k), k.pc = "hydrate", Permitted(k),
           k.actor # "system" => k.creator = k.actor \/ <<k.id, k.actor>> \in participants,
           k.actor # "system" => <<k.id, k.actor>> \in member
    PROVE  Manages(Forgotten(Granted(k)))
<1>1. k.stage = "manage" /\ k.actor # "system" => Owns(k.id, k.actor)
  BY DEF Permitted, CanManage, IsUser, Manages
<1>2. k.stage \in Stages /\ k.op \in CallNames
  BY DEF Call
<1>3. Manages(Granted(k))
  <2>1. CASE k.stage \in {"answer", "raced"}
    <3>1. Granted(k) = Answered(k)
      BY <2>1 DEF Granted
    <3> QED
      BY <3>1, HelpersManage
  <2>2. CASE k.stage = "look"
    <3>1. Manages([k EXCEPT !.pc = "load", !.stage = "manage"])
      BY DEF Manages, Call
    <3>2. Granted(k) = [k EXCEPT !.pc = "load", !.stage = "manage"]
      BY <2>2 DEF Granted
    <3> QED
      BY <3>1, <3>2
  <2>3. CASE k.stage \in {"access", "manage"} /\ k.op \in {"getOrCreate", "create", "add"}
    <3>1. k.stage = "manage"
      BY <2>3 DEF Manages
    <3>2. Granted(k) = Adding(k)
      BY <2>3, <3>1 DEF Granted
    <3> QED
      BY <1>1, <3>1, <3>2, HelpersManage
  <2>4. CASE k.stage \in {"access", "manage"} /\ k.op = "read"
    <3>1. Manages([k EXCEPT !.pc = "list"])
      BY DEF Manages, Call
    <3> QED
      BY <2>4, <3>1 DEF Granted
  <2>5. CASE k.stage \in {"access", "manage"} /\ k.op \in {"append", "remove", "delete", "deleteMessage"}
    <3>1. k.op # "append" => k.stage = "manage"
      BY <2>5 DEF Manages
    <3>2. Manages([k EXCEPT !.pc = k.op])
      BY <1>1, <2>5, <3>1 DEF Manages, Call
    <3> QED
      BY <2>5, <3>2 DEF Granted
  <2> QED
    BY <1>2, <2>1, <2>2, <2>3, <2>4, <2>5 DEF Stages, CallNames
<1>4. Granted(k).pc # "hydrate" \/ Granted(k).stage # "manage"
  <2>1. CASE k.stage \in {"answer", "raced"}
    <3>1. Granted(k) = Answered(k)
      BY <2>1 DEF Granted
    <3> QED
      BY <3>1, HelpersLead
  <2>2. CASE k.stage \notin {"answer", "raced"}
    <3>1. Adding(k).pc = "hydrate" => Adding(k).stage = "answer"
      <4>1. Answered(k).pc # "hydrate"
        BY HelpersLead
      <4> QED
        BY <4>1 DEF Adding, Call
    <3>2. /\ [k EXCEPT !.pc = "load", !.stage = "manage"].pc = "load"
          /\ [k EXCEPT !.pc = "list"].pc = "list"
          /\ [k EXCEPT !.pc = k.op].pc = k.op /\ k.op # "hydrate"
      BY <1>2 DEF Call, CallNames
    <3> QED
      BY <2>2, <3>1, <3>2 DEF Granted
  <2> QED
    BY <2>1, <2>2
<1>5. Manages([Granted(k) EXCEPT !.creator = "nobody"])
  BY <1>3, <1>4, HelpersTyped DEF Manages, Call
<1> QED
  BY <1>3, <1>5 DEF Forgotten

\* A step of c on its own record that leaves the tables alone.
LEMMA QuietManaged ==
    ASSUME Managed, Spoken', NoOrphans', NEW c \in Callers, NEW k, Continue(c, k), Manages(k),
           UNCHANGED tables
    PROVE  Managed'
<1>1. \A d \in Callers : call'[d] = k \/ call'[d] = call[d]
  BY DEF Managed, Spoken, Typed, TypeOK, Continue
<1>2. \A d \in Callers : Manages(call[d])
  BY DEF Managed
<1>3. \A n : Manages(n) => Manages(n)'
  BY DEF Manages, Owns, Exists, tables
<1>4. \A d \in Callers : Manages(call[d])'
  <2>1. ASSUME NEW d \in Callers PROVE Manages(call[d])'
    <3>1. PICK n : n = call'[d] /\ Manages(n)
      BY <1>1, <1>2
    <3> QED
      BY <1>3, <3>1 DEF Manages, Owns, Exists
  <2> QED
    BY <2>1
<1> QED
  BY <1>4 DEF Managed, Distinct, tables

\* A statement that changes tables keeps what the other calls know.
LEMMA OthersManage ==
    ASSUME Managed, Spoken', NoOrphans', NEW c \in Callers, NEW k, Continue(c, k), Manages(k)', Distinct',
           nextId \leq nextId', nextId' \in Nat, member \subseteq member',
           \A x \in Contexts : \/ conversation'[x] = conversation[x]
                               \/ conversation'[x] = NoRow
                               \/ conversation'[x].id = nextId
    PROVE  Managed'
<1>0. TypeOK /\ TypeOK'
  BY DEF Managed, Spoken, Typed
<1>1. ASSUME NEW d \in Callers, d # c PROVE Manages(call[d])'
  <2>1. call'[d] = call[d] /\ Manages(call[d]) /\ call[d] \in Call
    BY <1>0, <1>1 DEF Managed, TypeOK, Continue
  <2> DEFINE n == call[d]
  <2>2. n.id < nextId /\ n.id < nextId' /\ n.id \in Nat /\ n.id # nextId /\ nextId \in Nat
    BY <1>0, <2>1 DEF Manages, Call, TypeOK
  <2>3. ASSUME NEW x \in Contexts, conversation'[x].id = n.id, n.id # 0
        PROVE  conversation'[x] = conversation[x]
    BY <2>2, <2>3 DEF NoRow
  <2>4. ASSUME NEW u, Owns(n.id, u) PROVE Owns(n.id, u)'
    <3>1. ASSUME NEW x \in Contexts, call'[d].id # 0, conversation'[x].id = call'[d].id
          PROVE  conversation'[x].creator = u
      BY <2>1, <2>3, <2>4, <3>1 DEF Owns
    <3> QED
      BY <3>1 DEF Owns
  <2>5. ~ Exists(n.id) => ~ Exists(n.id)'
    <3>1. ASSUME NEW x \in Contexts, conversation'[x].id = call'[d].id, call'[d].id # 0
          PROVE  Exists(n.id)
      BY <2>1, <2>3, <3>1 DEF Exists
    <3> QED
      BY <3>1 DEF Exists
  <2> QED
    <3> HIDE DEF n
    <3>1. call'[d] = n /\ n' = n
      BY <2>1 DEF n
    <3>2. Owns(n.id, n.creator) => Owns(n.id, n.creator)'
      BY <2>4, <3>1 DEF Owns
    <3>3. Owns(n.id, n.actor) => Owns(n.id, n.actor)'
      BY <2>4, <3>1 DEF Owns
    <3>4. Manages(n)
      BY <2>1 DEF n
    <3>5. Manages(n)'
      BY <2>2, <2>5, <3>1, <3>2, <3>3, <3>4 DEF Manages
    <3> QED
      BY <3>5 DEF n
<1>2. call'[c] = k
  BY <1>0 DEF TypeOK, Continue
<1>3. Manages(call[c])'
  BY <1>2 DEF Manages, Owns, Exists
<1> QED
  BY <1>1, <1>3 DEF Managed

LEMMA InitManaged == Init => Managed
<1> SUFFICES ASSUME Init PROVE Managed
  OBVIOUS
<1>1. Distinct
  BY DEF Init, Distinct, NoRow
<1>2. \A c \in Callers : Manages(call[c])
  BY DEF Init, Blank, Manages
<1> QED
  BY <1>1, <1>2, InitSpoken, InitOrphans DEF Managed

\* Where the statements of c lead, with the tables they leave alone.
LEMMA ReadsManaged ==
    ASSUME Managed, Spoken', NoOrphans', NEW c \in Callers, EarlyIds = FALSE,
           BeginCall(c) \/ StoreFails(c) \/ Find(c) \/ Load(c) \/ Hydrate(c) \/ Probe(c)
           \/ Touch(c) \/ List(c)
    PROVE  Managed' /\ UNCHANGED tables
<1>0. TypeOK /\ call[c] \in Call /\ Manages(call[c]) /\ Speaks(call[c], member)
  BY DEF Managed, Spoken, Typed, TypeOK
<1>1. ASSUME BeginCall(c) PROVE Managed' /\ UNCHANGED tables
  <2>1. PICK k : Begun(k) /\ Continue(c, k)
    BY <1>0, <1>1, BeginTyped
  <2>2. k.id < nextId
    BY <1>0, <2>1 DEF Begun, Nameable, TypeOK, Call
  <2>3. Manages(k)
    BY <2>1, <2>2 DEF Begun, Manages
  <2> QED
    BY <1>0, <1>1, <2>1, <2>3, BeginTyped, QuietManaged
<1>2. ASSUME StoreFails(c) \/ Touch(c) \/ List(c) PROVE Managed' /\ UNCHANGED tables
  BY <1>0, <1>2, HelpersManage, QuietManaged DEF StoreFails, Touch, List
<1>3. ASSUME Find(c) PROVE Managed' /\ UNCHANGED tables
  <2> DEFINE r == call[c]
             found == [r EXCEPT !.id = conversation[r.context].id,
                                !.creator = conversation[r.context].creator, !.pc = "hydrate"]
             fresh == [r EXCEPT !.pc = "insert", !.creating = TRUE]
  <2>1. Continue(c, found) \/ Continue(c, fresh) \/ Continue(c, End(r))
    BY <1>3 DEF Find
  <2>2. r.stage \in {"look", "raced"} /\ r.context \in Contexts
    BY <1>0, <1>3 DEF Find, At, Manages, Call
  <2>3. Manages(found)
    <3>1. /\ found.id = conversation[r.context].id /\ found.pc = "hydrate"
          /\ found.stage = r.stage
      BY <1>0 DEF Call
    <3>2. conversation[r.context].id < nextId
      BY <2>2 DEF Managed, Spoken, RowsOwned
    <3> HIDE DEF found
    <3> QED
      BY <2>2, <3>1, <3>2 DEF Manages
  <2>4. Manages(fresh)
    <3>1. fresh.id = r.id /\ fresh.pc = "insert" /\ fresh.stage = r.stage
      BY <1>0 DEF Call
    <3> HIDE DEF fresh
    <3> QED
      BY <1>0, <2>2, <3>1 DEF Manages
  <2>5. UNCHANGED tables
    BY <1>3 DEF Find
  <2> HIDE DEF found, fresh
  <2> QED
    BY <1>0, <2>1, <2>3, <2>4, <2>5, HelpersManage, QuietManaged
<1>4. ASSUME Load(c) PROVE Managed' /\ UNCHANGED tables
  <2> DEFINE r == call[c]
             found == [r EXCEPT !.creator = conversation[RowOf(r.id)].creator, !.pc = "hydrate"]
  <2>1. \/ Exists(r.id) /\ Continue(c, found)
        \/ ~ Exists(r.id) /\ Continue(c, WithoutRow(r))
    BY <1>4 DEF Load
  <2>2. ASSUME Exists(r.id) PROVE Manages(found)
    <3>1. /\ found.id = r.id /\ found.pc = "hydrate" /\ found.stage = r.stage /\ found.op = r.op
          /\ found.creator = conversation[RowOf(r.id)].creator
      BY <1>0 DEF Call
    <3>2. RowOf(r.id) \in Contexts /\ conversation[RowOf(r.id)].id = r.id /\ r.id # 0
      BY <2>2 DEF Exists, RowOf
    <3>3. Owns(r.id, conversation[RowOf(r.id)].creator)
      BY <3>2 DEF Managed, Distinct, Owns
    <3> HIDE DEF found
    <3> QED
      BY <1>0, <3>1, <3>3 DEF Manages
  <2>3. UNCHANGED tables
    BY <1>4 DEF Load
  <2> HIDE DEF found
  <2> QED
    BY <1>0, <2>1, <2>2, <2>3, HelpersManage, QuietManaged
<1>5. ASSUME Hydrate(c) PROVE Managed' /\ UNCHANGED tables
  <2>1. ASSUME Permitted(call[c]) PROVE Manages(Forgotten(Granted(call[c])))
    <3>1. call[c].actor # "system" =>
            call[c].creator = call[c].actor \/ <<call[c].id, call[c].actor>> \in participants
      BY <2>1 DEF Permitted, CanAccess, CanManage, IsUser
    <3>2. call[c].actor # "system" => <<call[c].id, call[c].actor>> \in member
      BY <1>0, <3>1 DEF Call, Speaks, Managed, Spoken, Members
    <3>3. call[c].pc = "hydrate"
      BY <1>5 DEF Hydrate, At
    <3> QED
      BY <1>0, <2>1, <3>1, <3>2, <3>3, GrantedManages
  <2> QED
    BY <1>0, <1>5, <2>1, HelpersManage, QuietManaged DEF Hydrate
<1>6. ASSUME Probe(c) PROVE Managed' /\ UNCHANGED tables
  <2>1. PICK u \in call[c].todo :
          LET k == [call[c] EXCEPT !.todo = @ \ {u}]
          IN  Continue(c, IF <<k.id, u>> \in participants THEN Adding(k)
                          ELSE [k EXCEPT !.pc = "put", !.target = u])
    BY <1>6 DEF Probe
  <2> DEFINE k == [call[c] EXCEPT !.todo = @ \ {u}]
             n == [k EXCEPT !.pc = "put", !.target = u]
  <2>2. Continue(c, n) \/ Continue(c, Adding(k))
    BY <2>1
  <2>3. /\ k \in Call /\ k.pc = "probe" /\ k.id = call[c].id /\ k.actor = call[c].actor
        /\ k.stage = call[c].stage /\ k.op = call[c].op
    BY <1>0, <1>6 DEF Call, Probe, At
  <2> HIDE DEF k
  <2>4. Manages(k) /\ (k.actor # "system" => Owns(k.id, k.actor))
    BY <1>0, <1>6, <2>3 DEF Manages, Probe, At
  <2>5. Manages(n)
    BY <2>3, <2>4 DEF Manages, Call
  <2>6. UNCHANGED tables
    BY <1>6 DEF Probe
  <2> HIDE DEF n
  <2> QED
    BY <1>0, <2>2, <2>3, <2>4, <2>5, <2>6, HelpersManage, QuietManaged
<1> QED
  BY <1>1, <1>2, <1>3, <1>4, <1>5, <1>6

LEMMA InsertManaged ==
    ASSUME Managed, Spoken', NoOrphans', NEW c \in Callers, Insert(c)
    PROVE  Managed' /\ ChangedByCreator
<1>0. TypeOK /\ TypeOK' /\ call[c] \in Call /\ Manages(call[c])
  BY DEF Managed, Spoken, Typed, TypeOK
<1> DEFINE me == IF IsUser(call[c]) THEN {call[c].actor} ELSE {}
           k == [call[c] EXCEPT !.todo = @ \cup me, !.wanted = call[c].todo \cup me]
           n == [k EXCEPT !.id = FreshId, !.pc = "load", !.stage = "manage"]
<1>1. me \subseteq Users
  BY <1>0 DEF IsUser, Call
<1>2. /\ k \in Call /\ k.id = call[c].id /\ k.actor = call[c].actor /\ k.stage = call[c].stage
      /\ k.pc = "insert" /\ k.op = call[c].op /\ k.context = call[c].context /\ k.context \in Contexts
  <2> HIDE DEF me
  <2>1. call[c].pc = "insert"
    BY DEF Insert, At
  <2> QED
    BY <1>0, <1>1, <2>1 DEF Call
<1>3. Manages(k)
  <2> HIDE DEF k
  <2> QED
    BY <1>0, <1>2 DEF Manages
<1>4. CASE UNCHANGED tables /\ Continue(c, Thrown(k))
  <2> HIDE DEF k
  <2>1. Managed'
    BY <1>0, <1>2, <1>3, <1>4, HelpersManage, QuietManaged
  <2>2. ChangedByCreator
    BY <1>4 DEF ChangedByCreator, tables
  <2> QED
    BY <2>1, <2>2
<1>5. CASE ~ (UNCHANGED tables /\ Continue(c, Thrown(k)))
  <2>1. /\ conversation[k.context].id = 0
        /\ \E u : conversation' = [conversation EXCEPT ![k.context] = [id |-> FreshId, creator |-> u]]
        /\ nextId' = nextId + 1 /\ Continue(c, n)
        /\ UNCHANGED <<nextMessage, participants, messages>>
        /\ \E S : member' = {p \in member : p[1] # FreshId} \cup S
    BY <1>5 DEF Insert
  <2>2. FreshId = nextId /\ nextId \in Nat /\ nextId' \in Nat /\ nextId # 0
    BY <1>0, <2>1 DEF FreshId, TypeOK
  <2>3. \A p \in member : p[1] # FreshId
    <3>1. \A p \in member : p[1] < nextId /\ p[1] \in Nat
      BY <1>0 DEF Managed, Spoken, Members, TypeOK, Ids
    <3> QED
      BY <2>2, <3>1
  <2>4. member \subseteq member'
    BY <2>1, <2>3
  <2> HIDE DEF k
  <2>5. PICK u : conversation' = [conversation EXCEPT ![k.context] = [id |-> FreshId, creator |-> u]]
    BY <2>1
  <2>6. /\ \A x \in Contexts : x # k.context => conversation'[x] = conversation[x]
        /\ conversation'[k.context] = [id |-> FreshId, creator |-> u]
    BY <1>0, <1>2, <2>5 DEF TypeOK
  <2>7. \A x \in Contexts : \/ conversation'[x] = conversation[x]
                            \/ conversation'[x].id = nextId
    BY <2>2, <2>6
  <2>8. \A x \in Contexts : conversation[x].id # nextId
    <3>1. \A x \in Contexts : conversation[x].id \in Nat
      BY <1>0 DEF TypeOK
    <3>2. \A x \in Contexts : conversation[x].id < nextId
      BY DEF Managed, Spoken, RowsOwned
    <3> QED
      BY <2>2, <3>1, <3>2
  <2>9. Distinct'
    <3>1. ASSUME NEW x \in Contexts, NEW y \in Contexts, conversation'[x].id = conversation'[y].id,
                 conversation'[x].id # 0
          PROVE  x = y
      BY <2>2, <2>6, <2>8, <3>1 DEF Managed, Distinct
    <3> QED
      BY <3>1 DEF Distinct
  <2>10. PICK v : v = n
    OBVIOUS
  <2>11. Managed'
    <3>1. v.id = nextId /\ v.pc = "load" /\ v.stage = "manage"
      BY <1>2, <2>2, <2>10 DEF Call
    <3>2. Manages(v)'
      BY <2>1, <2>2, <3>1 DEF Manages
    <3>3. Continue(c, v)
      BY <2>1, <2>10
    <3> QED
      BY <2>1, <2>2, <2>4, <2>7, <2>9, <3>2, <3>3, OthersManage
  <2>12. ChangedByCreator
    BY <2>1, <2>6 DEF ChangedByCreator
  <2> QED
    BY <2>11, <2>12
<1> QED
  BY <1>4, <1>5

\* The other statements that write.
LEMMA WritesManaged ==
    ASSUME Managed, Spoken', NoOrphans', NEW c \in Callers,
           Put(c) \/ Append(c) \/ Remove(c) \/ Delete(c) \/ DeleteMessage(c)
    PROVE  Managed' /\ ChangedByCreator
<1>0. TypeOK /\ TypeOK' /\ call[c] \in Call /\ Manages(call[c])
  BY DEF Managed, Spoken, Typed, TypeOK
<1>1. nextId \in Nat
  BY <1>0 DEF TypeOK
<1>2. CASE UNCHANGED tables /\ Continue(c, Thrown(call[c]))
  <2>1. Managed'
    BY <1>0, <1>2, HelpersManage, QuietManaged
  <2>2. ChangedByCreator
    BY <1>2 DEF ChangedByCreator, tables
  <2> QED
    BY <2>1, <2>2
<1>3. ASSUME Put(c), ~ (UNCHANGED tables /\ Continue(c, Thrown(call[c])))
      PROVE  Managed' /\ ChangedByCreator
  <2> DEFINE k == [call[c] EXCEPT !.target = "nobody"]
  <2>1. /\ participants' = participants \cup {<<call[c].id, call[c].target>>}
        /\ member' = member \cup {<<call[c].id, call[c].target>>} /\ Continue(c, Adding(k))
        /\ UNCHANGED <<conversation, nextId, nextMessage, messages>> /\ At(c, "put")
    BY <1>3 DEF Put
  <2>2. /\ k \in Call /\ k.id = call[c].id /\ k.actor = call[c].actor /\ k.stage = call[c].stage
        /\ k.pc = "put" /\ k.op = call[c].op
    BY <1>0, <2>1 DEF Call, Creators, At
  <2> HIDE DEF k
  <2>3. Manages(k) /\ (k.actor # "system" => Owns(k.id, k.actor))
    <3>1. call[c].pc = "put"
      BY <2>1 DEF At
    <3>2. k.actor # "system" => Owns(k.id, k.actor)
      BY <1>0, <2>2, <3>1 DEF Manages, Owns
    <3>3. k.id < nextId /\ (k.stage = "access" => k.op \in {"append", "read"})
      BY <1>0, <2>2 DEF Manages
    <3> QED
      BY <2>2, <3>2, <3>3 DEF Manages
  <2>4. Manages(Adding(k)) /\ Adding(k).pc # "put"
    BY <1>0, <2>2, <2>3, HelpersManage, HelpersLead
  <2>5. PICK v : v = Adding(k)
    OBVIOUS
  <2>6. Manages(v)'
    BY <2>1, <2>4, <2>5 DEF Manages, Owns, Exists
  <2>7. Distinct'
    BY <2>1 DEF Managed, Distinct
  <2>8. Managed'
    BY <1>1, <2>1, <2>5, <2>6, <2>7, OthersManage
  <2>9. call'[c] # call[c]
    BY <1>0, <2>1, <2>2, <2>4 DEF Continue, TypeOK, At
  <2>10. ASSUME NEW x \in Contexts, conversation[x].id # 0, conversation[x].id = call[c].id, IsUser(call[c])
         PROVE  call[c].actor = conversation[x].creator
    BY <2>2, <2>3, <2>10 DEF Owns, IsUser
  <2>11. \A x \in Contexts : conversation[x].id # call[c].id =>
           {p \in participants' : p[1] = conversation[x].id} = {p \in participants : p[1] = conversation[x].id}
    BY <2>1
  <2>12. ChangedByCreator
    BY <2>1, <2>9, <2>10, <2>11 DEF ChangedByCreator
  <2> QED
    BY <2>8, <2>12
<1>4. ASSUME Append(c), ~ (UNCHANGED tables /\ Continue(c, Thrown(call[c])))
      PROVE  Managed' /\ ChangedByCreator
  <2> DEFINE k == [call[c] EXCEPT !.pc = "touch"]
  <2>1. /\ Continue(c, k) /\ messages \subseteq messages'
        /\ UNCHANGED <<conversation, nextId, participants, member>>
    BY <1>4 DEF Append
  <2>2. PICK v : v = k
    OBVIOUS
  <2>3. v.id = call[c].id /\ v.pc = "touch" /\ v.stage = call[c].stage /\ v.op = call[c].op
    BY <1>0, <2>2 DEF Call
  <2>4. Manages(v)'
    BY <1>0, <2>1, <2>3 DEF Manages
  <2>5. Distinct'
    BY <2>1 DEF Managed, Distinct
  <2>6. Managed'
    BY <1>1, <2>1, <2>2, <2>4, <2>5, OthersManage
  <2>7. ChangedByCreator
    BY <2>1 DEF ChangedByCreator
  <2> QED
    BY <2>6, <2>7
<1>5. ASSUME Remove(c) \/ Delete(c) \/ DeleteMessage(c) PROVE Managed' /\ ChangedByCreator
  <2>1. /\ Continue(c, End(call[c])) /\ member' = member /\ nextId' = nextId
        /\ call[c].pc \in {"remove", "delete", "deleteMessage"}
    BY <1>5 DEF Remove, Delete, DeleteMessage, At
  <2>2. \A x \in Contexts : /\ conversation'[x] \in {conversation[x], NoRow}
                            /\ conversation'[x] # conversation[x] => conversation[x].id = call[c].id
    BY <1>0, <1>5 DEF Remove, Delete, DeleteMessage, TypeOK
  <2>3. PICK v : v = End(call[c])
    OBVIOUS
  <2>4. v.id = 0 /\ v.pc = "idle" /\ v.stage = "look"
    BY <2>3 DEF End, Blank
  <2>5. 0 < nextId
    BY <1>0 DEF TypeOK
  <2>6. Manages(v)'
    BY <2>1, <2>4, <2>5 DEF Manages
  <2>7. Distinct'
    BY <2>2 DEF Managed, Distinct, NoRow
  <2>8. Managed'
    BY <1>1, <2>1, <2>2, <2>3, <2>6, <2>7, OthersManage
  <2>9. call'[c] # call[c]
    BY <1>0, <2>1, <2>3, <2>4 DEF Continue, TypeOK
  <2>10. ASSUME NEW x \in Contexts, conversation[x].id # 0, conversation[x].id = call[c].id, IsUser(call[c])
         PROVE  call[c].actor = conversation[x].creator
    BY <1>0, <2>1, <2>10 DEF Manages, Owns, IsUser
  <2>11. ASSUME NEW x \in Contexts, conversation[x].id # call[c].id
         PROVE  /\ {p \in participants' : p[1] = conversation[x].id} = {p \in participants : p[1] = conversation[x].id}
                /\ \A m \in messages \ messages' : m.conversation # conversation[x].id
                /\ conversation'[x] = conversation[x]
    BY <1>5, <2>2, <2>11 DEF Remove, Delete, DeleteMessage, Deleted
  <2>12. ChangedByCreator
    BY <2>9, <2>10, <2>11 DEF ChangedByCreator
  <2> QED
    BY <2>8, <2>12
<1> QED
  BY <1>2, <1>3, <1>4, <1>5

LEMMA StepManaged ==
    EarlyIds = FALSE /\ Managed /\ [Next]_vars => Managed' /\ [ChangedByCreator]_vars
<1> SUFFICES ASSUME EarlyIds = FALSE, Managed, [Next]_vars PROVE Managed' /\ [ChangedByCreator]_vars
  OBVIOUS
<1>1. Spoken' /\ NoOrphans'
  BY StepSpoken, StepOrphans DEF Managed, Spoken
<1>2. UNCHANGED tables => ChangedByCreator
  BY DEF ChangedByCreator, tables
<1>3. ASSUME NEW c \in Callers, BeginCall(c) \/ Statement(c) \/ StoreFails(c)
      PROVE  Managed' /\ ChangedByCreator
  BY <1>1, <1>2, <1>3, ReadsManaged, InsertManaged, WritesManaged DEF Statement
<1>4. CASE UNCHANGED vars
  BY <1>1, <1>4 DEF vars, Managed, Distinct, Manages, Owns, Exists
<1> QED
  BY <1>3, <1>4 DEF Next

(* When getMessages is about to list, its user is or was a member, or the  *)
(* conversation is gone for ever: ids are never handed out twice, so a     *)
(* check that was passed cannot come to stand for another conversation.    *)
THEOREM MembersRead == EarlyIds = FALSE /\ Spec => []OnlyMembersRead
<1>1. Managed => OnlyMembersRead
  <2> SUFFICES ASSUME Managed, NEW c \in Callers, NEW m \in messages,
                      At(c, "list"), IsUser(call[c]), m.conversation = call[c].id
               PROVE  <<m.conversation, call[c].actor>> \in member
    BY DEF OnlyMembersRead
  <2> QED
    BY DEF Managed, NoOrphans, Manages, At, IsUser
<1>2. EarlyIds = FALSE /\ Spec => []Managed
  <2>1. EarlyIds = FALSE => (Managed /\ [Next]_vars => Managed')
    BY StepManaged
  <2>2. CASE EarlyIds = FALSE
    <3>1. Managed /\ [Next]_vars => Managed'
      BY <2>1, <2>2
    <3> QED
      BY <3>1, InitManaged, PTL DEF Spec
  <2>3. CASE EarlyIds # FALSE
    BY <2>3
  <2> QED
    BY <2>2, <2>3
<1> QED
  BY <1>1, <1>2, PTL

(* However checks and writes of racing calls interleave, only a system     *)
(* actor or the creator adds or removes participants, deletes messages or  *)
(* deletes the conversation, when calls name only ids handed out before.   *)
THEOREM CreatorManages == EarlyIds = FALSE /\ Spec => OnlyCreatorManages
<1>1. CASE EarlyIds = FALSE
  <2>1. Managed /\ [Next]_vars => Managed' /\ [ChangedByCreator]_vars
    BY <1>1, StepManaged
  <2> QED
    BY <2>1, InitManaged, PTL DEF Spec, OnlyCreatorManages
<1>2. CASE EarlyIds # FALSE
  BY <1>2
<1> QED
  BY <1>1, <1>2
=============================================================================
