------------------------------ MODULE Messaging ------------------------------
(***************************************************************************)
(* The conversation store of src/features/messaging/store.ts on the tables *)
(* of migrations 0007 and 0008, for one tenant: calls of several actors,   *)
(* one D1 statement at a time.                                             *)
(*                                                                         *)
(* Every call that names a conversation first loads the row (pc "load"),   *)
(* then its participants, and decides from the two whether its actor has   *)
(* access (pc "hydrate"); only then does it write.  Nothing protects what  *)
(* it read: a conversation may be deleted, created again or change its     *)
(* participants before the write.                                          *)
(*                                                                         *)
(* A row id is a number from AUTOINCREMENT, 0 stands for no id.  Titles,   *)
(* bodies and timestamps are left out, and so is updateConversation, which *)
(* writes nothing else.  A caller makes any number of calls, one by one.   *)
(***************************************************************************)
EXTENDS Naturals

CONSTANTS Users, Contexts, Callers,
          MaxId,        \* bound on the conversations ever created
          MaxMessage,   \* bound on the messages ever appended
          Actors,       \* who calls: users, and "system" for an adapter or a reply job
          Calls,        \* the store functions in use
          Requests,     \* the participant lists calls ask for
          EarlyIds,     \* may a call name an id that was not handed out yet?
          Faults        \* {"store"} when statements may reject, or {}

CallNames == {"getOrCreate", "create", "add", "remove", "append", "read", "delete", "deleteMessage"}

ASSUME MessagingAssumption ==
    /\ MaxId \in Nat
    /\ MaxMessage \in Nat
    /\ {"system", "nobody"} \cap Users = {}
    /\ Actors \subseteq Users \cup {"system"}
    /\ Calls \subseteq CallNames
    /\ Requests \subseteq SUBSET Users
    /\ EarlyIds \in BOOLEAN
    /\ Faults \subseteq {"store"}

Ids == 1..MaxId
Creators == Users \cup {"nobody"}
Message == [id : 1..MaxMessage, conversation : Ids, sender : Users \cup {"system"}]

VARIABLES conversation, \* conversation[x]: the row of context x, id 0 for no row
          nextId,       \* the AUTOINCREMENT sequence of the conversations
          nextMessage,  \* that of the messages
          participants, \* the pairs of the participants table
          messages,     \* the rows of the messages table
          call,         \* activation records
          member        \* history: who was creator or participant of the row with that id

tables == <<conversation, nextId, nextMessage, participants, messages, member>>
vars == <<conversation, nextId, nextMessage, participants, messages, call, member>>

\* "stage" is what a load and its access check are for.
Stages == {"look", "manage", "access", "answer", "raced"}
PCs == {"idle", "find", "load", "hydrate", "insert", "probe", "put", "append", "touch",
        "remove", "list", "delete", "deleteMessage", "resolved"}
AtRest == {"idle", "resolved"}

Call == [op : CallNames, context : Contexts, id : 0..MaxId,
         actor : Users \cup {"system"},
         creator : Creators,             \* created_by of the row it loaded
         wanted : SUBSET Users,          \* the participants of its own conversation
         todo : SUBSET Users,            \* participants it has not dealt with
         target : Creators,              \* the participant it adds now, or removes
         victim : 0..MaxMessage,         \* the message it deletes
         pc : PCs, stage : Stages, creating : BOOLEAN]

Blank(op, x) == [op |-> op, context |-> x, id |-> 0, actor |-> "system", creator |-> "nobody",
                 wanted |-> {}, todo |-> {}, target |-> "nobody", victim |-> 0,
                 pc |-> "idle", stage |-> "look", creating |-> FALSE]

TypeOK ==
    /\ conversation \in [Contexts -> [id : 0..MaxId, creator : Creators]]
    /\ nextId \in 1..(MaxId + 1)
    /\ nextMessage \in 1..(MaxMessage + 1)
    /\ participants \subseteq Ids \X Users
    /\ messages \subseteq Message
    /\ call \in [Callers -> Call]
    /\ member \subseteq Ids \X Users

NoRow == [id |-> 0, creator |-> "nobody"]

Init ==
    /\ conversation = [x \in Contexts |-> NoRow]
    /\ nextId = 1
    /\ nextMessage = 1
    /\ participants = {}
    /\ messages = {}
    /\ \E x \in Contexts : call = [c \in Callers |-> Blank("read", x)]
    /\ member = {}
-----------------------------------------------------------------------------
(* Activation records *)

At(c, pc) == call[c].pc = pc
Continue(c, k) == call' = [call EXCEPT ![c] = k]

\* A call that ended, well or not, forgets its activation record.  Only the answer of
\* getOrCreateConversation's catch is kept: the conversation, and whom it was to add.
End(k) == Blank("read", k.context)
Answered(k) ==
    IF k.stage = "raced"
    THEN [End(k) EXCEPT !.pc = "resolved", !.op = k.op, !.id = k.id, !.wanted = k.wanted]
    ELSE End(k)

\* An error: getOrCreateConversation catches what createConversation throws and looks
\* for the row of a concurrent creator.
Thrown(k) ==
    IF k.op = "getOrCreate" /\ k.creating
    THEN [k EXCEPT !.pc = "find", !.stage = "raced", !.creating = FALSE, !.todo = {}]
    ELSE End(k)

IsUser(k) == k.actor # "system"
Exists(i) == \E x \in Contexts : conversation[x].id = i /\ i # 0
RowOf(i) == CHOOSE x \in Contexts : conversation[x].id = i

\* addParticipants takes the next participant, or is done.
Adding(k) ==
    IF k.todo # {} THEN [k EXCEPT !.pc = "probe"]
    ELSE IF k.creating THEN [k EXCEPT !.pc = "hydrate", !.stage = "answer"]
    ELSE IF k.op = "getOrCreate" THEN [k EXCEPT !.pc = "load", !.stage = "answer"]
    ELSE Answered(k)
-----------------------------------------------------------------------------
(* The calls of the store *)

Begin(c, k) ==
    /\ call[c].pc \in AtRest
    /\ k.op \in Calls
    /\ Continue(c, k)
    /\ UNCHANGED tables

\* The caller's input: a context and participants, or an id it got from an answer.
Asked(c, op, a) == [Blank(op, call[c].context) EXCEPT !.actor = a]

\* getOrCreateConversation and createConversation.
BeginCreate(c, op, a, x, ps) ==
    /\ op \in {"getOrCreate", "create"}
    /\ Begin(c, [Asked(c, op, a) EXCEPT !.context = x, !.todo = ps,
                                        !.pc = IF op = "create" THEN "insert" ELSE "find",
                                        !.creating = (op = "create")])

Nameable(i) == EarlyIds \/ i < nextId

BeginAdd(c, a, i, ps) ==
    /\ Nameable(i)
    /\ Begin(c, [Asked(c, "add", a) EXCEPT !.id = i, !.todo = ps,
                                           !.pc = "load", !.stage = "manage"])

BeginRemove(c, a, i, u) ==
    /\ Nameable(i)
    /\ Begin(c, [Asked(c, "remove", a) EXCEPT !.id = i, !.target = u,
                                              !.pc = "load", !.stage = "manage"])

\* appendMessage and getMessages.
BeginVisit(c, op, a, i) ==
    /\ op \in {"append", "read"}
    /\ Nameable(i)
    /\ Begin(c, [Asked(c, op, a) EXCEPT !.id = i, !.pc = "load", !.stage = "access"])

BeginDelete(c, a, i) ==
    /\ Nameable(i)
    /\ Begin(c, [Asked(c, "delete", a) EXCEPT !.id = i, !.pc = "load", !.stage = "manage"])

BeginDeleteMessage(c, a, i, v) ==
    /\ Nameable(i)
    /\ Begin(c, [Asked(c, "deleteMessage", a) EXCEPT !.id = i, !.victim = v,
                                                     !.pc = "load", !.stage = "manage"])
-----------------------------------------------------------------------------
(* Statements *)

\* findConversation: SELECT by context.
Find(c) ==
    LET k == call[c]
        row == conversation[k.context]
    IN  /\ At(c, "find")
        /\ UNCHANGED tables
        /\ \/ /\ row.id # 0
              /\ Continue(c, [k EXCEPT !.id = row.id, !.creator = row.creator, !.pc = "hydrate"])
           \/ /\ row.id = 0
              /\ k.stage = "look"
              /\ Continue(c, [k EXCEPT !.pc = "insert", !.creating = TRUE])
           \/ /\ row.id = 0
              /\ k.stage = "raced"
              /\ Continue(c, End(k))

\* requireAccess(null) is no error: addParticipants and getMessages go on without a row,
\* and getOrCreateConversation answers null.
WithoutRow(k) ==
    IF k.stage = "answer" THEN Answered(k)
    ELSE IF k.op = "read" THEN [k EXCEPT !.pc = "list"]
    ELSE IF k.op \in {"add", "create", "getOrCreate"} THEN Adding(k)
    ELSE End(k)

\* reader.get: SELECT by id.
Load(c) ==
    /\ At(c, "load")
    /\ UNCHANGED tables
    /\ \/ /\ Exists(call[c].id)
          /\ Continue(c, [call[c] EXCEPT !.creator = conversation[RowOf(call[c].id)].creator,
                                         !.pc = "hydrate"])
       \/ /\ ~Exists(call[c].id)
          /\ Continue(c, WithoutRow(call[c]))

CanManage(k) == IsUser(k) => k.creator = k.actor

CanAccessAnything(k) == TRUE

CanAccess(k) == CanManage(k) \/ <<k.id, k.actor>> \in participants

PermittedToMembers(k) ==
    /\ CanAccess(k)
    /\ k.op = "remove" => k.creator # k.target

\* The access checks of hydrate and of the function that called it.
Permitted(k) ==
    /\ CanAccess(k)
    /\ k.stage = "manage" => CanManage(k)
    /\ k.op = "remove" => k.creator # k.target

\* What follows a passed check.  Only createConversation uses the row again.
Forgotten(k) == IF k.creating THEN k ELSE [k EXCEPT !.creator = "nobody"]
Granted(k) ==
    IF k.stage \in {"answer", "raced"} THEN Answered(k)
    ELSE IF k.stage = "look" THEN [k EXCEPT !.pc = "load", !.stage = "manage"]
    ELSE IF k.op \in {"getOrCreate", "create", "add"} THEN Adding(k)
    ELSE [k EXCEPT !.pc = IF k.op = "read" THEN "list" ELSE k.op]

\* participantsFor: SELECT the participants, then the checks.
Hydrate(c) ==
    /\ At(c, "hydrate")
    /\ UNCHANGED tables
    /\ \/ Permitted(call[c]) /\ Continue(c, Forgotten(Granted(call[c])))
       \/ ~Permitted(call[c]) /\ Continue(c, Thrown(call[c]))

ReusedId == IF \E i \in Ids : ~Exists(i)
            THEN CHOOSE i \in Ids : ~Exists(i) /\ \A j \in Ids : ~Exists(j) => i <= j
            ELSE MaxId

\* INTEGER PRIMARY KEY AUTOINCREMENT: an id is never handed out twice.
FreshId == nextId

\* INSERT INTO messaging_conversations.  A user is creator and participant of what it
\* creates, a system actor names a creator.  UNIQUE(tenant_id, context) refuses a second
\* row.
Insert(c) ==
    LET me == IF IsUser(call[c]) THEN {call[c].actor} ELSE {}
        k == [call[c] EXCEPT !.todo = @ \cup me, !.wanted = call[c].todo \cup me]
    IN  /\ At(c, "insert")
        /\ nextId <= MaxId
        /\ \/ /\ conversation[k.context].id = 0
              /\ \E creator \in IF IsUser(k) THEN me ELSE Creators :
                   /\ conversation' = [conversation EXCEPT ![k.context] =
                                         [id |-> FreshId, creator |-> creator]]
                   /\ member' = {p \in member : p[1] # FreshId} \cup
                                  ({FreshId} \X ({creator} \ {"nobody"}))
              /\ nextId' = nextId + 1
              /\ Continue(c, [k EXCEPT !.id = FreshId, !.pc = "load", !.stage = "manage"])
              /\ UNCHANGED <<nextMessage, participants, messages>>
           \/ /\ conversation[k.context].id # 0
              /\ Continue(c, Thrown(k))
              /\ UNCHANGED tables

\* addParticipants: SELECT one participant, in the order of the caller's array.
Probe(c) ==
    /\ At(c, "probe")
    /\ UNCHANGED tables
    /\ \E u \in call[c].todo :
         LET k == [call[c] EXCEPT !.todo = @ \ {u}]
         IN  Continue(c, IF <<k.id, u>> \in participants THEN Adding(k)
                         ELSE [k EXCEPT !.pc = "put", !.target = u])

\* INSERT INTO the participants: the foreign key wants the conversation, the UNIQUE
\* constraint refuses a row that a concurrent call inserted.
Put(c) ==
    LET k == call[c]
    IN  /\ At(c, "put")
        /\ \/ /\ Exists(k.id)
              /\ <<k.id, k.target>> \notin participants
              /\ participants' = participants \cup {<<k.id, k.target>>}
              /\ member' = member \cup {<<k.id, k.target>>}
              /\ Continue(c, Adding([k EXCEPT !.target = "nobody"]))
              /\ UNCHANGED <<conversation, nextId, nextMessage, messages>>
           \/ /\ ~Exists(k.id) \/ <<k.id, k.target>> \in participants
              /\ Continue(c, Thrown(k))
              /\ UNCHANGED tables

Appended(k) == [id |-> nextMessage, conversation |-> k.id, sender |-> k.actor]

AppendAnyway(c) ==
    /\ At(c, "append")
    /\ nextMessage <= MaxMessage
    /\ messages' = messages \cup {Appended(call[c])}
    /\ nextMessage' = nextMessage + 1
    /\ Continue(c, [call[c] EXCEPT !.pc = "touch"])
    /\ UNCHANGED <<conversation, nextId, participants, member>>

\* INSERT INTO the messages, sender and context from the actor and the loaded row.
Append(c) ==
    /\ At(c, "append")
    /\ \/ /\ Exists(call[c].id)
          /\ nextMessage <= MaxMessage
          /\ messages' = messages \cup {Appended(call[c])}
          /\ nextMessage' = nextMessage + 1
          /\ Continue(c, [call[c] EXCEPT !.pc = "touch"])
          /\ UNCHANGED <<conversation, nextId, participants, member>>
       \/ /\ ~Exists(call[c].id)
          /\ Continue(c, Thrown(call[c]))
          /\ UNCHANGED tables

\* UPDATE updated_at, and the SELECT after it: appendMessage uses neither's outcome.
Touch(c) ==
    /\ At(c, "touch")
    /\ Continue(c, End(call[c]))
    /\ UNCHANGED tables

\* getMessages: SELECT the messages by conversation_id.
List(c) ==
    /\ At(c, "list")
    /\ Continue(c, End(call[c]))
    /\ UNCHANGED tables

Remove(c) ==
    /\ At(c, "remove")
    /\ participants' = participants \ {<<call[c].id, call[c].target>>}
    /\ Continue(c, End(call[c]))
    /\ UNCHANGED <<conversation, nextId, nextMessage, messages, member>>

\* DELETE the conversation; ON DELETE CASCADE takes its participants and messages along.
Delete(c) ==
    LET i == call[c].id
    IN  /\ At(c, "delete")
        /\ conversation' = [x \in Contexts |-> IF conversation[x].id = i THEN NoRow
                                               ELSE conversation[x]]
        /\ participants' = {p \in participants : p[1] # i}
        /\ messages' = {m \in messages : m.conversation # i}
        /\ Continue(c, End(call[c]))
        /\ UNCHANGED <<nextId, nextMessage, member>>

\* DELETE WHERE id = ? AND conversation_id = ?.
Deleted(k) == {m \in messages : m.id = k.victim /\ m.conversation = k.id}

DeleteMessage(c) ==
    /\ At(c, "deleteMessage")
    /\ messages' = messages \ Deleted(call[c])
    /\ Continue(c, End(call[c]))
    /\ UNCHANGED <<conversation, nextId, nextMessage, participants, member>>

\* A statement rejects.  A write whose answer was lost is the write and then this.  An
\* evicted invocation needs no action: it takes no further step, which Spec allows.
StoreFails(c) ==
    /\ "store" \in Faults
    /\ call[c].pc \notin AtRest
    /\ Continue(c, Thrown(call[c]))
    /\ UNCHANGED tables

BeginCall(c) ==
    \E a \in Actors :
        \/ \E op \in {"getOrCreate", "create"}, x \in Contexts, ps \in Requests :
             BeginCreate(c, op, a, x, ps)
        \/ \E i \in Ids :
             \/ \E ps \in Requests : BeginAdd(c, a, i, ps)
             \/ \E u \in Users : BeginRemove(c, a, i, u)
             \/ \E op \in {"append", "read"} : BeginVisit(c, op, a, i)
             \/ BeginDelete(c, a, i)
             \/ \E v \in 1..(nextMessage - 1) : BeginDeleteMessage(c, a, i, v)

Statement(c) ==
    \/ Find(c)
    \/ Load(c)
    \/ Hydrate(c)
    \/ Insert(c)
    \/ Probe(c)
    \/ Put(c)
    \/ Append(c)
    \/ Touch(c)
    \/ List(c)
    \/ Remove(c)
    \/ Delete(c)
    \/ DeleteMessage(c)

Next == \E c \in Callers : BeginCall(c) \/ Statement(c) \/ StoreFails(c)

Spec == Init /\ [][Next]_vars
-----------------------------------------------------------------------------
(* Properties *)

\* A participant or message row always has its conversation, however a deletion and the
\* calls it overtook interleave: the foreign keys of 0007 and the triggers of 0008.
NoOrphans ==
    /\ \A p \in participants : Exists(p[1])
    /\ \A m \in messages : Exists(m.conversation)

\* A user's message is in a conversation that user created or took part in, also when
\* the conversation was deleted and its context taken again during the call:
\* appendMessage's check and the AUTOINCREMENT ids it relies on.
OnlyMembersSpeak ==
    \A m \in messages : m.sender \in Users => <<m.conversation, m.sender>> \in member

\* When getMessages is about to list, the messages it would get are of a conversation
\* its user created or took part in.
OnlyMembersRead ==
    \A c \in Callers : \A m \in messages :
        At(c, "list") /\ IsUser(call[c]) /\ m.conversation = call[c].id
        => <<m.conversation, call[c].actor>> \in member

\* Participants are added to and removed from an existing conversation, messages are
\* deleted and conversations are deleted only by a system actor or the creator.
ChangedByCreator ==
    \A x \in Contexts :
        LET i == conversation[x].id
            Ours(ps) == {p \in ps : p[1] = i}
        IN  /\ i # 0
            /\ \/ conversation'[x] # conversation[x]
               \/ Ours(participants') # Ours(participants)
               \/ \E m \in messages \ messages' : m.conversation = i
            => \E c \in Callers :
                 /\ call'[c] # call[c]
                 /\ ~IsUser(call[c]) \/ call[c].actor = conversation[x].creator
OnlyCreatorManages == [][ChangedByCreator]_vars

Quiescent == \A c \in Callers : call[c].pc \in AtRest

\* Once getOrCreateConversation or createConversation answered a conversation and no
\* call is in flight, the participants it was asked for have joined.  (Said of
\* instances without removals.)
RequestedParticipantsJoin ==
    Quiescent => \A c \in Callers :
        /\ At(c, "resolved")
        /\ call[c].op \in {"getOrCreate", "create"}
        /\ Exists(call[c].id)
        => {call[c].id} \X call[c].wanted \subseteq participants
=============================================================================
