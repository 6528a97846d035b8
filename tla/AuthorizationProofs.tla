------------------------- MODULE AuthorizationProofs -------------------------
(***************************************************************************)
(* Theorems about Authorization, for any users, groups, tenants, scopes,   *)
(* subscriptions and number of concurrent requests.                        *)
(***************************************************************************)
EXTENDS Authorization, TLAPS

\* What a blank activation record is.
LEMMA BlankTyped ==
    ASSUME NEW u \in Users
    PROVE  Blank(u) \in Request
<1>1. Nothing \in Assignment
    BY DEF Nothing, Assignment
<1> QED BY <1>1, AuthorizationAssumption DEF Blank, Request, Ops, PCs, Ids

\* Starting a request.
LEMMA BeginTyped ==
    ASSUME TypeOK, NEW c \in Callers, BeginRequest(c)
    PROVE  request' \in [Callers -> Request] /\ UNCHANGED tables
<1> USE DEF TypeOK, Begin, Continue
<1>0. Blank(request[c].user) \in Request /\ \A u \in Users : Blank(u) \in Request
    <2>1. request[c].user \in Users
        BY DEF Request
    <2> QED BY <2>1, BlankTyped
<1>1. ASSUME NEW op \in Ops, NEW u \in Users, NEW want \in Wanted, BeginAssign(c, op, u, want)
      PROVE  request' \in [Callers -> Request] /\ UNCHANGED tables
    <2>1. PICK parts \in PartsOf(op) :
            Begin(c, Reading([Blank(u) EXCEPT !.op = op, !.parts = parts, !.want = want,
                                              !.todo = LookedUp(op, parts)]))
        BY <1>1 DEF BeginAssign
    <2>2. parts \subseteq Parts
        BY <1>1, AuthorizationAssumption DEF BeginAssign, PartsOf, Parts
    <2>3. LookedUp(op, parts) \subseteq Parts \cup {"user"}
        BY <2>2 DEF LookedUp
    <2>4. want \in Assignment
        BY AuthorizationAssumption
    <2>5. [Blank(u) EXCEPT !.op = op, !.parts = parts, !.want = want, !.todo = LookedUp(op, parts)] \in Request
        BY <1>0, <2>2, <2>3, <2>4 DEF Request
    <2>6. Reading([Blank(u) EXCEPT !.op = op, !.parts = parts, !.want = want,
                                   !.todo = LookedUp(op, parts)]) \in Request
        BY <2>5 DEF Reading, Request, PCs
    <2> QED BY <2>1, <2>6
<1>2. ASSUME NEW t \in Busy, NEW subs \in SUBSET Subscriptions, BeginSubscribe(c, t, subs)
      PROVE  request' \in [Callers -> Request] /\ UNCHANGED tables
    <2>1. [Blank(request[c].user) EXCEPT !.op = "subscribe", !.pc = "commit",
                                         !.target = t, !.subs = subs] \in Request
        BY <1>0, AuthorizationAssumption DEF Request, Ops, PCs
    <2> QED BY <1>2, <2>1 DEF BeginSubscribe
<1>3. ASSUME NEW op \in Ops, NEW x \in Groups \cup Tenants, BeginDelete(c, op, x)
      PROVE  request' \in [Callers -> Request] /\ UNCHANGED tables
    <2>1. [Blank(request[c].user) EXCEPT !.op = op, !.pc = "exists", !.target = x] \in Request
        BY <1>0 DEF Request, PCs
    <2> QED BY <1>3, <2>1 DEF BeginDelete
<1>4. ASSUME NEW u \in Users, BeginSignIn(c, u)
      PROVE  request' \in [Callers -> Request] /\ UNCHANGED tables
    <2>1. [Blank(u) EXCEPT !.pc = "find"] \in Request
        BY <1>0 DEF Request, PCs
    <2> QED BY <1>4, <2>1 DEF BeginSignIn
<1> QED BY <1>1, <1>2, <1>3, <1>4 DEF BeginRequest

\* A request that ends leaves a blank record behind.
LEMMA EndTyped ==
    ASSUME TypeOK, NEW c \in Callers, End(c)
    PROVE  request' \in [Callers -> Request]
<1>1. request[c].user \in Users
    BY DEF TypeOK, Request
<1>2. Blank(request[c].user) \in Request
    BY <1>1, BlankTyped
<1> QED BY <1>2 DEF End, Continue, TypeOK

\* A record that only moves its program counter, drops a look-up or takes an id.
LEMMA RecordTyped ==
    ASSUME NEW k \in Request
    PROVE  /\ \A pc \in PCs : [k EXCEPT !.pc = pc] \in Request
           /\ \A pc \in PCs, id \in Ids : [k EXCEPT !.pc = pc, !.id = id] \in Request
           /\ \A part : Reading([k EXCEPT !.todo = @ \ {part}]) \in Request
BY DEF Request, Reading, PCs

\* A statement keeps the types of the tables and of the activation records.
LEMMA StatementTyped ==
    ASSUME TypeOK, NEW c \in Callers, Statement(c) \/ StoreFails(c) \/ Catalog
    PROVE  /\ request' \in [Callers -> Request]
           /\ rowId' \in [Users -> Ids]
           /\ groups' \subseteq Groups
           /\ tenants' \subseteq Tenants
           /\ scopes' \subseteq Scopes
           /\ system' \subseteq scopes'
           /\ userGroups' \subseteq Users \X Groups
           /\ userTenants' \subseteq Users \X Tenants
           /\ userScopes' \subseteq Users \X Scopes
           /\ subscribed' \subseteq Tenants \X Subscriptions
           /\ conversations' \subseteq Tenants
<1> DEFINE k == request[c]
           Goal == /\ request' \in [Callers -> Request]
                   /\ rowId' \in [Users -> Ids]
                   /\ groups' \subseteq Groups
                   /\ tenants' \subseteq Tenants
                   /\ scopes' \subseteq Scopes
                   /\ system' \subseteq scopes'
                   /\ userGroups' \subseteq Users \X Groups
                   /\ userTenants' \subseteq Users \X Tenants
                   /\ userScopes' \subseteq Users \X Scopes
                   /\ subscribed' \subseteq Tenants \X Subscriptions
                   /\ conversations' \subseteq Tenants
<1>1. k \in Request
    BY DEF TypeOK
<1>2. ASSUME NEW r \in Request, Continue(c, r)
      PROVE  request' \in [Callers -> Request]
    BY <1>2 DEF Continue, TypeOK
<1>3. ASSUME End(c)
      PROVE  request' \in [Callers -> Request]
    BY <1>3, EndTyped
<1>4. ASSUME request' \in [Callers -> Request], UNCHANGED tables
      PROVE  Goal
    BY <1>4 DEF TypeOK, tables, catalogs, access
<1> HIDE DEF k
<1>5. CASE Read(c)
    <2>1. PICK part \in Due(k) :
            IF Passes(k, part) THEN Continue(c, Reading([k EXCEPT !.todo = @ \ {part}])) ELSE End(c)
        BY <1>5 DEF Read, k
    <2>2. Reading([k EXCEPT !.todo = @ \ {part}]) \in Request
        BY <1>1, RecordTyped
    <2> QED BY <1>2, <1>3, <1>4, <1>5, <2>1, <2>2 DEF Read
<1>6. CASE Commit(c)
    <2>1. request' \in [Callers -> Request]
        BY <1>3, <1>6 DEF Commit
    <2>2. k.user \in Users /\ k.want \in Assignment
        BY <1>1 DEF Request
    <2>3. GroupRows(k) \subseteq Users \X Groups
        BY <2>2 DEF TypeOK, GroupRows, Replaced, Assignment
    <2>4. TenantRows(k) \subseteq Users \X Tenants
        BY <2>2 DEF TypeOK, TenantRows, Replaced, Assignment
    <2>5. ScopeRows(k) \subseteq Users \X Scopes
        BY <2>2 DEF TypeOK, ScopeRows, Replaced, Assignment
    <2> QED BY <1>6, <2>1, <2>3, <2>4, <2>5 DEF Commit, TypeOK, catalogs, access, k
<1>7. CASE Subscribe(c)
    <2>1. request' \in [Callers -> Request]
        BY <1>3, <1>7 DEF Subscribe
    <2>2. k.subs \subseteq Subscriptions
        BY <1>1 DEF Request
    <2>3. subscribed' \subseteq Tenants \X Subscriptions
        BY <1>7, <2>2 DEF Subscribe, Replaced, TypeOK, k
    <2> QED BY <1>7, <2>1, <2>3 DEF Subscribe, TypeOK, catalogs, access
<1>8. CASE CheckExists(c)
    <2>1. [k EXCEPT !.pc = "count"] \in Request
        BY <1>1, RecordTyped DEF PCs
    <2> QED BY <1>2, <1>3, <1>4, <1>8, <2>1 DEF CheckExists, k
<1>9. CASE CountDependents(c)
    <2>1. [k EXCEPT !.pc = IF k.op = "deleteTenant" THEN "conversations" ELSE "delete"] \in Request
        BY <1>1, RecordTyped DEF PCs
    <2> QED BY <1>2, <1>3, <1>4, <1>9, <2>1 DEF CountDependents, k
<1>10. CASE CountConversations(c)
    <2>1. [k EXCEPT !.pc = "delete"] \in Request
        BY <1>1, RecordTyped DEF PCs
    <2> QED BY <1>2, <1>3, <1>4, <1>10, <2>1 DEF CountConversations, k
<1>11. CASE Delete(c)
    BY <1>3, <1>11 DEF Delete, TypeOK
<1>12. CASE Find(c)
    <2>1. k.user \in Users
        BY <1>1 DEF Request
    <2>2. Answer(k, rowId[k.user]) \in Request
        BY <1>1, <2>1, RecordTyped DEF Answer, TypeOK, PCs
    <2>3. [k EXCEPT !.pc = "insert"] \in Request
        BY <1>1, RecordTyped DEF PCs
    <2> QED BY <1>2, <1>4, <1>12, <2>2, <2>3 DEF Find, k
<1>13. CASE InsertUser(c)
    <2>1. k.user \in Users
        BY <1>1 DEF Request
    <2>2. [k EXCEPT !.pc = "get", !.id = k.user] \in Request
        BY <1>1, <2>1, RecordTyped DEF PCs, Ids
    <2>3. request' \in [Callers -> Request]
        BY <1>2, <1>13, <2>2 DEF InsertUser, k
    <2>4. rowId' \in [Users -> Ids]
        BY <1>13, <2>1 DEF InsertUser, TypeOK, Ids, k
    <2> QED BY <1>13, <2>3, <2>4 DEF InsertUser, TypeOK, catalogs, access
<1>14. CASE GetUser(c)
    <2>1. k.id \in Ids /\ NoId \in Ids
        BY <1>1 DEF Request, Ids
    <2>2. Answer(k, IF rowId[k.user] = k.id THEN k.id ELSE NoId) \in Request
        BY <1>1, <2>1, RecordTyped DEF Answer, PCs
    <2> QED BY <1>2, <1>4, <1>14, <2>2 DEF GetUser, k
<1>15. CASE StoreFails(c)
    BY <1>3, <1>4, <1>15 DEF StoreFails
<1>16. CASE Catalog
    BY <1>16, AuthorizationAssumption DEF Catalog, CreateGroup, CreateTenant, EnsureScope, OpenConversation,
       DeleteConversations, TypeOK, catalogs, access
<1> QED BY <1>5, <1>6, <1>7, <1>8, <1>9, <1>10, <1>11, <1>12, <1>13, <1>14, <1>15, <1>16 DEF Statement

\* The history is typed when the tables are.
LEMMA StandingTyped ==
    ASSUME TypeOK,
           request' \in [Callers -> Request],
           userGroups' \subseteq Users \X Groups,
           userTenants' \subseteq Users \X Tenants,
           subscribed' \subseteq Tenants \X Subscriptions,
           conversations' \subseteq Tenants,
           standing' = [c \in Callers |-> Observed(c)]
    PROVE  standing' \in [Callers -> SUBSET Row]
<1>1. ASSUME NEW c \in Callers
      PROVE  Observed(c) \subseteq Row
    <2>1. \A x : Dependents(x)' \subseteq Row
        BY DEF Dependents, Row
    <2>2. standing[c] \subseteq Row
        BY DEF TypeOK
    <2> QED BY <2>1, <2>2 DEF Observed
<1> QED BY <1>1

LEMMA TypeInit == Init => TypeOK
<1> SUFFICES ASSUME Init PROVE TypeOK
    OBVIOUS
<1>1. request \in [Callers -> Request]
    BY BlankTyped DEF Init
<1> QED BY <1>1, AuthorizationAssumption DEF Init, TypeOK, Ids

LEMMA TypeStep == TypeOK /\ [Next]_vars => TypeOK'
<1> SUFFICES ASSUME TypeOK, [Next]_vars PROVE TypeOK'
    OBVIOUS
<1>1. CASE Next
    <2>1. ASSUME NEW c \in Callers, BeginRequest(c)
          PROVE  TypeOK'
        <3>1. request' \in [Callers -> Request] /\ UNCHANGED tables
            BY <2>1, BeginTyped
        <3>2. standing' \in [Callers -> SUBSET Row]
            BY <1>1, <3>1, StandingTyped DEF Next, tables, access, TypeOK
        <3> QED BY <3>1, <3>2 DEF TypeOK, tables, catalogs, access
    <2>2. ASSUME NEW c \in Callers, Statement(c) \/ StoreFails(c) \/ Catalog
          PROVE  TypeOK'
        BY <1>1, <2>2, StatementTyped, StandingTyped DEF Next, TypeOK
    <2>3. CASE Callers = {} /\ Catalog
        <3>1. request' = request
            BY <2>3 DEF Catalog, CreateGroup, CreateTenant, EnsureScope, OpenConversation, DeleteConversations
        <3> QED BY <1>1, <2>3, <3>1, AuthorizationAssumption DEF Next, Catalog, CreateGroup, CreateTenant, EnsureScope,
               OpenConversation, DeleteConversations, TypeOK, catalogs, access
    <2> QED BY <1>1, <2>1, <2>2, <2>3 DEF Next
<1>2. CASE UNCHANGED vars
    BY <1>2 DEF vars, tables, catalogs, access, TypeOK
<1> QED BY <1>1, <1>2

\* Every table, activation record and history keeps its type.
THEOREM AuthorizationTyped == Spec => []TypeOK
BY TypeInit, TypeStep, PTL DEF Spec
-----------------------------------------------------------------------------
(* The invariants behind the properties *)

\* A row between two tables has both ends: the foreign keys.
RowsFit ==
    /\ \A p \in userGroups : p[2] \in groups
    /\ \A p \in userTenants : p[2] \in tenants
    /\ \A p \in subscribed : p[1] \in tenants
    /\ conversations \subseteq tenants

\* What an assignment that looked its scopes up may write.  A registered scope stays, and
\* stays as protected as it was: the check holds for as long as the request lasts.
ScopesChecked ==
    \A c \in Callers :
        /\ At(c, "commit") => request[c].todo = {}
        /\ request[c].pc \in {"read", "commit"} /\ "scopes" \in request[c].parts
              /\ "scopes" \notin request[c].todo
           => request[c].want.scopes \subseteq scopes \ system

\* What users hold is registered and unprotected.
GrantsFit == \A p \in userScopes : p[2] \in scopes \ system

\* The id of a row is the digest of its identity, and a sign-in past its INSERT finds it.
IdsFit ==
    /\ \A u \in Users : rowId[u] \in {u, NoId}
    /\ \A c \in Callers :
         At(c, "get") => /\ request[c].id = request[c].user
                         /\ rowId[request[c].user] = request[c].user

\* What a deletion counted is gone from its history, and a deletion's target is what the
\* operation says.
CountsStand ==
    \A c \in Callers :
        /\ request[c].pc \in {"exists", "count", "conversations", "delete"} =>
             \/ request[c].op = "deleteGroup" /\ request[c].target \in Groups
             \/ request[c].op = "deleteTenant" /\ request[c].target \in Tenants
        /\ At(c, "conversations") => standing[c] \subseteq {"conversation"} \X Tenants

\* What every request starts with.
Started(k) ==
    /\ k.pc \in {"read", "commit", "exists", "find"}
    /\ k.pc = "commit" => k.todo = {}
    /\ k.pc \in {"read", "commit"} /\ "scopes" \in k.parts => "scopes" \in k.todo
    /\ k.pc = "exists" => \/ k.op = "deleteGroup" /\ k.target \in Groups
                          \/ k.op = "deleteTenant" /\ k.target \in Tenants

LEMMA BeginShape ==
    ASSUME TypeOK, NEW c \in Callers, BeginRequest(c)
    PROVE  /\ UNCHANGED tables
           /\ Started(request'[c])
           /\ \A d \in Callers \ {c} : request'[d] = request[d]
<1> USE DEF Started
<1>1. ASSUME NEW r, Begin(c, r)
      PROVE  request'[c] = r /\ UNCHANGED tables /\ \A d \in Callers \ {c} : request'[d] = request[d]
    BY <1>1 DEF Begin, Continue, TypeOK
<1>2. ASSUME NEW op \in Ops, NEW u \in Users, NEW want \in Wanted, BeginAssign(c, op, u, want)
      PROVE  \E r : Begin(c, r) /\ Started(r)
    <2>1. PICK parts \in PartsOf(op) :
            Begin(c, Reading([Blank(u) EXCEPT !.op = op, !.parts = parts, !.want = want,
                                              !.todo = LookedUp(op, parts)]))
        BY <1>2 DEF BeginAssign
    <2> DEFINE b == [Blank(u) EXCEPT !.op = op, !.parts = parts, !.want = want,
                                     !.todo = LookedUp(op, parts)]
    <2>2. b.parts = parts /\ b.todo = LookedUp(op, parts)
        BY DEF Blank
    <2>3. "scopes" \in parts => "scopes" \in LookedUp(op, parts)
        BY <1>2 DEF BeginAssign, LookedUp, PartsOf
    <2>4. /\ Reading(b).pc = IF b.todo = {} THEN "commit" ELSE "read"
          /\ Reading(b).parts = b.parts
          /\ Reading(b).todo = b.todo
        BY DEF Reading, Blank
    <2> HIDE DEF b
    <2>5. Started(Reading(b))
        BY <2>2, <2>3, <2>4
    <2> QED BY <2>1, <2>5 DEF b
<1>3. ASSUME NEW t \in Busy, NEW subs \in SUBSET Subscriptions, BeginSubscribe(c, t, subs)
      PROVE  \E r : Begin(c, r) /\ Started(r)
    <2>1. Started([Blank(request[c].user) EXCEPT !.op = "subscribe", !.pc = "commit",
                                                 !.target = t, !.subs = subs])
        BY DEF Blank
    <2> QED BY <1>3, <2>1 DEF BeginSubscribe
<1>4. ASSUME NEW op \in Ops, NEW x \in Groups \cup Tenants, BeginDelete(c, op, x)
      PROVE  \E r : Begin(c, r) /\ Started(r)
    <2>1. Started([Blank(request[c].user) EXCEPT !.op = op, !.pc = "exists", !.target = x])
        BY <1>4 DEF BeginDelete, Blank
    <2> QED BY <1>4, <2>1 DEF BeginDelete
<1>5. ASSUME NEW u \in Users, BeginSignIn(c, u)
      PROVE  \E r : Begin(c, r) /\ Started(r)
    BY <1>5 DEF BeginSignIn, Blank
<1>6. \E r : Begin(c, r) /\ Started(r)
    BY <1>2, <1>3, <1>4, <1>5 DEF BeginRequest
<1> QED BY <1>1, <1>6

LEMMA EndShape ==
    ASSUME TypeOK, NEW c \in Callers, End(c)
    PROVE  /\ request'[c].pc = "idle"
           /\ \A d \in Callers \ {c} : request'[d] = request[d]
BY DEF End, Continue, Blank, TypeOK

LEMMA ContinueShape ==
    ASSUME TypeOK, NEW c \in Callers, NEW r, Continue(c, r)
    PROVE  /\ request'[c] = r
           /\ \A d \in Callers \ {c} : request'[d] = request[d]
BY DEF Continue, TypeOK
-----------------------------------------------------------------------------
(* Foreign keys *)

LEMMA RowsFitInit == Init => RowsFit
BY DEF Init, RowsFit

LEMMA RowsFitStep == TypeOK /\ RowsFit /\ [Next]_vars => RowsFit'
<1> SUFFICES ASSUME TypeOK, RowsFit, [Next]_vars PROVE RowsFit'
    OBVIOUS
<1>1. ASSUME UNCHANGED tables
      PROVE  RowsFit'
    BY <1>1 DEF RowsFit, tables, catalogs, access
<1>2. ASSUME NEW c \in Callers, Commit(c)
      PROVE  RowsFit'
    <2> DEFINE k == request[c]
    <2>1. CASE Fits(k)
        <3>1. \A p \in GroupRows(k) : p[2] \in groups
            BY <2>1 DEF Fits, GroupRows, Replaced, RowsFit
        <3>2. \A p \in TenantRows(k) : p[2] \in tenants
            BY <2>1 DEF Fits, TenantRows, Replaced, RowsFit
        <3> QED BY <1>2, <2>1, <3>1, <3>2 DEF Commit, RowsFit, catalogs
    <2> QED BY <1>2, <2>1 DEF Commit, RowsFit, catalogs, access
<1>3. ASSUME NEW c \in Callers, Subscribe(c)
      PROVE  RowsFit'
    BY <1>3 DEF Subscribe, Replaced, RowsFit, catalogs, access
<1>4. ASSUME NEW c \in Callers, Delete(c)
      PROVE  RowsFit'
    BY <1>4 DEF Delete, RowsFit
<1>5. ASSUME NEW c \in Callers, InsertUser(c)
      PROVE  RowsFit'
    BY <1>5 DEF InsertUser, RowsFit, catalogs, access
<1>6. CASE Catalog
    BY <1>6 DEF Catalog, CreateGroup, CreateTenant, EnsureScope, OpenConversation, DeleteConversations,
       RowsFit, catalogs, access
<1>7. CASE Next
    BY <1>1, <1>2, <1>3, <1>4, <1>5, <1>6, <1>7, BeginShape
       DEF Next, Statement, Read, CheckExists, CountDependents, CountConversations, Find, GetUser, StoreFails
<1> QED BY <1>1, <1>7 DEF vars

\* What is new has no dependents.
LEMMA RecreationStep ==
    TypeOK /\ RowsFit /\ [Next]_vars
      => [\A x \in (groups' \cup tenants') \ (groups \cup tenants) : Dependents(x)' = {}]_vars
<1> SUFFICES ASSUME TypeOK, RowsFit, Next,
                    NEW x \in (groups' \cup tenants') \ (groups \cup tenants)
             PROVE  Dependents(x)' = {}
    OBVIOUS
<1>1. UNCHANGED <<access, subscribed, conversations>>
    <2>1. ASSUME NEW c \in Callers, BeginRequest(c)
          PROVE  UNCHANGED <<groups, tenants>>
        BY <2>1, BeginShape DEF tables, catalogs
    <2>2. ASSUME NEW c \in Callers, Statement(c) \/ StoreFails(c)
          PROVE  groups' \subseteq groups /\ tenants' \subseteq tenants
        BY <2>2 DEF Statement, Read, Commit, Subscribe, CheckExists, CountDependents,
           CountConversations, Delete, Find, InsertUser, GetUser, StoreFails, tables, catalogs
    <2>3. \/ \E g \in Groups : CreateGroup(g)
          \/ \E t \in Tenants : CreateTenant(t)
        BY <2>1, <2>2 DEF Next, Catalog, EnsureScope, OpenConversation, DeleteConversations, catalogs
    <2> QED BY <2>3 DEF CreateGroup, CreateTenant, access
<1>2. x \notin groups /\ x \notin tenants
    OBVIOUS
<1>3. /\ \A p \in userGroups' \cup userTenants' : p[2] # x
      /\ \A p \in subscribed' : p[1] # x
      /\ x \notin conversations'
    BY <1>1, <1>2 DEF RowsFit, access
<1> QED BY <1>3 DEF Dependents

\* A group or tenant created under the name of a deleted one has none of its rows.
THEOREM RecreatedEmpty == Spec => RecreatedStartsEmpty
<1>1. Spec => [](TypeOK /\ RowsFit)
    BY TypeInit, TypeStep, RowsFitInit, RowsFitStep, PTL DEF Spec
<1> QED BY <1>1, RecreationStep, PTL DEF Spec, RecreatedStartsEmpty
-----------------------------------------------------------------------------
(* Protected scopes *)

LEMMA ScopesInit == Init => ScopesChecked /\ GrantsFit
BY DEF Init, Blank, ScopesChecked, GrantsFit, At

LEMMA ScopesStep ==
    TypeOK /\ ScopesChecked /\ GrantsFit /\ [Next]_vars
      => ScopesChecked' /\ GrantsFit'
<1> SUFFICES ASSUME TypeOK, ScopesChecked, GrantsFit, [Next]_vars
             PROVE  ScopesChecked' /\ GrantsFit'
    OBVIOUS
\* The catalog of scopes only grows, and never protects what is in it unprotected.
<1>1. scopes \ system \subseteq scopes' \ system'
    <2>1. CASE Next
        <3>1. ASSUME NEW c \in Callers, BeginRequest(c)
              PROVE  UNCHANGED <<scopes, system>>
            BY <3>1, BeginShape DEF tables, catalogs
        <3>2. ASSUME NEW c \in Callers, Statement(c) \/ StoreFails(c)
              PROVE  UNCHANGED <<scopes, system>>
            BY <3>2 DEF Statement, Read, Commit, Subscribe, CheckExists, CountDependents,
               CountConversations, Delete, Find, InsertUser, GetUser, StoreFails, tables, catalogs
        <3>3. CASE Catalog
            BY <3>3 DEF Catalog, CreateGroup, CreateTenant, EnsureScope, OpenConversation,
               DeleteConversations, catalogs
        <3> QED BY <2>1, <3>1, <3>2, <3>3 DEF Next
    <2> QED BY <2>1 DEF vars, tables, catalogs
\* A step that writes no grants and moves no request past its check.
<1>2. ASSUME NEW c \in Callers, userScopes' = userScopes,
             \A d \in Callers \ {c} : request'[d] = request[d],
             request'[c].pc \notin {"read", "commit"}
      PROVE  ScopesChecked' /\ GrantsFit'
    <2>1. GrantsFit'
        BY <1>1, <1>2 DEF GrantsFit
    <2> QED BY <1>1, <1>2, <2>1 DEF ScopesChecked, At
<1>3. ASSUME NEW c \in Callers, BeginRequest(c)
      PROVE  ScopesChecked' /\ GrantsFit'
    <2>1. GrantsFit'
        BY <1>3, BeginShape DEF GrantsFit, tables, catalogs, access
    <2> QED BY <1>1, <1>3, <2>1, BeginShape DEF ScopesChecked, At, Started
<1>4. ASSUME NEW c \in Callers, Read(c)
      PROVE  ScopesChecked' /\ GrantsFit'
    <2> DEFINE k == request[c]
    <2>1. UNCHANGED <<scopes, system, userScopes>>
        BY <1>4 DEF Read, tables, catalogs, access
    <2>2. PICK part \in Due(k) :
            IF Passes(k, part) THEN Continue(c, Reading([k EXCEPT !.todo = @ \ {part}])) ELSE End(c)
        BY <1>4 DEF Read
    <2>3. CASE ~Passes(k, part)
        BY <1>2, <2>1, <2>2, <2>3, EndShape
    <2>4. CASE Passes(k, part)
        <3> DEFINE r == Reading([k EXCEPT !.todo = @ \ {part}])
        <3>1. /\ r.pc = IF k.todo \ {part} = {} THEN "commit" ELSE "read"
              /\ r.todo = k.todo \ {part}
              /\ r.parts = k.parts
              /\ r.want = k.want
            BY DEF Reading, TypeOK, Request
        <3>2. request'[c] = r /\ \A d \in Callers \ {c} : request'[d] = request[d]
            BY <2>2, <2>4, ContinueShape
        <3>3. part = "scopes" => k.want.scopes \subseteq scopes \ system
            BY <2>4 DEF Passes
        <3>4. "scopes" \in k.parts /\ "scopes" \notin k.todo \ {part}
                => k.want.scopes \subseteq scopes \ system
            BY <1>4, <3>3 DEF Read, ScopesChecked, At
        <3> HIDE DEF r
        <3>5. ScopesChecked'
            BY <2>1, <3>1, <3>2, <3>4 DEF ScopesChecked, At
        <3> QED BY <2>1, <3>5 DEF GrantsFit
    <2> QED BY <2>3, <2>4
<1>5. ASSUME NEW c \in Callers, Commit(c)
      PROVE  ScopesChecked' /\ GrantsFit'
    <2> DEFINE k == request[c]
    <2>1. UNCHANGED <<scopes, system>>
        BY <1>5 DEF Commit, catalogs
    <2>2. "scopes" \in k.parts => k.want.scopes \subseteq scopes \ system
        BY <1>5 DEF Commit, ScopesChecked, At
    <2>3. userScopes' \in {ScopeRows(k), userScopes}
        BY <1>5 DEF Commit, access
    <2>4. \A p \in ScopeRows(k) : p[2] \in scopes \ system
        BY <2>2 DEF ScopeRows, Replaced, GrantsFit
    <2>5. GrantsFit'
        BY <2>1, <2>3, <2>4 DEF GrantsFit
    <2>6. request'[c].pc = "idle" /\ \A d \in Callers \ {c} : request'[d] = request[d]
        BY <1>5, EndShape DEF Commit
    <2> QED BY <2>1, <2>5, <2>6 DEF ScopesChecked, At
<1>6. ASSUME NEW c \in Callers, CheckExists(c) \/ CountDependents(c) \/ CountConversations(c)
                                \/ Find(c) \/ InsertUser(c) \/ GetUser(c)
      PROVE  ScopesChecked' /\ GrantsFit'
    <2>1. \E r : Continue(c, r) /\ r.pc \notin {"read", "commit"}
        <3>1. request[c] \in Request
            BY DEF TypeOK
        <3>2. \A r \in Request : \A pc : pc \notin {"read", "commit"}
                => [r EXCEPT !.pc = pc].pc \notin {"read", "commit"}
            BY DEF Request
        <3>3. \A r \in Request : \A id : /\ [r EXCEPT !.pc = "get", !.id = id].pc = "get"
                                         /\ Answer(r, id).pc = "answered"
            BY DEF Request, Answer
        <3>4. End(c) => \E r : Continue(c, r) /\ r.pc \notin {"read", "commit"}
            <4>1. Blank(request[c].user).pc \notin {"read", "commit"}
                BY DEF Blank
            <4> QED BY <4>1 DEF End
        <3>5. CASE CheckExists(c)
            BY <3>1, <3>2, <3>4, <3>5 DEF CheckExists
        <3>6. CASE CountDependents(c)
            BY <3>1, <3>2, <3>4, <3>6 DEF CountDependents
        <3>7. CASE CountConversations(c)
            BY <3>1, <3>2, <3>4, <3>7 DEF CountConversations
        <3>8. CASE Find(c)
            BY <3>1, <3>2, <3>3, <3>8 DEF Find
        <3>9. CASE InsertUser(c)
            BY <3>1, <3>3, <3>9 DEF InsertUser
        <3>10. CASE GetUser(c)
            BY <3>1, <3>3, <3>10 DEF GetUser
        <3> QED BY <1>6, <3>5, <3>6, <3>7, <3>8, <3>9, <3>10
    <2>2. userScopes' = userScopes
        BY <1>6 DEF CheckExists, CountDependents, CountConversations, Find, InsertUser, GetUser, tables, access
    <2> QED BY <1>2, <2>1, <2>2, ContinueShape
<1>7. ASSUME NEW c \in Callers, Subscribe(c) \/ Delete(c) \/ StoreFails(c)
      PROVE  ScopesChecked' /\ GrantsFit'
    BY <1>2, <1>7, EndShape DEF Subscribe, Delete, StoreFails, tables, access
<1>8. CASE Catalog
    <2>1. UNCHANGED <<userScopes, request>>
        BY <1>8 DEF Catalog, CreateGroup, CreateTenant, EnsureScope, OpenConversation, DeleteConversations, access
    <2>2. GrantsFit'
        BY <1>1, <2>1 DEF GrantsFit
    <2> QED BY <1>1, <2>1, <2>2 DEF ScopesChecked, At
<1>9. CASE UNCHANGED vars
    BY <1>9 DEF vars, tables, catalogs, access, ScopesChecked, GrantsFit, At
<1> QED BY <1>3, <1>4, <1>5, <1>6, <1>7, <1>8, <1>9 DEF Next, Statement

\* No interleaving of registrations and replacements gives a user a protected scope.
THEOREM ProtectedScopes == Spec => []SystemScopesUngranted
<1>1. Spec => [](TypeOK /\ ScopesChecked /\ GrantsFit)
    BY TypeInit, TypeStep, ScopesInit, ScopesStep, PTL DEF Spec
<1>2. GrantsFit => SystemScopesUngranted
    BY DEF GrantsFit, SystemScopesUngranted
<1> QED BY <1>1, <1>2, PTL
-----------------------------------------------------------------------------
(* Sign-ins *)

LEMMA IdsInit == Init => IdsFit /\ SignInsAgree
BY DEF Init, Blank, IdsFit, SignInsAgree, At

LEMMA IdsStep == TypeOK /\ IdsFit /\ SignInsAgree /\ [Next]_vars => IdsFit' /\ SignInsAgree'
<1> SUFFICES ASSUME TypeOK, IdsFit, SignInsAgree, [Next]_vars
             PROVE  IdsFit' /\ SignInsAgree'
    OBVIOUS
\* A step that writes no user and answers no sign-in.
<1>1. ASSUME NEW c \in Callers, rowId' = rowId,
             \A d \in Callers \ {c} : request'[d] = request[d],
             request'[c].pc \notin {"get", "answered"}
      PROVE  IdsFit' /\ SignInsAgree'
    BY <1>1 DEF IdsFit, SignInsAgree, At
<1>2. ASSUME NEW c \in Callers, BeginRequest(c)
      PROVE  IdsFit' /\ SignInsAgree'
    BY <1>1, <1>2, BeginShape DEF tables, Started
<1>3. ASSUME NEW c \in Callers, Commit(c) \/ Subscribe(c) \/ Delete(c) \/ StoreFails(c)
      PROVE  IdsFit' /\ SignInsAgree'
    BY <1>1, <1>3, EndShape DEF Commit, Subscribe, Delete, StoreFails, tables
<1>4. ASSUME NEW c \in Callers, Read(c)
      PROVE  IdsFit' /\ SignInsAgree'
    <2> DEFINE k == request[c]
    <2>1. PICK part \in Due(k) :
            IF Passes(k, part) THEN Continue(c, Reading([k EXCEPT !.todo = @ \ {part}])) ELSE End(c)
        BY <1>4 DEF Read
    <2>2. Reading([k EXCEPT !.todo = @ \ {part}]).pc \in {"read", "commit"}
        BY DEF Reading, TypeOK, Request
    <2>3. rowId' = rowId
        BY <1>4 DEF Read, tables
    <2> QED BY <1>1, <2>1, <2>2, <2>3, EndShape, ContinueShape
<1>5. ASSUME NEW c \in Callers, CheckExists(c) \/ CountDependents(c) \/ CountConversations(c)
      PROVE  IdsFit' /\ SignInsAgree'
    <2>1. \E r : Continue(c, r) /\ r.pc \notin {"get", "answered"}
        <3>1. request[c] \in Request
            BY DEF TypeOK
        <3>2. \A r \in Request : \A pc : pc \notin {"get", "answered"}
                => [r EXCEPT !.pc = pc].pc \notin {"get", "answered"}
            BY DEF Request
        <3>3. End(c) => \E r : Continue(c, r) /\ r.pc \notin {"get", "answered"}
            <4>1. Blank(request[c].user).pc \notin {"get", "answered"}
                BY DEF Blank
            <4> QED BY <4>1 DEF End
        <3>4. CASE CheckExists(c)
            BY <3>1, <3>2, <3>3, <3>4 DEF CheckExists
        <3>5. CASE CountDependents(c)
            BY <3>1, <3>2, <3>3, <3>5 DEF CountDependents
        <3>6. CASE CountConversations(c)
            BY <3>1, <3>2, <3>3, <3>6 DEF CountConversations
        <3> QED BY <1>5, <3>4, <3>5, <3>6
    <2>2. rowId' = rowId
        BY <1>5 DEF CheckExists, CountDependents, CountConversations, tables
    <2> QED BY <1>1, <2>1, <2>2, ContinueShape
<1>6. ASSUME NEW c \in Callers, Find(c)
      PROVE  IdsFit' /\ SignInsAgree'
    <2> DEFINE k == request[c]
    <2>1. k \in Request /\ rowId' = rowId
        BY <1>6 DEF Find, TypeOK, tables
    <2>2. CASE ~Exists(k.user)
        <3>1. [k EXCEPT !.pc = "insert"].pc = "insert"
            BY <2>1 DEF Request
        <3> QED BY <1>1, <1>6, <2>1, <2>2, <3>1, ContinueShape DEF Find
    <2>3. CASE Exists(k.user)
        <3> DEFINE r == Answer(k, rowId[k.user])
        <3>1. r.pc = "answered" /\ r.id = rowId[k.user] /\ r.user = k.user
            BY <2>1 DEF Answer, Request
        <3>2. request'[c] = r /\ \A d \in Callers \ {c} : request'[d] = request[d]
            BY <1>6, <2>3, ContinueShape DEF Find
        <3> HIDE DEF r
        <3> QED BY <2>1, <2>3, <3>1, <3>2 DEF IdsFit, SignInsAgree, At, Exists
    <2> QED BY <2>2, <2>3
<1>7. ASSUME NEW c \in Callers, InsertUser(c)
      PROVE  IdsFit' /\ SignInsAgree'
    <2> DEFINE k == request[c]
               r == [k EXCEPT !.pc = "get", !.id = k.user]
    <2>1. k.user \in Users /\ r.pc = "get" /\ r.id = k.user /\ r.user = k.user
        BY DEF TypeOK, Request
    <2>2. request'[c] = r /\ \A d \in Callers \ {c} : request'[d] = request[d]
        BY <1>7, ContinueShape DEF InsertUser
    <2>3. /\ \A u \in Users \ {k.user} : rowId'[u] = rowId[u]
          /\ rowId'[k.user] = IF Exists(k.user) THEN rowId[k.user] ELSE k.user
        BY <1>7, <2>1 DEF InsertUser, TypeOK
    <2>4. \A u \in Users : /\ rowId'[u] \in {u, NoId}
                           /\ rowId[u] # NoId => rowId'[u] = rowId[u]
        BY <2>1, <2>3 DEF IdsFit, Exists
    <2>5. rowId'[k.user] = k.user
        BY <2>1, <2>3 DEF IdsFit, Exists
    <2>6. \A d \in Callers : request[d].user \in Users
        BY DEF TypeOK, Request
    <2>7. \A u \in Users : u # NoId
        BY AuthorizationAssumption
    <2> HIDE DEF r
    <2>8. IdsFit'
        BY <2>1, <2>2, <2>4, <2>5, <2>6, <2>7 DEF IdsFit, At
    <2>9. SignInsAgree'
        BY <2>1, <2>2, <2>4, <2>6 DEF SignInsAgree, At
    <2> QED BY <2>8, <2>9
<1>8. ASSUME NEW c \in Callers, GetUser(c)
      PROVE  IdsFit' /\ SignInsAgree'
    <2> DEFINE k == request[c]
    <2>1. k \in Request /\ k.user \in Users /\ rowId' = rowId
        BY <1>8 DEF GetUser, TypeOK, Request, tables
    <2>2. k.id = k.user /\ rowId[k.user] = k.user /\ k.user # NoId
        BY <1>8, <2>1, AuthorizationAssumption DEF GetUser, IdsFit, At
    <2> DEFINE r == Answer(k, k.id)
    <2>3. r.pc = "answered" /\ r.id = k.id /\ r.user = k.user
        BY <2>1 DEF Answer, Request
    <2>4. request'[c] = r /\ \A d \in Callers \ {c} : request'[d] = request[d]
        BY <1>8, <2>2, ContinueShape DEF GetUser
    <2> HIDE DEF r
    <2> QED BY <2>1, <2>2, <2>3, <2>4 DEF IdsFit, SignInsAgree, At
<1>9. CASE Catalog
    <2>1. UNCHANGED <<rowId, request>>
        BY <1>9 DEF Catalog, CreateGroup, CreateTenant, EnsureScope, OpenConversation, DeleteConversations
    <2> QED BY <2>1 DEF IdsFit, SignInsAgree, At
<1>10. CASE UNCHANGED vars
    BY <1>10 DEF vars, tables, IdsFit, SignInsAgree, At
<1> QED BY <1>2, <1>3, <1>4, <1>5, <1>6, <1>7, <1>8, <1>9, <1>10 DEF Next, Statement

\* First sign-ins of one identity may race: all of them get its one row.
THEOREM SignInsAreAnswered == Spec => []SignInsAgree
<1>1. Spec => [](TypeOK /\ IdsFit /\ SignInsAgree)
    BY TypeInit, TypeStep, IdsInit, IdsStep, PTL DEF Spec
<1> QED BY <1>1, PTL
-----------------------------------------------------------------------------
(* Deletions *)

LEMMA StandInit == Init => CountsStand /\ StandingRowsSurvive
BY DEF Init, Blank, CountsStand, StandingRowsSurvive, At

\* While a request runs, its history only shrinks, and to what depends on its target now.
LEMMA HistoryShrinks ==
    ASSUME TypeOK, [Next]_vars, NEW c \in Callers, ~AtRest(c)
    PROVE  /\ standing'[c] \subseteq standing[c]
           /\ Next => standing'[c] \subseteq Dependents(request[c].target)'
<1>1. CASE Next
    <2>1. standing'[c] = Observed(c)
        BY <1>1 DEF Next
    <2> QED BY <2>1 DEF Observed
<1>2. CASE ~Next
    BY <1>2 DEF vars
<1> QED BY <1>1, <1>2

LEMMA StandStep == TypeOK /\ CountsStand /\ StandingRowsSurvive /\ [Next]_vars
                     => CountsStand' /\ StandingRowsSurvive'
<1> SUFFICES ASSUME TypeOK, CountsStand, StandingRowsSurvive, [Next]_vars
             PROVE  CountsStand' /\ StandingRowsSurvive'
    OBVIOUS
<1> DEFINE Linked(k) == \/ k.op = "deleteGroup" /\ k.target \in Groups
                        \/ k.op = "deleteTenant" /\ k.target \in Tenants
           Kept(d) == /\ request'[d].pc \in {"exists", "count", "conversations", "delete"}
                           => Linked(request'[d])
                      /\ request'[d].pc = "conversations"
                           => standing'[d] \subseteq {"conversation"} \X Tenants
                      /\ request'[d].pc = "delete" => standing'[d] = {}
<1>0. (\A d \in Callers : Kept(d)) => CountsStand' /\ StandingRowsSurvive'
    BY DEF CountsStand, StandingRowsSurvive, At
\* A request that another step leaves where it is.
<1>1. ASSUME NEW d \in Callers, request'[d] = request[d]
      PROVE  Kept(d)
    <2>1. CASE AtRest(d)
        BY <1>1, <2>1 DEF AtRest
    <2>2. CASE ~AtRest(d)
        <3>1. standing'[d] \subseteq standing[d]
            BY <2>2, HistoryShrinks
        <3> QED BY <1>1, <3>1 DEF CountsStand, StandingRowsSurvive, At
    <2> QED BY <2>1, <2>2
<1>2. ASSUME NEW c \in Callers, \A d \in Callers \ {c} : request'[d] = request[d], Kept(c)
      PROVE  CountsStand' /\ StandingRowsSurvive'
    <2>1. ASSUME NEW d \in Callers
          PROVE  Kept(d)
        BY <1>1, <1>2
    <2> HIDE DEF Kept
    <2> QED BY <1>0, <2>1
\* A step that does not leave the request in a deletion.
<1>3. ASSUME NEW c \in Callers, \A d \in Callers \ {c} : request'[d] = request[d],
             request'[c].pc \notin {"exists", "count", "conversations", "delete"}
      PROVE  CountsStand' /\ StandingRowsSurvive'
    BY <1>2, <1>3
<1>4. ASSUME NEW c \in Callers, BeginRequest(c)
      PROVE  CountsStand' /\ StandingRowsSurvive'
    <2>1. Started(request'[c]) /\ \A d \in Callers \ {c} : request'[d] = request[d]
        BY <1>4, BeginShape
    <2>2. Kept(c)
        BY <2>1 DEF Started
    <2> QED BY <1>2, <2>1, <2>2
<1>5. ASSUME NEW c \in Callers, End(c)
      PROVE  CountsStand' /\ StandingRowsSurvive'
    BY <1>3, <1>5, EndShape
<1>6. ASSUME NEW c \in Callers, Read(c)
      PROVE  CountsStand' /\ StandingRowsSurvive'
    <2> DEFINE k == request[c]
    <2>1. PICK part \in Due(k) :
            IF Passes(k, part) THEN Continue(c, Reading([k EXCEPT !.todo = @ \ {part}])) ELSE End(c)
        BY <1>6 DEF Read
    <2>2. Reading([k EXCEPT !.todo = @ \ {part}]).pc \in {"read", "commit"}
        BY DEF Reading, TypeOK, Request
    <2> QED BY <1>3, <1>5, <2>1, <2>2, ContinueShape
\* A deletion that goes on to its next statement.
<1>7. ASSUME NEW c \in Callers, NEW pc \in PCs, Continue(c, [request[c] EXCEPT !.pc = pc])
      PROVE  /\ request'[c].pc = pc
             /\ Linked(request[c]) => Linked(request'[c])
             /\ request'[c].target = request[c].target
             /\ \A d \in Callers \ {c} : request'[d] = request[d]
    <2>1. LET r == [request[c] EXCEPT !.pc = pc]
          IN  r.pc = pc /\ r.op = request[c].op /\ r.target = request[c].target
        BY DEF TypeOK, Request
    <2> QED BY <1>7, <2>1, ContinueShape
<1>8. ASSUME NEW c \in Callers, CheckExists(c)
      PROVE  CountsStand' /\ StandingRowsSurvive'
    <2>1. CASE Continue(c, [request[c] EXCEPT !.pc = "count"])
        <3>1. Linked(request[c])
            BY <1>8 DEF CheckExists, CountsStand, At
        <3>2. request'[c].pc = "count" /\ Linked(request'[c])
              /\ \A d \in Callers \ {c} : request'[d] = request[d]
            BY <1>7, <2>1, <3>1 DEF PCs
        <3>3. Kept(c)
            BY <3>2
        <3> QED BY <1>2, <3>2, <3>3
    <2> QED BY <1>5, <1>8, <2>1 DEF CheckExists
<1>9. ASSUME NEW c \in Callers, CountDependents(c)
      PROVE  CountsStand' /\ StandingRowsSurvive'
    <2> DEFINE x == request[c].target
               pc == IF request[c].op = "deleteTenant" THEN "conversations" ELSE "delete"
    <2>1. CASE Counted(x) = {} /\ Continue(c, [request[c] EXCEPT !.pc = pc])
        <3>1. Linked(request[c])
            BY <1>9 DEF CountDependents, CountsStand, At
        <3>2. request'[c].pc = pc /\ Linked(request'[c])
              /\ \A d \in Callers \ {c} : request'[d] = request[d]
            BY <1>7, <2>1, <3>1 DEF PCs
        <3>3. Dependents(x)' = {<<"conversation", t>> : t \in conversations \cap {x}}
            <4>1. UNCHANGED <<userGroups, userTenants, subscribed, conversations>>
                BY <1>9 DEF CountDependents, tables, access
            <4>2. /\ {q \in userGroups \cup userTenants : q[2] = x} = {}
                  /\ {q \in subscribed : q[1] = x} = {}
                BY <2>1 DEF Counted
            <4>3. request'[c].target = request[c].target
                BY <1>7, <2>1 DEF PCs
            <4> QED BY <4>1, <4>2, <4>3 DEF Dependents
        <3>4. ~AtRest(c) /\ Next
            BY <1>9, <2>1, <3>2 DEF CountDependents, At, AtRest, vars
        <3>5. standing'[c] \subseteq {<<"conversation", t>> : t \in conversations \cap {x}}
            BY <3>3, <3>4, HistoryShrinks
        <3>6. request[c].op # "deleteTenant" => x \notin conversations
            BY <3>1, AuthorizationAssumption DEF TypeOK
        <3>7. standing'[c] \subseteq {"conversation"} \X Tenants
            BY <3>5 DEF TypeOK
        <3>8. request[c].op # "deleteTenant" => standing'[c] = {}
            BY <3>5, <3>6
        <3>9. Kept(c)
            BY <3>2, <3>7, <3>8
        <3> QED BY <1>2, <3>2, <3>9
    <2> QED BY <1>5, <1>9, <2>1 DEF CountDependents
<1>10. ASSUME NEW c \in Callers, CountConversations(c)
       PROVE  CountsStand' /\ StandingRowsSurvive'
    <2> DEFINE x == request[c].target
    <2>1. CASE x \notin conversations /\ Continue(c, [request[c] EXCEPT !.pc = "delete"])
        <3>1. Linked(request[c]) /\ standing[c] \subseteq {"conversation"} \X Tenants
            BY <1>10 DEF CountConversations, CountsStand, At
        <3>2. request'[c].pc = "delete" /\ Linked(request'[c])
              /\ \A d \in Callers \ {c} : request'[d] = request[d]
            BY <1>7, <2>1, <3>1 DEF PCs
        <3>3. \A row \in Dependents(x)' : row[1] # "conversation"
            <4>1. conversations' = conversations
                BY <1>10 DEF CountConversations, tables
            <4>2. request'[c].target = request[c].target
                BY <1>7, <2>1 DEF PCs
            <4> QED BY <2>1, <4>1, <4>2 DEF Dependents
        <3>4. ~AtRest(c) /\ Next
            BY <1>10, <2>1, <3>2 DEF CountConversations, At, AtRest, vars
        <3>5. standing'[c] \subseteq standing[c] /\ standing'[c] \subseteq Dependents(x)'
            BY <3>4, HistoryShrinks
        <3>6. standing'[c] = {}
            BY <3>1, <3>3, <3>5
        <3>7. Kept(c)
            BY <3>2, <3>6
        <3> QED BY <1>2, <3>2, <3>7
    <2> QED BY <1>5, <1>10, <2>1 DEF CountConversations
<1>11. ASSUME NEW c \in Callers, Find(c) \/ InsertUser(c) \/ GetUser(c)
       PROVE  CountsStand' /\ StandingRowsSurvive'
    <2>1. request[c] \in Request
        BY DEF TypeOK
    <2> DEFINE Ok(pc) == pc \in {"get", "insert", "answered"}
    <2>2. /\ \A r \in Request : \A pc : Ok(pc) => Ok([r EXCEPT !.pc = pc].pc)
          /\ \A r \in Request : \A id : Ok([r EXCEPT !.pc = "get", !.id = id].pc) /\ Ok(Answer(r, id).pc)
        BY DEF Request, Answer
    <2>3. \E r : Continue(c, r) /\ r.pc \in {"get", "insert", "answered"}
        <3>1. CASE Find(c)
            <4>1. \/ Continue(c, Answer(request[c], rowId[request[c].user]))
                  \/ Continue(c, [request[c] EXCEPT !.pc = "insert"])
                BY <3>1 DEF Find
            <4> QED BY <2>1, <2>2, <4>1
        <3>2. CASE InsertUser(c)
            <4>1. Continue(c, [request[c] EXCEPT !.pc = "get", !.id = request[c].user])
                BY <3>2 DEF InsertUser
            <4> QED BY <2>1, <2>2, <4>1
        <3>3. CASE GetUser(c)
            BY <2>1, <2>2, <3>3 DEF GetUser
        <3> QED BY <1>11, <3>1, <3>2, <3>3
    <2>4. PICK r : Continue(c, r) /\ r.pc \in {"get", "insert", "answered"}
        BY <2>3
    <2> QED BY <1>3, <2>4, ContinueShape
<1>12. ASSUME NEW c \in Callers, Commit(c) \/ Subscribe(c) \/ Delete(c) \/ StoreFails(c)
       PROVE  CountsStand' /\ StandingRowsSurvive'
    BY <1>5, <1>12 DEF Commit, Subscribe, Delete, StoreFails
<1>13. CASE request' = request
    <2>1. ASSUME NEW d \in Callers
          PROVE  Kept(d)
        BY <1>1, <1>13
    <2> HIDE DEF Kept
    <2> QED BY <1>0, <2>1
<1>14. CASE Catalog
    <2>1. request' = request
        BY <1>14 DEF Catalog, CreateGroup, CreateTenant, EnsureScope, OpenConversation, DeleteConversations
    <2> QED BY <1>13, <2>1
<1>15. CASE UNCHANGED vars
    BY <1>13, <1>15 DEF vars
<1> QED BY <1>4, <1>6, <1>8, <1>9, <1>10, <1>11, <1>12, <1>14, <1>15 DEF Next, Statement

\* A deletion cascades onto no membership, subscription or conversation that stood when
\* it was asked for and ever since.
THEOREM CountsProtect == Spec => []StandingRowsSurvive
<1>1. Spec => [](TypeOK /\ CountsStand /\ StandingRowsSurvive)
    BY TypeInit, TypeStep, StandInit, StandStep, PTL DEF Spec
<1> QED BY <1>1, PTL
=============================================================================
