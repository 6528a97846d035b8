---------------------------- MODULE Authorization ----------------------------
(***************************************************************************)
(* Users, groups, scopes, tenants and the rows between them: the services  *)
(* of src/auth on the tables of migrations 0001, 0003 and 0004, and the    *)
(* operator's "user update" and "tenant create", one D1 statement at a     *)
(* time.  A db.batch and the operator's BEGIN ... COMMIT are one step.     *)
(*                                                                         *)
(* Every request first reads what it needs (names, flags, counts), decides *)
(* and then writes with one statement.  Between the two, groups and        *)
(* tenants may be deleted and created again, scopes registered, and the    *)
(* same user's access replaced.                                            *)
(*                                                                         *)
(* A user is named by its identity (provider and subject).  Names, labels, *)
(* profiles and timestamps are left out, and with them updateGroup,        *)
(* updateTenant and the refresh of a profile; so are is_admin and the      *)
(* scopes of a group, which no decision of this module reads.  The         *)
(* subscriptions of the manifest are registered and are never deleted.     *)
(***************************************************************************)
EXTENDS FiniteSets

CONSTANTS Users, Groups, Tenants, DefaultTenant, Scopes, Subscriptions, Callers,
          NoId,          \* no row id
          Wanted,        \* the assignments that requests ask for
          OperatorParts, \* the options the operator gives: sets of Parts
          Busy,          \* the tenants that are subscribed and converse in
          Faults         \* {"store"} when statements may reject, or {}

Parts == {"groups", "tenants", "scopes"}
Assignment == [groups : SUBSET Groups, tenants : SUBSET Tenants, scopes : SUBSET Scopes]

ASSUME AuthorizationAssumption ==
    /\ DefaultTenant \in Tenants
    /\ Groups \cap Tenants = {}
    /\ Users \cap Callers = {}
    /\ NoId \notin Users \cup Callers
    /\ Wanted \subseteq Assignment
    /\ OperatorParts \subseteq (SUBSET Parts) \ {{}}
    /\ Busy \subseteq Tenants
    /\ Faults \subseteq {"store"}

VARIABLES rowId,         \* rowId[u]: the id of u's row in auth_users, or NoId
          groups,        \* auth_groups
          tenants,       \* auth_tenants
          scopes,        \* auth_scopes
          system,        \* those of them with system = 1
          userGroups,    \* auth_user_groups
          userTenants,   \* auth_user_tenants
          userScopes,    \* auth_user_scopes
          subscribed,    \* auth_tenant_subscriptions
          conversations, \* the tenants with a row in messaging_conversations
          request,       \* activation records
          standing       \* history: the dependents that stood all through a deletion request

catalogs == <<groups, tenants, scopes, system>>
access == <<userGroups, userTenants, userScopes>>
tables == <<rowId, catalogs, access, subscribed, conversations>>
vars == <<tables, request, standing>>

Ids == Users \cup Callers \cup {NoId}
Ops == {"access", "groups", "tenants", "scopes", "operator",
        "subscribe", "deleteGroup", "deleteTenant", "signIn"}
PCs == {"idle", "read", "commit", "exists", "count", "conversations", "delete",
        "find", "insert", "get", "answered"}

Request == [op : Ops, pc : PCs, user : Users,
            parts : SUBSET Parts,            \* what an assignment replaces
            todo : SUBSET (Parts \cup {"user"}), \* what it has not looked up yet
            want : Assignment,
            subs : SUBSET Subscriptions,
            target : Groups \cup Tenants,    \* what it deletes or subscribes
            id : Ids]                        \* the row id a sign-in works with

Nothing == [groups |-> {}, tenants |-> {}, scopes |-> {}]
Blank(u) == [op |-> "signIn", pc |-> "idle", user |-> u, parts |-> {}, todo |-> {},
             want |-> Nothing, subs |-> {}, target |-> DefaultTenant, id |-> NoId]

\* The rows that ON DELETE CASCADE takes along with a group or a tenant.
Dependents(x) ==
    {<<"user", p[1]>> : p \in {q \in userGroups \cup userTenants : q[2] = x}}
    \cup {<<"subscription", p[2]>> : p \in {q \in subscribed : q[1] = x}}
    \cup {<<"conversation", t>> : t \in conversations \cap {x}}

Row == ({"user"} \X Users) \cup ({"subscription"} \X Subscriptions)
       \cup ({"conversation"} \X Tenants)

TypeOK ==
    /\ rowId \in [Users -> Ids]
    /\ groups \subseteq Groups
    /\ tenants \subseteq Tenants
    /\ scopes \subseteq Scopes
    /\ system \subseteq scopes
    /\ userGroups \subseteq Users \X Groups
    /\ userTenants \subseteq Users \X Tenants
    /\ userScopes \subseteq Users \X Scopes
    /\ subscribed \subseteq Tenants \X Subscriptions
    /\ conversations \subseteq Tenants
    /\ request \in [Callers -> Request]
    /\ standing \in [Callers -> SUBSET Row]

\* The migrations create the default tenant and nothing else.
Init ==
    /\ rowId = [u \in Users |-> NoId]
    /\ groups = {}
    /\ tenants = {DefaultTenant}
    /\ scopes = {}
    /\ system = {}
    /\ userGroups = {}
    /\ userTenants = {}
    /\ userScopes = {}
    /\ subscribed = {}
    /\ conversations = {}
    /\ \E u \in Users : request = [c \in Callers |-> Blank(u)]
    /\ standing = [c \in Callers |-> {}]
-----------------------------------------------------------------------------
(* Activation records *)

At(c, pc) == request[c].pc = pc
AtRest(c) == request[c].pc \in {"idle", "answered"}
Continue(c, k) == request' = [request EXCEPT ![c] = k]
End(c) == Continue(c, Blank(request[c].user))
Begin(c, k) == AtRest(c) /\ Continue(c, k) /\ UNCHANGED tables
Exists(u) == rowId[u] # NoId
-----------------------------------------------------------------------------
(* Assignments of a user *)

\* What the five routes replace, and what they look up before they do.
PartsOf(op) == IF op = "access" THEN {Parts}
               ELSE IF op = "operator" THEN OperatorParts
               ELSE {{op}}
LookedUp(op, parts) == CASE op \in {"access", "operator"} -> parts \cup {"user"}
                         [] op = "groups" -> {}
                         [] OTHER -> parts

Reading(k) == [k EXCEPT !.pc = IF k.todo = {} THEN "commit" ELSE "read"]

BeginAssign(c, op, u, want) ==
    /\ op \in {"access", "groups", "tenants", "scopes", "operator"}
    /\ \E parts \in PartsOf(op) :
         Begin(c, Reading([Blank(u) EXCEPT !.op = op, !.parts = parts, !.want = want,
                                           !.todo = LookedUp(op, parts)]))

\* replaceUserAccess starts its SELECTs together and D1 answers them in any order; the
\* operator's command runs them one after the other.
Due(k) ==
    IF k.op # "operator" THEN k.todo
    ELSE IF "user" \in k.todo THEN {"user"}
    ELSE IF "scopes" \in k.todo THEN {"scopes"}
    ELSE IF "groups" \in k.todo THEN {"groups"}
    ELSE k.todo

\* The checks on what was read.
Passes(k, part) ==
    CASE part = "user" -> Exists(k.user)
      [] part = "groups" -> k.want.groups \subseteq groups
      [] part = "tenants" -> k.want.tenants \subseteq tenants
      [] part = "scopes" -> k.want.scopes \subseteq scopes \ system

\* One SELECT.  A check that fails rejects the request.
Read(c) ==
    /\ At(c, "read")
    /\ UNCHANGED tables
    /\ \E part \in Due(request[c]) :
         IF Passes(request[c], part)
         THEN Continue(c, Reading([request[c] EXCEPT !.todo = @ \ {part}]))
         ELSE End(c)

FitsUnreferenced(k) ==
    /\ Exists(k.user)
    /\ "groups" \in k.parts => k.want.groups \subseteq groups
    /\ "scopes" \in k.parts => k.want.scopes \subseteq scopes

\* The foreign keys of the rows an assignment inserts.
Fits(k) ==
    /\ k.want.groups # {} /\ "groups" \in k.parts => Exists(k.user) /\ k.want.groups \subseteq groups
    /\ k.want.tenants # {} /\ "tenants" \in k.parts => Exists(k.user) /\ k.want.tenants \subseteq tenants
    /\ k.want.scopes # {} /\ "scopes" \in k.parts => Exists(k.user) /\ k.want.scopes \subseteq scopes

\* DELETE the user's rows of one relation, then INSERT the wanted ones.
Replaced(rows, u, names) == {r \in rows : r[1] # u} \cup ({u} \X names)

TenantsFromGroups(k) ==
    IF "tenants" \in k.parts THEN Replaced(userTenants, k.user, k.want.groups) ELSE userTenants

TenantRows(k) ==
    IF "tenants" \in k.parts THEN Replaced(userTenants, k.user, k.want.tenants) ELSE userTenants
GroupRows(k) ==
    IF "groups" \in k.parts THEN Replaced(userGroups, k.user, k.want.groups) ELSE userGroups
ScopeRows(k) ==
    IF "scopes" \in k.parts THEN Replaced(userScopes, k.user, k.want.scopes) ELSE userScopes

\* The batch: all of it, or nothing when a foreign key does not fit.
Commit(c) ==
    LET k == request[c]
    IN  /\ At(c, "commit")
        /\ k.op # "subscribe"
        /\ End(c)
        /\ UNCHANGED <<rowId, catalogs, subscribed, conversations>>
        /\ \/ /\ Fits(k)
              /\ userGroups' = GroupRows(k)
              /\ userTenants' = TenantRows(k)
              /\ userScopes' = ScopeRows(k)
           \/ ~Fits(k) /\ UNCHANGED access
-----------------------------------------------------------------------------
(* Subscriptions of a tenant *)

\* replaceTenantSubscriptions: its check passes, for the catalog only grows.
BeginSubscribe(c, t, subs) ==
    Begin(c, [Blank(request[c].user) EXCEPT !.op = "subscribe", !.pc = "commit",
                                            !.target = t, !.subs = subs])

Subscribe(c) ==
    LET k == request[c]
    IN  /\ At(c, "commit")
        /\ k.op = "subscribe"
        /\ End(c)
        /\ UNCHANGED <<rowId, catalogs, access, conversations>>
        /\ subscribed' = IF k.subs = {} \/ k.target \in tenants
                         THEN Replaced(subscribed, k.target, k.subs)
                         ELSE subscribed
-----------------------------------------------------------------------------
(* Deletions *)

\* deleteTenantRow refuses the default tenant before it reads anything.
BeginDelete(c, op, x) ==
    /\ \/ op = "deleteGroup" /\ x \in Groups
       \/ op = "deleteTenant" /\ x \in Tenants \ {DefaultTenant}
    /\ Begin(c, [Blank(request[c].user) EXCEPT !.op = op, !.pc = "exists", !.target = x])

\* SELECT the row: a deletion of what does not exist is answered with false.
CheckExists(c) ==
    /\ At(c, "exists")
    /\ UNCHANGED tables
    /\ IF request[c].target \in groups \cup tenants
       THEN Continue(c, [request[c] EXCEPT !.pc = "count"])
       ELSE End(c)

CountedUsersOnly(x) == {p \in userGroups \cup userTenants : p[2] = x}

\* One SELECT counts the members of a group, or the users and subscriptions of a tenant.
Counted(x) == {p \in userGroups \cup userTenants : p[2] = x} \cup {p \in subscribed : p[1] = x}

CountDependents(c) ==
    LET k == request[c]
    IN  /\ At(c, "count")
        /\ UNCHANGED tables
        /\ IF Counted(k.target) # {} THEN End(c)
           ELSE Continue(c, [k EXCEPT !.pc = IF k.op = "deleteTenant" THEN "conversations"
                                             ELSE "delete"])

CountConversations(c) ==
    /\ At(c, "conversations")
    /\ UNCHANGED tables
    /\ IF request[c].target \in conversations THEN End(c)
       ELSE Continue(c, [request[c] EXCEPT !.pc = "delete"])

\* DELETE, and what ON DELETE CASCADE makes of it.
Delete(c) ==
    LET x == request[c].target
    IN  /\ At(c, "delete")
        /\ End(c)
        /\ groups' = groups \ {x}
        /\ tenants' = tenants \ {x}
        /\ userGroups' = {p \in userGroups : p[2] # x}
        /\ userTenants' = {p \in userTenants : p[2] # x}
        /\ subscribed' = {p \in subscribed : p[1] # x}
        /\ conversations' = conversations \ {x}
        /\ UNCHANGED <<rowId, scopes, system, userScopes>>
-----------------------------------------------------------------------------
(* Sign-in: ensureUser *)

BeginSignIn(c, u) == Begin(c, [Blank(u) EXCEPT !.pc = "find"])

Answer(k, id) == [k EXCEPT !.pc = "answered", !.id = id]

\* findUserByIdentity: a known user is answered with its row.
Find(c) ==
    LET k == request[c]
    IN  /\ At(c, "find")
        /\ UNCHANGED tables
        /\ Continue(c, IF Exists(k.user) THEN Answer(k, rowId[k.user])
                       ELSE [k EXCEPT !.pc = "insert"])

InsertUnderNewId(c) ==
    LET k == request[c]
    IN  /\ At(c, "insert")
        /\ rowId' = [rowId EXCEPT ![k.user] = IF Exists(k.user) THEN @ ELSE c]
        /\ Continue(c, [k EXCEPT !.pc = "get", !.id = c])
        /\ UNCHANGED <<catalogs, access, subscribed, conversations>>

\* INSERT ... ON CONFLICT(provider,subject) DO NOTHING, under an id that is a digest of the
\* identity.
InsertUser(c) ==
    LET k == request[c]
    IN  /\ At(c, "insert")
        /\ rowId' = [rowId EXCEPT ![k.user] = IF Exists(k.user) THEN @ ELSE k.user]
        /\ Continue(c, [k EXCEPT !.pc = "get", !.id = k.user])
        /\ UNCHANGED <<catalogs, access, subscribed, conversations>>

\* getUserRow: SELECT by that id.
GetUser(c) ==
    LET k == request[c]
    IN  /\ At(c, "get")
        /\ UNCHANGED tables
        /\ Continue(c, Answer(k, IF rowId[k.user] = k.id THEN k.id ELSE NoId))
-----------------------------------------------------------------------------
(* Calls of one statement *)

\* insertGroupRow, insertTenantRow and "tenant create": a name that is taken is an error.
CreateGroup(g) ==
    /\ groups' = groups \cup {g}
    /\ UNCHANGED <<rowId, tenants, scopes, system, access, subscribed, conversations, request>>

CreateTenant(t) ==
    /\ tenants' = tenants \cup {t}
    /\ UNCHANGED <<rowId, groups, scopes, system, access, subscribed, conversations, request>>

EnsureScopeOverwrites(s, protected) ==
    /\ scopes' = scopes \cup {s}
    /\ system' = IF protected THEN system \cup {s} ELSE system \ {s}
    /\ UNCHANGED <<rowId, groups, tenants, access, subscribed, conversations, request>>

\* ensureScopes: INSERT ... ON CONFLICT(name) DO NOTHING for each scope in turn.  No
\* statement of a call depends on an earlier one, so a call is any number of these.
EnsureScope(s, protected) ==
    /\ scopes' = scopes \cup {s}
    /\ system' = IF protected /\ s \notin scopes THEN system \cup {s} ELSE system
    /\ UNCHANGED <<rowId, groups, tenants, access, subscribed, conversations, request>>

\* The messaging store opens and deletes conversations of a tenant.
OpenConversation(t) ==
    /\ t \in tenants
    /\ conversations' = conversations \cup {t}
    /\ UNCHANGED <<rowId, catalogs, access, subscribed, request>>

DeleteConversations(t) ==
    /\ conversations' = conversations \ {t}
    /\ UNCHANGED <<rowId, catalogs, access, subscribed, request>>
-----------------------------------------------------------------------------
(* The specification *)

\* A statement rejects and the request with it.  An evicted invocation takes no further
\* step, which Spec allows.
StoreFails(c) ==
    /\ "store" \in Faults
    /\ ~AtRest(c)
    /\ End(c)
    /\ UNCHANGED tables

BeginRequest(c) ==
    \/ \E op \in Ops, u \in Users, want \in Wanted : BeginAssign(c, op, u, want)
    \/ \E t \in Busy, subs \in SUBSET Subscriptions : BeginSubscribe(c, t, subs)
    \/ \E op \in Ops, x \in Groups \cup Tenants : BeginDelete(c, op, x)
    \/ \E u \in Users : BeginSignIn(c, u)

Statement(c) ==
    \/ Read(c)
    \/ Commit(c)
    \/ Subscribe(c)
    \/ CheckExists(c)
    \/ CountDependents(c)
    \/ CountConversations(c)
    \/ Delete(c)
    \/ Find(c)
    \/ InsertUser(c)
    \/ GetUser(c)

Catalog ==
    \/ \E g \in Groups : CreateGroup(g)
    \/ \E t \in Tenants : CreateTenant(t)
    \/ \E t \in Busy : OpenConversation(t) \/ DeleteConversations(t)
    \/ \E s \in Scopes, protected \in BOOLEAN : EnsureScope(s, protected)

\* What depended on the target when a deletion began, and has stood ever since.
Observed(c) ==
    IF request'[c].op \notin {"deleteGroup", "deleteTenant"} THEN {}
    ELSE IF AtRest(c) THEN Dependents(request[c].target)'
    ELSE standing[c] \cap Dependents(request[c].target)'

Next ==
    /\ (\E c \in Callers : BeginRequest(c) \/ Statement(c) \/ StoreFails(c)) \/ Catalog
    /\ standing' = [c \in Callers |-> Observed(c)]

Spec == Init /\ [][Next]_vars
-----------------------------------------------------------------------------
(* Properties *)

\* No user holds a protected scope, however its registration and a replacement that read
\* the catalog earlier interleave: replaceUserAccess, replaceUserGrants, "user update" and
\* the DO NOTHING of ensureScopes.
SystemScopesUngranted == \A p \in userScopes : p[2] \notin system

\* Every sign-in of an identity, also the first ones racing each other, is answered with
\* the one row of that identity: ensureUser and its digest id.
SignInsAgree ==
    \A c \in Callers : At(c, "answered") =>
        /\ request[c].id # NoId
        /\ request[c].id = rowId[request[c].user]

\* A deletion takes no membership, subscription or conversation along that had stood since
\* before the deletion was asked for: the counts of deleteGroupRow and deleteTenantRow.
StandingRowsSurvive == \A c \in Callers : At(c, "delete") => standing[c] = {}

\* A group or tenant created under the name of a deleted one starts without the members,
\* subscriptions and conversations of the old one, although requests that checked the old
\* one are still to write: the cascades and foreign keys of 0003, 0004 and 0007.
RecreatedStartsEmpty ==
    [][\A x \in (groups' \cup tenants') \ (groups \cup tenants) : Dependents(x)' = {}]_vars

\* "other tenants must first have no users, subscriptions, or messaging conversations"
\* (README.md:177): a tenant that is deleted has no dependents.
TenantDeletedEmpty == [][\A t \in tenants \ tenants' : Dependents(t) = {}]_vars
=============================================================================
