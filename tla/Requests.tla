------------------------------ MODULE Requests ------------------------------
(***************************************************************************)
(* A request through the Worker, from src/runtime/worker.ts to the rows    *)
(* its handler reads and writes with the scoped reader of src/data: the    *)
(* domains' initialization (the subscription manifest of                   *)
(* src/auth/subscriptions), the identity, the administrators' boundary,    *)
(* the availability gate, the route's checks, the data context and each    *)
(* statement, while administrators change what everyone may do.            *)
(***************************************************************************)
EXTENDS DataPolicy, Naturals, Sequences, FiniteSets

CONSTANTS Users, Tenants, Scopes, Values,
          Requests, Isolates,
          Environment,       \* isolate -> the names of the bindings and values it has
          RequiredBindings,  \* those every request needs, as createWorker was told
          Domains,           \* the registered domains, with their routes
          BasicAdmin,        \* the user of the http_basic strategy
          PublicTenant,      \* publicTenantId, or NoTenant
          Resources,         \* name -> resource
          InitialRows,       \* name -> its row, or Absent
          Visits,            \* the visits each request may be
          Absent, NoToken,   \* no row or entitlement, no impersonation token
          Manifest,          \* isolate -> the <<entitlement, value>> it lists, in order
          Subscribers,       \* the tenants that have the subscription
          Assignments,       \* the <<user, tenants, scopes>> administrators set
          Initially,         \* those that stand at first
          Administrators,    \* the users whose is_admin operators change
          Disturbances       \* bound on administrators' changes and faults

Columns == {"user_id", "tenant_id", "visibility"}
Default == [user_id |-> Nobody, tenant_id |-> NoTenant, visibility |-> "private"]
Row == [user_id : Users \cup {Nobody}, tenant_id : Tenants \cup {NoTenant},
        visibility : {"private", "public"}]

\* What a handler may hand to an insert or an update.
Changes == {values \in UNION {[C -> UNION {{row[c] : c \in Columns} : row \in Row}] :
                                C \in SUBSET Columns} :
               Over(values, Default) \in Row}

Declared(i) == {Manifest[i][k][1] : k \in DOMAIN Manifest[i]}
Names == UNION {Declared(i) : i \in Isolates}

\* A handler calls the reader, or asks for an entitlement of a tenant.
Calls == [resource : DOMAIN Resources, scope : DATA_SCOPES, op : DATA_OPERATIONS,
          values : Changes]
         \cup [tenant : Tenants, entitlement : Names, accepts : SUBSET Values, op : {"require"}]

\* A visit says which isolate it reaches, what the client sends (the user of its session,
\* basic credentials, X-Tenant-ID, an impersonation token, Origin, Sec-Fetch-Site, whether
\* the method mutates something under /api), the route it matches and what its handler does.
Incoming == [isolate : Isolates, path : {"api", "admin", "health"}, protected : BOOLEAN,
             strategy : {"oauth", "http_basic"}, credentials : BOOLEAN,
             origin : {"none", "same", "other"}, site : {"none", "same-origin", "other"},
             mutates : BOOLEAN, user : Users \cup {Nobody}, tenant : Tenants \cup {NoTenant},
             token : {NoToken} \cup [admin : Users, target : Users],
             route : {r.key : r \in UNION {d.routes : d \in Domains}}, calls : Seq(Calls)]

\* validateDomains: a domain's name and a route's method and path are taken once.
Valid(domains) ==
    \A d, e \in domains :
        /\ d.name = e.name => d = e
        /\ \A r \in d.routes, t \in e.routes : r.key = t.key => d = e /\ r = t

ASSUME RequestsAssumption ==
    /\ Nobody \notin Users /\ NoTenant \notin Tenants
    /\ Absent \notin Row /\ Absent \notin Values
    /\ BasicAdmin \in Users /\ PublicTenant \in Tenants \cup {NoTenant}
    /\ Valid(Domains) /\ Subscribers \subseteq Tenants
    /\ \A n \in DOMAIN Resources :
          /\ Accepted(Resources[n]) /\ Resources[n].columns \subseteq Columns
          /\ Resources[n].owner = "user_id" /\ Resources[n].tenant = "tenant_id"
          /\ Resources[n].publicRead \in {"no", "all", "shown"}
    /\ InitialRows \in [DOMAIN Resources -> Row \cup {Absent}]
    /\ \A i \in Isolates : Manifest[i] \in Seq(Names \X Values)
    /\ \A q \in Requests : Visits[q] # {} /\ Visits[q] \subseteq Incoming
    /\ Assignments \subseteq Users \X (SUBSET Tenants) \X (SUBSET Scopes)
    /\ Initially \subseteq Assignments /\ Administrators \subseteq Users
    /\ Disturbances \in Nat

VARIABLES members, granted, admins,  \* auth_user_tenants, auth_user_scopes, is_admin
          breaker,                   \* state of the site's breaker, or "absent"
          rows,                      \* the one row of each resource
          stored,                    \* auth_subscription_entitlements of one subscription
          registration,              \* manifestPromises of each isolate
          req,                       \* the requests in flight
          stood,                     \* history: what stood since a request arrived
          left                       \* disturbances left

rights == <<members, granted, admins, breaker>>
vars == <<members, granted, admins, breaker, rows, stored, registration, req, stood, left>>

-----------------------------------------------------------------------------
(* Requests                                                                 *)

Anonymous == [user |-> Nobody, tenant |-> NoTenant, publicTenant |-> PublicTenant,
              public |-> PublicTenant # NoTenant, system |-> FALSE, scopes |-> {},
              impersonated |-> FALSE]
\* requestDataContext answers a request without a user with the public tenant.
Public == [Anonymous EXCEPT !.tenant = PublicTenant]

Context == [user : Users \cup {Nobody}, tenant : Tenants \cup {NoTenant},
            publicTenant : Tenants \cup {NoTenant}, public : BOOLEAN, system : BOOLEAN,
            scopes : SUBSET Scopes, impersonated : BOOLEAN]

AllVisits == UNION {Visits[q] : q \in Requests}
SomeVisit == CHOOSE v \in AllVisits : TRUE

Status == {"none", "ok", "401", "403", "500", "503", "lost"}
PC == {"idle", "initialize", "boundary", "gate", "route", "context", "rights", "call",
       "reread", "done"}
Request == [visit : AllVisits, pc : PC, user : Users \cup {Nobody}, system : BOOLEAN,
            ctx : Context, pending : SUBSET {"tenants", "grants"}, made : Nat,
            seen : SUBSET ((DOMAIN Resources) \X Row), status : Status]
Idle == [visit |-> SomeVisit, pc |-> "idle", user |-> Nobody, system |-> FALSE,
         ctx |-> Anonymous, pending |-> {}, made |-> 0, seen |-> {}, status |-> "none"]

Goes(q, pc) == req' = [req EXCEPT ![q].pc = pc]
Answers(q, status) == req' = [req EXCEPT ![q].pc = "done", ![q].status = status]
At(q, pc) == req[q].pc = pc
Visit(q) == req[q].visit

\* What administrators decided, as it stands.
Standing(m, g, a, b) == [members |-> m, granted |-> g, admins |-> a, open |-> b = "on"]
Nothing == Standing({}, {}, {}, "absent")
Join(s, t) == [members |-> s.members \cup t.members, granted |-> s.granted \cup t.granted,
               admins |-> s.admins \cup t.admins, open |-> s.open \/ t.open]
Witness == stood' = [q \in Requests |->
    IF At(q, "idle") THEN stood[q]
    ELSE Join(stood[q], Standing(members', granted', admins', breaker'))]

Fault == left > 0 /\ left' = left - 1
NoFault == UNCHANGED left

-----------------------------------------------------------------------------
(* Initialization: the manifest is written once per isolate                 *)

\* The statements of writeSubscriptionManifest: an upsert per entitlement, then the DELETE
\* of those it does not list.
Unregistered == [state |-> "none", written |-> 0]
Upserted(i) ==
    LET k == registration[i].written + 1 IN
    IF k > Len(Manifest[i])
    THEN [e \in Names |-> IF e \in Declared(i) THEN stored[e] ELSE Absent]
    ELSE [stored EXCEPT ![Manifest[i][k][1]] = Manifest[i][k][2]]

\* assertBoot: the bindings of the application, and what requiredEnvironment of the
\* authentication adds for a path it protects.
OAuthEnvironment == {"OIDC_DISCOVERY_URL", "OIDC_ISSUER", "OIDC_CLIENT_ID", "OIDC_CLIENT_SECRET",
                     "AUTH_SESSION_SECRET"}
Boots(v) == RequiredBindings \cup (IF v.protected THEN OAuthEnvironment ELSE {})
                \subseteq Environment[v.isolate]

\* The first request of an isolate starts the registration, the others await it.
Arrive(q) ==
    /\ At(q, "idle")
    /\ \E v \in Visits[q] :
          /\ Boots(v)
          /\ req' = [req EXCEPT ![q].visit = v, ![q].pc = "initialize"]
          /\ registration' = IF registration[v.isolate].state # "none" THEN registration
                             ELSE [registration EXCEPT ![v.isolate] =
                                      [state |-> "writing", written |-> 0]]
    /\ stood' = [stood EXCEPT ![q] = Standing(members, granted, admins, breaker)]
    /\ UNCHANGED <<rights, rows, stored, left>>

BootFails(q) ==
    /\ At(q, "idle")
    /\ \E v \in Visits[q] :
          /\ ~ Boots(v)
          /\ req' = [req EXCEPT ![q].visit = v, ![q].pc = "done", ![q].status = "500"]
    /\ stood' = [stood EXCEPT ![q] = Standing(members, granted, admins, breaker)]
    /\ UNCHANGED <<rights, rows, stored, registration, left>>

Registered(i) == [state |-> "done", written |-> 0]
\* A plausible mistake: the registration counts as done with its first statement.
Hasty(i) == Registered(i)
Rest(i) == LET written == registration[i].written + 1
           IN  IF written > Len(Manifest[i]) THEN Registered(i)
               ELSE [state |-> "writing", written |-> written]

Register(i) ==
    /\ registration[i].state = "writing"
    /\ stored' = Upserted(i)
    /\ registration' = [registration EXCEPT ![i] = Rest(i)]
    /\ UNCHANGED <<rights, rows, req, stood, left>>

\* A plausible mistake: a rejected promise stays in the cache.
Kept(i) == [state |-> "rejected", written |-> 0]

\* A statement rejects: the promise is dropped, and everyone who awaited it fails.
Dropped(i) == Unregistered
RegisterFails(i) ==
    /\ registration[i].state = "writing" /\ Fault
    /\ registration' = [registration EXCEPT ![i] = Dropped(i)]
    /\ req' = [q \in Requests |->
          IF At(q, "initialize") /\ Visit(q).isolate = i
          THEN [req[q] EXCEPT !.pc = "done", !.status = "500"] ELSE req[q]]
    /\ UNCHANGED <<rights, rows, stored, stood>>

\* The isolate is evicted with whatever it had in flight.
Evict(i) ==
    /\ registration[i].state # "none" /\ Fault
    /\ registration' = [registration EXCEPT ![i] = Unregistered]
    /\ req' = [q \in Requests |->
          IF Visit(q).isolate = i /\ ~ At(q, "idle") /\ ~ At(q, "done")
          THEN [req[q] EXCEPT !.pc = "done", !.status = "lost"] ELSE req[q]]
    /\ UNCHANGED <<rights, rows, stored, stood>>

-----------------------------------------------------------------------------
(* Identity, the administrators' boundary, the gate and the route           *)

OnlyRequest == UNCHANGED <<rights, rows, stored, registration, stood>>

Known(q, user, system, pc) ==
    req' = [req EXCEPT ![q].user = user, ![q].system = system, ![q].pc = pc]

\* provider.getUser: a failure leaves the request anonymous.
Identify(q) ==
    /\ At(q, "initialize") /\ registration[Visit(q).isolate].state = "done"
    /\ \E user \in {Visit(q).user, Nobody} :
          /\ IF user = Visit(q).user THEN NoFault ELSE Fault
          /\ Known(q, user, user \in admins, IF Visit(q).path = "admin" THEN "boundary" ELSE "gate")
    /\ OnlyRequest

\* adminBoundary: who is it, is the mutation from this origin, does the application agree.
IsAuthenticated(q) == req[q].user # Nobody
IsAdmin(q) == req[q].system
BasicUser(q) == Visit(q).credentials
Authenticated(q) == IF Visit(q).strategy = "oauth" THEN IsAuthenticated(q) ELSE BasicUser(q)
AdminUser(q) == IF Visit(q).strategy = "oauth" THEN req[q].user ELSE BasicAdmin
ForeignMutation(q) == Visit(q).mutates /\ Visit(q).origin # "same"

AdminBoundary(q) ==
    /\ At(q, "boundary")
    /\ \/ ~ Authenticated(q) /\ Answers(q, "401") /\ NoFault
       \/ Authenticated(q) /\ ForeignMutation(q) /\ Answers(q, "403") /\ NoFault
       \/ /\ Authenticated(q) /\ ~ ForeignMutation(q) /\ NoFault
          /\ Known(q, AdminUser(q), IsAdmin(q) \/ Visit(q).strategy = "http_basic", "gate")
       \/ /\ Authenticated(q) /\ ~ ForeignMutation(q) /\ Visit(q).strategy = "oauth"
          /\ Answers(q, "403") /\ NoFault        \* options.authorize refuses
       \/ Authenticated(q) /\ ~ ForeignMutation(q) /\ Answers(q, "500") /\ Fault   \* ensureUser
    /\ OnlyRequest

\* The availability feature: only a breaker that was read as "on" lets a request through.
Opens(state) == state = "on"
Gate(q) ==
    /\ At(q, "gate")
    /\ \/ Visit(q).path = "health" /\ Goes(q, "route") /\ NoFault
       \/ Visit(q).path # "health" /\ Opens(breaker) /\ Goes(q, "route") /\ NoFault
       \/ Visit(q).path # "health" /\ ~ Opens(breaker) /\ Answers(q, "503") /\ NoFault
       \/ Visit(q).path # "health" /\ Answers(q, "503") /\ Fault
    /\ OnlyRequest

\* A route says what differs from its domain, a domain what differs from AppDomain's defaults.
DomainDefaults == [auth |-> "user", scopes |-> {}, csrf |-> FALSE, scopeMode |-> "all",
                   authorize |-> FALSE]
DomainRoute(d, r) == Over(r.input, Over(d.options, DomainDefaults))
RouteOf(q) ==
    LET d == CHOOSE d \in Domains : \E r \in d.routes : r.key = Visit(q).route
    IN  DomainRoute(d, CHOOSE r \in d.routes : r.key = Visit(q).route)

\* A mutation shows an Origin of its own; a browser's Sec-Fetch-Site must not contradict it.
SameOrigin(q) == Visit(q).origin = "same" /\ Visit(q).site \in {"none", "same-origin"}
HasScope(q, s) == IsAdmin(q) \/ <<req[q].user, s>> \in granted

\* createRouteRouter: authentication, then one statement for each of the route's scopes.
Admits(q) ==
    LET route == RouteOf(q) IN
    IF route.auth = "user" /\ ~ IsAuthenticated(q) THEN "401"
    ELSE IF \/ route.auth = "admin" /\ ~ IsAdmin(q)
            \/ route.csrf /\ ~ SameOrigin(q)
            \/ route.scopeMode = "all" /\ \E s \in route.scopes : ~ HasScope(q, s)
            \/ route.scopeMode = "any" /\ route.scopes # {} /\ \A s \in route.scopes : ~ HasScope(q, s)
         THEN "403"
    ELSE "ok"

\* The handler's calls in turn; the reader's first reads the data context before its own
\* statement.
Requires(call) == call.op = "require"
Turn(q, made) ==
    LET calls == Visit(q).calls IN
    IF made = Len(calls) THEN "done"
    ELSE IF ~ Requires(calls[made + 1]) /\ \A k \in 1..made : Requires(calls[k]) THEN "context"
    ELSE "call"
Proceeds(q, made, found) ==
    req' = [req EXCEPT ![q].made = made, ![q].seen = @ \cup found, ![q].pc = Turn(q, made),
                       ![q].status = IF Turn(q, made) = "done" THEN "ok" ELSE "none"]

Route(q) ==
    /\ At(q, "route")
    /\ \/ Admits(q) = "ok" /\ Proceeds(q, 0, {}) /\ NoFault
       \/ Admits(q) = "ok" /\ RouteOf(q).authorize /\ Answers(q, "403") /\ NoFault
       \/ Admits(q) # "ok" /\ Answers(q, Admits(q)) /\ NoFault
       \/ RouteOf(q).scopes # {} /\ ~ IsAdmin(q) /\ Answers(q, "500") /\ Fault
    /\ OnlyRequest

-----------------------------------------------------------------------------
(* requestDataContext, memoized by the first call of the handler            *)

Token(q) == Visit(q).token

\* A plausible mistake: the administrator stays one while impersonating.
SystemTarget(q) ==
    [Anonymous EXCEPT !.user = Token(q).target, !.public = FALSE, !.impersonated = TRUE,
                      !.system = TRUE]

\* Administrators only: the context becomes the target's, and never the system's.
Impersonated(q) ==
    [Anonymous EXCEPT !.user = Token(q).target, !.public = FALSE, !.impersonated = TRUE]
Own(q) ==
    [Anonymous EXCEPT !.user = req[q].user, !.public = FALSE, !.system = req[q].system]

ContextIs(q, ctx, pending, pc) ==
    req' = [req EXCEPT ![q].ctx = ctx, ![q].pending = pending, ![q].pc = pc]

ContextStarts(q) ==
    /\ At(q, "context")
    /\ \/ ~ IsAuthenticated(q) /\ ContextIs(q, Public, {}, "call") /\ NoFault
       \/ \* no token, no administrator, or a token that has expired
          /\ IsAuthenticated(q) /\ ContextIs(q, Own(q), {"tenants", "grants"}, "rights")
          /\ IF Token(q) = NoToken \/ ~ IsAdmin(q) THEN NoFault ELSE Fault
       \/ /\ Token(q) # NoToken /\ IsAdmin(q) /\ Token(q).admin = req[q].user
          /\ ContextIs(q, Impersonated(q), {"tenants", "grants"}, "rights") /\ NoFault
       \/ /\ Token(q) # NoToken /\ IsAdmin(q) /\ Token(q).admin # req[q].user
          /\ Answers(q, "500") /\ NoFault
    /\ OnlyRequest

\* A plausible mistake: the header is trusted.
Trusted(requested, tenants) == requested

\* The active tenant: the requested one if the user is its member, else the only one.
Active(requested, tenants) ==
    IF requested # NoTenant THEN IF requested \in tenants THEN requested ELSE NoTenant
    ELSE IF \E t \in Tenants : tenants = {t} THEN CHOOSE t \in Tenants : tenants = {t}
    ELSE NoTenant

\* listUserTenants and listUserGrants run in parallel, in either order.
ContextReads(q, what, ctx) ==
    /\ At(q, "rights") /\ what \in req[q].pending
    /\ ContextIs(q, ctx, req[q].pending \ {what},
                 IF req[q].pending = {what} THEN "call" ELSE "rights")
    /\ OnlyRequest /\ NoFault

ReadTenants(q) ==
    LET tenants == {t \in Tenants : <<req[q].ctx.user, t>> \in members}
    IN  ContextReads(q, "tenants",
                     [req[q].ctx EXCEPT !.tenant = Active(Visit(q).tenant, tenants)])
ReadGrants(q) ==
    LET scopes == {s \in Scopes : <<req[q].ctx.user, s>> \in granted}
    IN  ContextReads(q, "grants", [req[q].ctx EXCEPT !.scopes = scopes])

\* One rejection rejects the memoized context.
ContextFails(q) ==
    /\ At(q, "rights") /\ Answers(q, "500") /\ Fault
    /\ OnlyRequest

-----------------------------------------------------------------------------
(* The handler's calls                                                      *)

Call(q) == Visit(q).calls[req[q].made + 1]
Resource(q) == Resources[Call(q).resource]
Current(q) == rows[Call(q).resource]
Permitted(q, op) == Allowed(Resource(q), Call(q).scope, req[q].ctx, op)
Reached(q, row) == row # Absent /\ InScope(Resource(q), Call(q).scope, req[q].ctx, row)
Cleaned(q) == DOMAIN Clean(Resource(q), Call(q).scope, Call(q).values)

\* A plausible mistake: a row that is gone is answered as null.
FoundNull(q, row) ==
    IF Permitted(q, "read") THEN {<<Call(q).resource, row>>} ELSE {}

\* readPage answers nothing when the read is not allowed.
Found(q, row) ==
    IF Permitted(q, "read") /\ Reached(q, row) THEN {<<Call(q).resource, row>>} ELSE {}

Completed(q, found) == Proceeds(q, req[q].made + 1, found)

\* requireEntitlement, of the tenant the handler names: a SubscriptionError answers 403.
HasEntitlement(call) == call.tenant \in Subscribers /\ stored[call.entitlement] \in call.accepts
Require(q) ==
    /\ At(q, "call") /\ Requires(Call(q))
    /\ IF HasEntitlement(Call(q)) THEN Completed(q, {}) ELSE Answers(q, "403")
    /\ OnlyRequest /\ NoFault

Read(q) ==
    /\ At(q, "call") /\ Call(q).op = "read"
    /\ Completed(q, Found(q, Current(q)))
    /\ OnlyRequest /\ NoFault

\* assertWritable and assertColumnScopes: writes fail closed.
Writes(call) == call.op \in {"create", "update", "delete"}
Refused(q) ==
    \/ ~ Permitted(q, Call(q).op)
    \/ ~ ColumnsAllowed(Resource(q), req[q].ctx, Cleaned(q))

Refuse(q) ==
    /\ At(q, "call") /\ Writes(Call(q)) /\ Refused(q)
    /\ Answers(q, "403")
    /\ OnlyRequest /\ NoFault

Stores(q) ==
    CASE Call(q).op = "create" ->
            Inserted(Resource(q), Call(q).scope, req[q].ctx, Call(q).values, Default)
      [] Call(q).op = "update" -> Updated(Resource(q), Call(q).scope, Call(q).values, Current(q))
      [] Call(q).op = "delete" -> Absent

\* Columns to write are left, or the call throws.
Something(q) ==
    \/ Call(q).op = "delete"
    \/ Cleaned(q) # {}
    \/ Call(q).op = "create" /\ Call(q).scope \in {"user", "tenant"}

\* An INSERT of an id that is taken rejects; UPDATE and DELETE spare what is out of scope.
Write(q) ==
    /\ At(q, "call") /\ Writes(Call(q)) /\ ~ Refused(q)
    /\ LET hits == /\ Something(q)
                   /\ IF Call(q).op = "create" THEN Current(q) = Absent ELSE Reached(q, Current(q))
       IN  /\ rows' = IF hits THEN [rows EXCEPT ![Call(q).resource] = Stores(q)] ELSE rows
           /\ IF ~ Something(q) \/ (Call(q).op = "create" /\ ~ hits) THEN Answers(q, "500")
              ELSE IF Call(q).op = "delete" THEN Completed(q, {}) ELSE Goes(q, "reread")
    /\ UNCHANGED <<rights, stored, registration, stood>> /\ NoFault

\* insert and update answer with the row as it is read again, an insert that finds none
\* with what it wrote.
Reread(q) ==
    /\ At(q, "reread")
    /\ Completed(q, Found(q, Current(q)))
    /\ OnlyRequest /\ NoFault

CallFails(q) ==
    /\ \/ At(q, "call") /\ (~ Requires(Call(q)) => ~ Refused(q))
       \/ At(q, "reread")
    /\ Answers(q, "500") /\ Fault
    /\ OnlyRequest

RequestStep(q) ==
    \/ Identify(q) \/ AdminBoundary(q) \/ Gate(q) \/ Route(q)
    \/ ContextStarts(q) \/ ReadTenants(q) \/ ReadGrants(q) \/ ContextFails(q)
    \/ Require(q) \/ Read(q) \/ Refuse(q) \/ Write(q) \/ Reread(q) \/ CallFails(q)

-----------------------------------------------------------------------------
(* Administrators, operators and breakers                                   *)

\* replaceUserAccess: one batch replaces a user's tenants and scopes.
Assign(u, tenants, scopes) ==
    /\ members' = {m \in members : m[1] # u} \cup ({u} \X tenants)
    /\ granted' = {g \in granted : g[1] # u} \cup ({u} \X scopes)
    /\ UNCHANGED <<admins, breaker, rows, stored, registration, req>> /\ Fault
    /\ Witness

\* The operator's "user update" sets is_admin.
SetAdmin(u) ==
    /\ admins' = IF u \in admins THEN admins \ {u} ELSE admins \cup {u}
    /\ UNCHANGED <<members, granted, breaker, rows, stored, registration, req>> /\ Fault
    /\ Witness

SetBreaker ==
    /\ breaker' \in {"on", "tripped"} \ {breaker}
    /\ UNCHANGED <<members, granted, admins, rows, stored, registration, req>> /\ Fault
    /\ Witness

Init ==
    /\ members = UNION {{a[1]} \X a[2] : a \in Initially}
    /\ granted = UNION {{a[1]} \X a[3] : a \in Initially}
    /\ admins = Administrators
    /\ breaker \in {"absent", "on"}
    /\ rows = InitialRows
    /\ stored = [e \in Names |-> Absent]
    /\ registration = [i \in Isolates |-> Unregistered]
    /\ req = [q \in Requests |-> Idle]
    /\ stood = [q \in Requests |-> Nothing]
    /\ left = Disturbances

Next ==
    \/ \E q \in Requests : Arrive(q) \/ BootFails(q) \/ RequestStep(q)
    \/ \E i \in Isolates : Register(i) \/ RegisterFails(i) \/ Evict(i)
    \/ \E a \in Assignments : Assign(a[1], a[2], a[3])
    \/ \E u \in Administrators : SetAdmin(u)
    \/ SetBreaker

Spec == Init /\ [][Next]_vars

\* A request goes on when what it awaited is done, a registration takes its statements.
FairSpec ==
    /\ Spec
    /\ \A q \in Requests : WF_vars(Identify(q))
    /\ \A i \in Isolates : WF_vars(Register(i))

-----------------------------------------------------------------------------
(* Properties                                                               *)

\* Every variable keeps its shape (the type invariant).
TypeOK ==
    /\ members \subseteq Users \X Tenants /\ granted \subseteq Users \X Scopes
    /\ admins \subseteq Users /\ breaker \in {"absent", "on", "tripped"}
    /\ rows \in [DOMAIN Resources -> Row \cup {Absent}]
    /\ stored \in [Names -> Values \cup {Absent}]
    /\ registration \in [Isolates -> [state : {"none", "writing", "done"}, written : Nat]]
    /\ req \in [Requests -> Request]
    /\ stood \in [Requests -> [members : SUBSET (Users \X Tenants), granted : SUBSET (Users \X Scopes),
                               admins : SUBSET Users, open : BOOLEAN]]
    /\ left \in 0..Disturbances

\* Whoever the request could show to be an administrator while it ran.
WasAdmin(q) ==
    \/ Visit(q).user # Nobody /\ Visit(q).user \in stood[q].admins
    \/ Visit(q).path = "admin" /\ Visit(q).strategy = "http_basic" /\ Visit(q).credentials

\* The users it may speak for: its own, or the target of an administrator's own token.
Self(q) == IF Visit(q).path = "admin" /\ Visit(q).strategy = "http_basic"
           THEN {BasicAdmin, Visit(q).user} ELSE {Visit(q).user}
Speakers(q) ==
    (Self(q) \cup (IF Token(q) # NoToken /\ WasAdmin(q) /\ Token(q).admin \in Self(q)
                   THEN {Token(q).target} ELSE {})) \ {Nobody}

Entitled(q, resource, row) ==
    /\ stood[q].open \/ Visit(q).path = "health"
    /\ \/ resource.scope = "user" /\ row.user_id \in Speakers(q)
       \/ resource.scope = "tenant" /\ \E u \in Speakers(q) : <<u, row.tenant_id>> \in stood[q].members
       \/ /\ PublicTenant # NoTenant /\ row.tenant_id = PublicTenant
          /\ \/ resource.scope = "public"
             \/ /\ resource.scope = "tenant"
                /\ \/ resource.publicRead = "all"
                   \/ resource.publicRead = "shown" /\ row.visibility = "public"
       \/ WasAdmin(q) /\ ~ req[q].ctx.impersonated

\* A response never holds a row that nobody the request spoke for could have been shown
\* at any moment since the request arrived: own rows, those of a tenant they were members
\* of, public ones, or any while an administrator who does not impersonate.  The session,
\* the administrator flag, the token, the tenants, the gate and the row are each read in
\* a step of their own (src/runtime/worker.ts, src/data/context.ts, src/data/reader.ts).
AnswersAreEntitled ==
    \A q \in Requests : \A found \in req[q].seen : Entitled(q, Resources[found[1]], found[2])

\* A row is written only by a request that was entitled to it as it was and as it became,
\* with the scopes the operation needs, all of which stood while the request ran, and its
\* owner and tenant change only in an administrator's hands.
WriteIsEntitled ==
    \A n \in DOMAIN Resources : rows'[n] # rows[n] =>
        \E q \in Requests :
            LET r == Resources[n] IN
            /\ req'[q] # req[q] /\ Visit(q).calls # <<>> /\ Call(q).resource = n
            /\ rows[n] # Absent => Entitled(q, r, rows[n])
            /\ rows'[n] # Absent => Entitled(q, r, rows'[n])
            /\ \/ WasAdmin(q) /\ ~ req[q].ctx.impersonated
               \/ /\ \E u \in Speakers(q) : \A s \in Needs(r, Call(q).op) : <<u, s>> \in stood[q].granted
                  /\ Absent \notin {rows[n], rows'[n]} =>
                        /\ rows'[n].user_id = rows[n].user_id
                        /\ rows'[n].tenant_id = rows[n].tenant_id
WritesAreEntitled == [][WriteIsEntitled]_vars

\* Whatever deployments write their manifests at the same time, evictions and failures
\* included, a request that is past initialization finds every entitlement that all
\* deployments declare (src/auth/subscriptions/d1.ts writes statement by statement).
Common == {e \in Names : \A i \in Isolates : e \in Declared(i)}
ServedWithManifest ==
    \A q \in Requests : req[q].pc \notin {"idle", "initialize", "done"} =>
        \A e \in Common : stored[e] # Absent

\* A registration that failed fails no later request: when the faults are over, whoever
\* waits for initialization gets past it (src/auth/subscriptions/service.ts:88).
Recovers ==
    \A q \in Requests : (left = 0 /\ At(q, "initialize")) ~> ~ (req[q].pc \in {"initialize", "done"})
=============================================================================
