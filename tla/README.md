# TLA+ specifications of cf-genai-base

cf-genai-base is a library from which applications on Cloudflare Workers are built.
Its state is in one D1 (SQLite) database, in a few promises of a warm isolate, and in
the browser. There are no transactions that span `await`s: every function of the
library is a sequence of D1 statements, and between any two of them any other request,
Workflow step, queue consumer or scheduled handler may run. Most of what is hard to
test in this code lives between two such statements, so every model here takes one D1
statement (or one `db.batch`, which D1 runs as a transaction) as its atomic step.

Paths below are relative to the repository's root.

## 1. Inventory

| component | state | operations | modelled |
|---|---|---|---|
| durable jobs, `src/core/jobs` | rows of `core_jobs`, `core_job_events` | createJob, dispatchJob, executeJob, runJob, startJob, updateJobProgress, completeJob, failJob, cancelJob, the cancel route | `Jobs` |
| healthchecks and circuit breakers, `src/core/healthchecks`, `src/core/circuits`, `src/runtime/features.ts` | `core_healthchecks`, `core_circuit_breakers` and its two relation tables; `featureRegistrationPromises` of an isolate | registration of manifests, setting a health or a breaker state, evaluation, scheduled refresh | `Circuits` |
| messaging, `src/features/messaging` | conversations, participants, messages | getOrCreate, create, add and remove participants, append, read, delete | `Messaging` |
| reply jobs, `src/features/messaging/jobs.ts` | none of its own | executeReplyJob: executeJob whose callback appends a message | `Replies` |
| LLM client, `src/features/llm` | its healthcheck and breaker | listModels, generate, generateMulti, generateJob | listModels in `Circuits`, the others in `Replies` |
| availability gate, `src/core/circuits/availability.ts` | none | one breaker read per request | `Requests`; `Replies` |
| live events, `src/core/events`, `src/ui/react/live-events.tsx`, `jobs.tsx` | sockets of a Durable Object per room; React state | emit, publish, connect, reconnect, reload | `LiveEvents` |
| users, groups, scopes, `src/auth/users`, `groups`, `scopes` | users, memberships, grants | sign in; replace access, groups, grants; create and delete groups; register scopes | `Authorization` |
| tenants, `src/auth/tenants` | tenants, memberships | create, replace memberships, delete a tenant | `Authorization` |
| subscriptions, `src/auth/subscriptions` | subscriptions, entitlements, assignments | replace assignments; write the manifest | assignments in `Authorization`, the manifest in `Requests` |
| impersonation and sessions, `src/auth/impersonation`, `oauth-single` | cookies; the provider's documents and the promises that load them | login, callback, logout; impersonate | `SignIn`; impersonation in `Requests` |
| scoped data reader, `src/data`, `src/repository.ts` | none of its own | list, get, insert, update, delete under a policy | `DataPolicy`, `Requests` |
| database wrapper and audit, `src/core/database` | none | logs a statement and runs it | no |
| worker runtime and router, `src/runtime`, `src/api`, `src/domain` | none of its own | request pipeline, background registration, schedule | the pipeline in `Requests`, the background in `Circuits` |
| admin, `src/admin` | none | the boundary before its routes | `Requests` |
| command line, `src/cli` | the clone, origin, npm; D1 through wrangler | release and publish; the operator's writes | `Release`; `Circuits`, `Authorization` |
| user interface, `src/ui` | React state | jobs hooks; rendering | the hooks, in `LiveEvents` |
| validation helpers, `src/core/security`, `src/input.ts` | none | the origin of a mutation; bodies and headers | the origin, in `Requests` |
| build, example | | | no |

How they interact. The **worker** starts registration beside each request
(`waitUntil`) and awaits a refresh on its schedule; both write **healthchecks** and
evaluate **breakers**, which **administrators** and the **operator's** command line
write too. A **feature** dispatches a **job**: the row is stored first, then a
Workflow instance is started with its id, and the Workflow's step calls `executeJob`,
once or, when the engine retries, more often. Every change of a job stores an event
row and calls the event handlers of all features and the **live event** rooms, whose
React hooks answer by reloading. A **reply job** appends to a **conversation**, whose
participants and messages hang on its row by foreign keys and by triggers for their
tenant. The **tenant** of a request is one of the user's memberships, which
administrators replace at any time.

What is hard in each of them, and what makes it correct:

* *jobs*: two executors race for one row; a cancel, a completion and a progress report
  are decided from a row read earlier; a dispatch fails after the row exists; an event
  handler throws between the change and its answer; an invocation is evicted. Correct
  when a row is claimed at most once, a settled row stays settled, an execution that
  reports success is recorded as succeeded, and an execution settles its row whatever
  throws.
* *circuits*: evaluations of several invocations race with one another and with
  humans; registration is not atomic, so an evaluation sees breakers without relations
  or without measured checks; a failed registration must not stay cached. Correct when
  automation keeps to its policy, trips only for a cause, and brings the breakers into
  agreement with the world once it is quiet.
* *messaging*: access is checked on a row loaded earlier, which may be deleted, or
  deleted and created again by someone else, before the write. Correct when no row
  loses its conversation and only members speak and read, and only creators manage.
* *reply jobs and generations*: several awaits run between a claim and its completion,
  and any of them may throw, while others cancel the job or deliver it again. Correct
  when the provider is asked and the reply appended once, and the row says what happened.
* *live events*: an event is lost when the hub rejects it, when no socket is attached or
  when a connection breaks; reads overtake one another. Correct when a list on a sound
  connection shows what is stored, and catches up when the connection is back.
* *users, groups, scopes and tenants*: names are looked up, flags read and dependents
  counted in one statement, and the write that relies on them is another; first
  sign-ins race. Correct when no user gets a protected scope, one identity has one row,
  a deletion spares what it could have counted, and a name that is used again inherits
  nothing.
* *sign-in*: the tabs of a browser share the cookie of the flow in progress; the requests
  of an isolate share the provider's documents, their caches and the promises that load
  them; the provider rotates its key. Correct when each tab lands where it started, and
  no failure outlives its cause.
* *requests and the data policy*: the session, the administrator flag, the token, the
  tenants, the scopes, the breaker and the row are each read in a step of their own,
  while administrators change them, and the handler acts on the mixture. Correct when
  everything a request shows and writes was its right at some moment of its life.
* *subscriptions*: a manifest written statement by statement, by each isolate of each
  deployment. Correct when no request is served before what all of them declare is there.
* *releases*: git and npm processes, one after the other, any of which may fail or be the
  last, beside other maintainers. Correct when a tag names the commit with its version on
  main, npm has what the tag names, and an interrupted release does not block the next.

`PROJECT.json` lists every hazard at its line, with the properties that cover it.

## 2. Modules

* `JobLifecycle`: what a job row promises, in three actions (create, claim, settle).
* `Jobs`: the calls of `src/core/jobs`, which implement it. `MCJobs`; `JobsProofs`, which
  proves about `Replies` too, as its proofs rest on the same invariant.
* `Circuits`: registration, evaluation and human control. `CircuitsProofs`, `MCCircuits`.
* `Replies`: what the executors of messaging and of the LLM client do inside `Jobs`, whose
  callback it refines. `JobsProofs`, `MCReplies`.
* `Messaging`: the conversation store. `MessagingProofs`, `MCMessaging`.
* `Authorization`: the rows of users, groups, scopes, tenants and assigned
  subscriptions. `AuthorizationProofs`, `MCAuthorization`.
* `DataPolicy`: the decisions of the scoped data reader, as operators.
* `Requests`: one request from the worker to its last statement, over `DataPolicy`.
  `RequestsProofs`, `MCRequests`.
* `SignIn`: the OpenID flow of several tabs. `SignInProofs`, `MCSignIn`.
* `LiveEvents`: from a committed change to the page. `LiveEventsProofs`, `MCLiveEvents`.
* `Release`: the release commands and the publishing workflow. `ReleaseProofs`, `MCRelease`.

An operator that only a deliberately broken variant of a definition uses
(`ClaimAnyRow`, `NeverHeals`, `MayTripByHand`, `PermittedToMembers`, ...) stands directly before that
definition. Exchanging the two must make a run fail, which shows that the property can
see the code it is about; no specification uses them.

### Jobs

`call[c]` is the activation record of one invocation: the exported function it runs,
the statement it executes next (`pc`), the patch in progress and the status of the row
it read last (`seen`). `status` is the column, `recorded` the types of the event rows,
`instances` the Workflow instances. `claimed` and `due` are history: the calls whose
claim changed the row, and the event types the committed changes call for.

| in the code | in the model |
|---|---|
| `createJob` = insertJobRow, publishJobEvent | `Insert`, `Publish` |
| `claimJobRow`: UPDATE ... WHERE status='queued', SELECT | `Claim`, `Reread` |
| `updateJob`: getJob, updateJobRow's checks | `Read`, `KeepsRow` |
| its UPDATE ... WHERE status IN (seen) and the SELECT | `Write`, `Reread` |
| `publishJobEvent`: INSERT the event, await the handlers | `EventType`, `Publish` |
| `dispatchJob` | `BeginDispatch`, `DispatchCreated`, `Launch`, `LaunchFails` |
| `executeJob`, `runJob` | `BeginExecute`, `BeginRun`, `EnterCallback`, `Report`, `CallbackReturns`, `CallbackThrows`, `ExecutionSucceeds`, `ExecutionLost`, `ExecutionThrows`, `Rethrow` |
| the cancel route | `BeginCancel`, `CancelOwned` |
| startJob, updateJobProgress, completeJob, failJob on their own | `BeginDirect` |
| a statement rejects; an invocation is evicted | `StoreFails`, `Crash` |

A write whose answer was lost is the write followed by `StoreFails` at the next
statement. A handler that throws does so after the event row is stored, as in
`publishJobEvent`. A Workflow may have been started although `workflow.create`
rejected.

### Circuits

`call[c]` runs through a manifest (`todo`) and `task[c][b]` is the evaluation or write
that `c` has in flight for breaker `b`, since `Promise.all` runs them in parallel.
`world` is what a probe would measure now; `cached` is the promise an isolate keeps;
`alarmed` and `settled` are history and environment: whether anything was ever red or
tripped by an operator, and whether the outside world and the administrators have
become quiet. `overtaken` is history too: the automated writes about to be made whose
breaker somebody else has written since they read it.

| in the code | in the model |
|---|---|
| `ensureFeatureManifests`, `refreshFeatureManifests` | `BeginEnsure`, `BeginRefresh`, `Finish`, `Throw` |
| `saveHealthcheck`, `saveCircuitBreaker` (upsert, then the batch of relations) | `RegisterCheck`, `RegisterBreaker`, `RegisterRelations` |
| `updateHealthcheck`, `setHealthcheck` route | `BeginPut`, `List` |
| `setCircuitBreaker`: read, check, write | `ReadCurrent`, `MayMove`, `WriteState` |
| `evaluateCircuitBreaker` | `ReadBreaker`, `ReadHealthcheckStates`, `ReadDependencyStates`, `Decide` |
| a write that lands between another call's read and its write | `Overtakes` |
| the breaker route; the command line's writes | `BeginSet`; `BeginOperatorSet`, `OperatorSetsHealth` |
| the LLM client's `listModels` | `BeginModels` |

An evaluation reads the states of its checks and of its dependencies in two steps, in
either order. A breaker with a missing check or dependency cannot store its relations
(foreign keys), which rejects the batch. All registrations register one `Manifest`:
workers of different versions on one database are not modelled.

### Messaging

`conversation[x]` is the row of context `x` with its id and creator; ids come from
AUTOINCREMENT and are never used twice. `call[c]` is again an activation record: a
load and its access check (`pc` "load", "hydrate") are made for one of five purposes
(`stage`). `member` is history: who was ever creator or participant of the row with
that id. It never shrinks, so `OnlyMembersSpeak` and `OnlyMembersRead` exclude who never
belonged to a conversation, and not who had left it before the call: the code promises the
latter only up to the access check. A caller makes any number of calls, one after the other. An evicted
invocation is a caller that takes no further step, which the specification allows
because it assumes no fairness.

`EarlyIds` says whether a call may name an id no one was given yet. The main run takes
FALSE, what a client does that uses the ids it was answered; `MCMessaging_early.cfg`
takes TRUE, since the routes accept any number (section 6).

### Authorization

`rowId` is the table of users by identity; `groups`, `tenants`, `scopes` and `system`
are the catalogs, `userGroups`, `userTenants`, `userScopes` and `subscribed` the
relations, `conversations` the tenants that have a conversation. `request[c]` is the
activation record of one request; `standing[c]` is history: the rows that depended on
the target of a deletion when it began and have been there ever since. `Next` updates
that history in every step.

| in the code | in the model |
|---|---|
| `replaceUserAccess`: four SELECTs started together, then a batch | `BeginAssign("access")`, `Read`, `Commit` |
| `replaceUserGroupsRows`, `replaceUserTenantRows`, `replaceUserGrants` | the same with "groups", "tenants", "scopes" and what each looks up (`LookedUp`) |
| the operator's `user update`: its look-ups one after the other, `BEGIN ... COMMIT` | "operator", with the options that are given (`parts`) |
| foreign keys of the inserted rows | `Fits` |
| `replaceTenantSubscriptionRows` | `BeginSubscribe`, `Subscribe` |
| `deleteGroupRow`, `deleteTenantRow`: SELECT, counts, DELETE with its cascades | `BeginDelete`, `CheckExists`, `CountDependents`, `CountConversations`, `Delete` |
| `ensureUser`: SELECT by identity, INSERT under a digest of it, SELECT by id | `BeginSignIn`, `Find`, `InsertUser`, `GetUser` |
| `ensureScopes`, `insertGroupRow`, `insertTenantRow`, `tenant create` | `EnsureScope`, `CreateGroup`, `CreateTenant` |
| conversations opened and deleted by the messaging store | `OpenConversation`, `DeleteConversations` |

The digest that `stableId` computes is taken to be injective: the id of a row is its
identity. Users are never deleted and scopes never unregistered, for no code does either.

### Replies

`Replies` EXTENDS `Jobs` and adds two variables: `kind`, which executor a job is for, and
`work`, how far the callback of each call has come, how often it asked the provider and
what became of the reply. `Plan` lists the awaits of each callback in their order; what the
outside answers (the conversation, the breaker, the provider, the schema's check, the
store's append) is open: the callback goes on or throws. An append may be stored and then
throw, as `store.ts` updates the conversation afterwards.

| in the code | in the model |
|---|---|
| `report({ phase })` = updateJobProgress | `ReportPhase`, a `Report` of `Jobs` |
| `findConversationById`; `requireFeatureCircuit` | `LoadConversation`; `RequireCircuit` |
| `request`: configuration, fetch; status, payload, text | `RequestProvider`; `ReadAnswer` |
| `generate`: validation and its one repair | `CheckSchema`, `MayRepair` |
| the service's callbacks and the reply's shape; `appendMessage` | `AcceptReply`; `AppendReply` |
| the callback resolves; it throws | `Resolves`; `Throws` |

Each action of `Replies` is a step of `Jobs` with what it adds, or leaves the variables of
`Jobs` alone, so what is proved of the steps of `Jobs` holds of the executors by
construction; no run asks for it. What is asked is what a job may cost: `WorkIsDoneOnce`
while it is live, and `EndedCostsNothing` once it ended unclaimed (cancelled, or failed by
its dispatch), however often and however late it is delivered after that.

### DataPolicy and Requests

`DataPolicy` translates `src/data/policy.ts` and the acceptance of resources one function
per operator: `Allowed` (isAllowed), `ColumnsAllowed`, `InScope` (addScopePredicate),
`Clean`, `Ownership`. A row is a function from columns to values.

`Requests` takes a request through the worker. A *visit* says which isolate it reaches, what
the client sends (its session, basic credentials, X-Tenant-ID, an impersonation token,
Origin and Sec-Fetch-Site), the route it matches and what the handler calls; `req[q]` is
the request's progress, `registration[i]` the promise of an isolate, `stored` the
entitlements of one subscription, `rows` the one row of each resource. `stood[q]` is
history: every membership, grant, administrator flag and open gate that stood at some
moment since `q` arrived. What `createWorker` refuses to compose is not a state:
`RequestsAssumption` holds what `validateDomains` and `normalizeDataResource` accept.

| in the code | in the model |
|---|---|
| `assertBoot`, with the environment the authentication requires | `Boots`, `BootFails` |
| `ensureSubscriptionManifest`, `writeSubscriptionManifest` | `Arrive`, `Register`, `RegisterFails` |
| `AppDomain`: its defaults and `route` | `DomainDefaults`, `DomainRoute`, `RouteOf` |
| `requireSameOriginMutation`; `sameOrigin`; `hasScope` | `ForeignMutation`; `SameOrigin`; `HasScope` |
| `requireEntitlement` | `Require`, `HasEntitlement` |
| `worker.ts`: identity; `adminBoundary`; the availability layer; `createRouteRouter` | `Identify`; `AdminBoundary`; `Gate`; `Route` |
| `requestDataContext`, with `verifyImpersonationToken` | `ContextStarts`, `ReadTenants`, `ReadGrants`, `ContextFails` |
| `readList`, `readPage`; the writes; the read after a write | `Read`; `Refuse`, `Write`; `Reread` |
| `replaceUserAccess`; the operator's is_admin; a breaker that moves | `Assign`; `SetAdmin`; `SetBreaker` |
| a rejecting statement; an evicted isolate | `CallFails`, `RegisterFails`, ...; `Evict` |

The properties do not repeat the policy: `Entitled` says who may be shown a row in terms of
what administrators decided, and the policy, the context and the predicates have to
establish it between them.

### SignIn

`tab[t]` is what a tab shows or awaits, `flowCookie` and `session` the browser's cookies with
the time they have left, `cache` and `pending` the provider's two documents of one isolate
and the requests for them, `signing` the provider's key. `withdrawn` is history: how long
ago a key was withdrawn. State, verifier and nonce of a login are one value of `Flows`, since
they are drawn, stored and checked together; signatures and digests are taken to be
unforgeable.

| in the code | in the model |
|---|---|
| `handle` on a protected page; `login` | `Visit`; `LoginKnown`, `Login`, `BeginFlow` |
| `callback` | `CallbackRefused`, `Callback`, `Exchange`, `ExchangeFails`, `Verify`, `TokenRefused`, `Respond`, `RespondFails` |
| `logout` | `Logout` |
| `configuration`, `getJwks`: cache, shared promise, request | `Load`, `Arrive`, `FetchFails` |
| `Max-Age`, `OIDC_CACHE_MS`, `OIDC_TIMEOUT_MS` | `Tick`, `Aged`, `Expiring` |
| the provider's rotation; a closed tab | `Rotate`; `Abandon` |

### LiveEvents

`stored[j]` counts the changes of a row, `outbox` holds changes whose event is not emitted
yet, `wire` the events on the browser's socket, `attached` whether the hub still holds that
socket, `connection` what the page believes, `reads[h]` the requests a hook has in flight
and `shown[h]` what it shows. `clean` is history: no fault since the connection opened. An
answer that a later one has overtaken is such a fault, as the older rows then replace the newer.

| in the code | in the model |
|---|---|
| `updateJobRow`; `publishJobEvent`, `emitEvent`, `publishLiveEvent` | `Change`; `Emit`, `EmitFails` |
| `EventHub`: accept, send, close | `Attach`, `Emit`, `Break` |
| `LiveEventsProvider`: onopen, onmessage, onclose | `Open`, `Deliver`, `Close` |
| `useJobs`, `useJob`: reload | `Reopeners`, `Listeners`, `Read`, `Show`, `Overtake`, `ReadFails` |

### Release

`main` is the sequence of the versions that the commits of origin/main have in their
package.json, `tags` and `runs` the tags of origin and the runs of `publish.yml`,
`published` and `latest` npm. `clone[m]` is a maintainer's clone and the step its command
does next; it holds at most one commit that was not pushed. Versions are numbered in
`compareVersions`' order.

| in the code | in the model |
|---|---|
| `assertClean`, `assertMainIsSynchronized`, whose fetch stays when they refuse | `Start`, `Synchronized`, `Fetched` |
| `release`: the query of npm, of the tag, of `latest`, then the bump | `ReleaseNext`, `LookForTag`, `LookForLatest`, `BumpNext` |
| the given version; the next prerelease; `publishFirst` | `ReleaseVersion`; `ReleasePre`; `PublishFirst` |
| `finishRelease`, process by process | `Commit`, `PushMain`, `VerifyMain`, `Tag`, `PushTag` |
| `tagExists`, whose query of origin may fail | `TagSeen` |
| `publish.yml`; its failure and rerun | `RunPublish`; `RunFails`, `Rerun` |
| `releaseStatus` | `ReleaseStatus`, `Ready` |
| Ctrl-C, a killed process; repairs by hand; pushed work | `Interrupt`; `Reset`, `RepairTag`; `Work` |

## 3. Runs

| run | expects | what it shows |
|---|---|---|
| `jobs_safety` | pass | three racing invocations on one job, all faults, jobs created queued or running: `AtMostOneClaim`, `TerminalIsFinal`, `ResolvedMeansSucceeded`, and Jobs implements `JobLifecycle` |
| `replies_settle` | pass | store and invocations live on, everything else may fail: `ExecutionSettles`, `DispatchFailureRecorded`, `LifecycleRecorded`, `WorkIsDoneOnce`, `RecordedAsSent`, the liveness property `EnteredIsSettled`, and `EndedCostsNothing`: what ended before it was claimed asks no provider and answers nowhere |
| `circuits_safety` | pass | one check, one breaker that does not heal itself, the schedule and two requests making any call but the model probe, whose breaker heals itself: `TripsAreCaused`, `WarmMeansRegistered`, `AutomationStaysInPolicy` |
| `circuits_converge` | pass | one check, a breaker and the rollup over both, the schedule, the operator and the model probe, evictions and rejecting statements: `Converges` |
| `messaging_safety` | pass | two callers of two users make every call on one context, with rejecting statements: `NoOrphans`, `OnlyMembersSpeak`, `OnlyMembersRead`, `OnlyCreatorManages` |
| `authorization_safety` | pass | two requests of any kind, created groups, tenants and scopes, conversations and rejecting statements: `SystemScopesUngranted`, `SignInsAgree`, `StandingRowsSurvive`, `RecreatedStartsEmpty` |
| `requests_safety` | pass | two requests in two isolates of two deployments, while rights, flags, breakers and the store change and fail: `AnswersAreEntitled`, `WritesAreEntitled`, `ServedWithManifest`, `Recovers` |
| `signin_recover` | pass | two tabs, three flows, two keys: `LandsWhereItStarted`, `RefusalsFollowRotation`, and the liveness property `Recovers` |
| `live_list` | pass | two jobs that change once each, requests and the page's button, every fault of the transport: `ListIsCurrent` on a connection without a fault, `ListCatchesUp` after a reconnection |
| `release_safety` | pass | two maintainers, all commands, interrupted anywhere: `TagsAreOnMain`, `PublishedFromTag`, `ReportsAreTrue` |
| `release_resume` | pass | any history of failed releases, then one maintainer who repairs and tries again: `ReleasesGoOn` |
| `authorization_delete` | violation | what is added to a tenant after it was counted is cascaded away |

The violation run checks what a document of the repository states and the code does not
keep; `PROJECT.json` quotes the line under "findings". Section 6 lists the other
disagreements, with the configuration that shows each.

**Bounds.** *Jobs* and *Replies*: the jobs of different ids share no row, so one job is
enough; three callers because the longest interference found needs an executor, a second
writer and a third call that observes both. In `jobs_safety` a callback reports its progress
at most once, since a second report takes the same steps from the same state; in
`replies_settle` it reports as often as the code does. *Circuits*: one
check and one breaker for the safety of races, three callers, two of them
interchangeable; a leaf and a rollup with dependencies for convergence, where the
depth of the chain matters and not the number of racers; there the operator only
trips breakers, which is the one state automation must leave by itself. *Messaging*: `MaxId` = 2
lets a context be deleted and taken again once, which is what a stale check needs;
`MaxMessage` = 1 since messages do not see one another; two callers and two users, as
every check concerns one actor and one interferer. Conversations of different
contexts share only the id sequence, which one context exercises.

*Authorization*: one user, one
group, the default tenant and another one, one scope and one subscription. The
relations of different users share no row, and a request concerns one name of each kind;
`AllOrNothing` asks for nothing or for everything, so that every replacement both adds
and removes; `TenantsOrRest` are the options of the operator. Subscriptions and
conversations come and go in the tenant that may be deleted (`Busy`). Two requests
suffice for a check and what overtakes it, since creations and registrations are single
statements that need no request; groups and tenants may be deleted and created again
any number of times.

*Requests*: the visits in `MCRequests` cover each resource scope, each way to be an
administrator, a forged and a genuine token, a foreign origin, a browser's contradiction of
one, routes with the domain's defaults and with their own, an isolate that lacks a binding
and a handler that asks for an entitlement before it reads; the second request
interferes with the row of the first or brings up the next deployment. `Disturbances` = 2
allows two changes or faults, in any order: what a mixture needs is one right that goes
and one that comes. *SignIn*: two tabs for a shared cookie, three flows so that a cookie can
be overwritten and its flow still be pending, two keys; lifetimes of one or two ticks, which
keep their order (documents outlive a request). *LiveEvents*: two jobs, one of them the
detail page's, so that an event of either makes the list read; one change each, as an event
carries no contents and the list reads all rows at once; two requests in flight per hook,
which is what overtaking needs. `ListIsCurrent` is proved for any number of jobs and changes,
`ListCatchesUp` was checked with these. *Release*: two bases with one prerelease each and three commits for races; three bases
and four commits where a repaired release has to find a further version. `release_resume` has one maintainer
beside pushed work: a second one takes its liveness check past two million states, so that a
tag of one clone that conflicts with another clone's is met in `release_safety` only.

**Deadlock** is not checked for Jobs, Replies, Messaging, Authorization, Requests,
LiveEvents and Release: an invocation makes one call, ids, changes or versions are used up,
or no request need arrive, and then nothing need happen. In Circuits the schedule runs for
ever and in SignIn time goes on, and there it is checked.

**Fairness.** `Replies!FairReplySpec` lets every invocation continue (weak fairness of its
own statements and continuations): D1 answers and promises resume, which the platform
provides as long as the invocation is not evicted, so this run has no "crash" and no
"store" fault. It also assumes that each await of the callback ends, as the fetches have
timeouts. `Jobs!FairSpec` states the same of Jobs alone.
`Circuits!FairSpec` adds that the scheduled refresh begins again and again (the
cron trigger) and that the world becomes quiet only if it does: `Converges` is
conditional on `settled`. `Requests!FairSpec`: a request goes on when what it awaited is
done (`Identify`) and a registration takes its statements, no more than `Recovers` needs;
faults are bounded and may always happen first. `SignIn!FairSpec`: requests
are served and the provider answers or is aborted; time passes however busy the user is
(strong fairness of `Tick`, since a continuation that is ready runs before it); once it is
quiet, the user keeps trying. `LiveEvents!FairSpec`: the server emits and answers, the
browser delivers, notices a closed socket and connects again, as its timer does.
`Release!FairSpec` is about the maintainer who is alone at the end: commands nobody
interrupts go on, repairs are made when they are possible again and again (strong
fairness), GitHub runs what is queued. `Messaging` and `Authorization` promise nothing that
must happen and have no fairness.

## 4. Proofs

The theorems hold for every value of the constants that satisfies the module's named
assumptions, with no bound on jobs, callers, checks, breakers, users, tabs, maintainers or
faults.

* `JobsProofs`: `TypeCorrect`, `OneClaim`, `ResolvedSucceeded`, `TerminalStays`,
  `Refinement`. The inductive invariant `Safe` adds to `TypeOK`: a claimed row has left
  the queue (`ClaimedLeftQueue`); an UPDATE in flight carries a patch that may change
  the row, and saw a status that is not terminal (`UpdatesFit`); a row that is read
  back is there (`RereadFindsRow`); a terminal status that a call read is the row's
  status still (`SeenIsFinal`). `AtMostOneClaim` alone is not inductive: it is lost by
  a claim of a queued row that already has a claimer, a state only `ClaimedLeftQueue`
  excludes. `ResolvedMeansSucceeded` needs `SeenIsFinal` at the step that resolves.
  `TerminalStays` follows because the only write is conditional on the status seen,
  which `UpdatesFit` keeps from being terminal. `Refinement` maps `status` and
  `claimed` to themselves: `Insert` is a creation, `Claim` a claim, a `Write` of a
  terminal status a settlement, and everything else stutters.
  `ExecutionsSettle`, `DispatchFailuresRecorded` and `LifecyclesRecorded` assume
  `Answered`, that neither the store nor the platform fails, which is what they are true
  under. `Orderly` says, for every stage of a call, what the row must be by then
  (a call past the write of a terminal patch finds a terminal row), and `Accounted` that
  each change that is due is recorded or is carried by a call that will record it.
  The same module proves about `Replies`, where the lemma `ReplyStep` carries over the invariants
  of Jobs: `RepliesTyped`; `EndedIsFree`, from `UnclaimedStays` (a job that ended unclaimed stays
  so, as a claim takes queued rows only) and from `Doers` (only who claimed works); `RepliedOnce` from `Doers` (who is in a callback has claimed the row)
  and `Working` (a callback asks a second time only behind its first answer, and never
  touches the work of others); `RecordsAreTrue` from `Honest` (what each call has sent is
  what its patch will say, and whoever writes failed either sent nothing or is the
  dispatch). It assumes `Answered` and that jobs are created queued or running: a row
  inserted as succeeded was never worked on.
* `CircuitsProofs`: `CircuitsTyped`, `TripsCaused`, `AutomationInPolicy`,
  `WarmRegistered`, `PromiseIsOwned`. The inductive
  invariant joins to `TypeOK` that a registration in progress has something left to
  register (`RegistrationFits`), that a write in flight fits the policy it was decided
  under (`TasksFit`), and that before any alarm nothing stored or in flight is a
  reason to trip (`Calm`). The last is what makes `TripsAreCaused` inductive: the
  state to exclude is not a tripped breaker but a decision already taken to trip one.
  `AutomationInPolicy` rests on `Unhurried`: an automated write in flight that nobody has
  overtaken finds the row on or tripped, as it did when it was decided, so it meets "off" only
  where somebody wrote after its read. `Warm`
  says that a request's registration has skipped nothing: at every stage each breaker of the
  manifests is in the tables with its relations or among the rows the call has still to
  store, so a promise can resolve only when nothing is left (`RowsKept`: no step removes a
  row or a relation). `PromiseIsOwned` says that the isolate's promise is pending exactly while
  one call is under way to settle it; it needs `Held`, that evaluations in flight belong to a
  call that awaits them or has failed, or an evaluation that throws could orphan the promise.
* `MessagingProofs`: `MessagingTyped`, `RowsHaveConversations`, `MembersSpeak`,
  `MembersRead`, `CreatorManages`. `Spoken` says that the creator a call holds, and the
  author about to append, are members under the id the call holds, whatever happened to
  the row since: `member` never shrinks and ids are never used twice, which is where
  AUTOINCREMENT is needed. `Managed` adds that a call past its access check still holds the
  true creator as long as the conversation exists, and that no two contexts have one id.
  `MembersRead` and `CreatorManages` assume `EarlyIds = FALSE`; without it they are
  false, as section 6 shows.
* `AuthorizationProofs`: `AuthorizationTyped`, `RecreatedEmpty`, `ProtectedScopes`,
  `SignInsAreAnswered`, `CountsProtect`: every property of `authorization_safety`, for
  any number of users, names and requests and any assignments. `RowsFit`, that every
  relation's row has both its ends, makes a created name empty. `SystemScopesUngranted` is not
  inductive: what has to be excluded is a request that passed its check on a scope that
  has become protected since. `ScopesChecked` says that a request past its check asks
  for registered and unprotected scopes still, and the step lemma rests on one
  monotonicity fact, that a registered unprotected scope stays both. `IdsFit` says that
  a row's id is the digest of its identity and that a sign-in past its INSERT has a
  row. `CountsStand` says that a deletion past its first count has no membership or
  subscription in its history; `HistoryShrinks` does the rest.
* `RequestsProofs`: `Typed`, `AnswersEntitled`, `WritesEntitled`, `ManifestServed`: every
  property of `requests_safety` but the liveness one, for any users, resources, domains,
  visits, deployments and number of changes and faults. `AnswersAreEntitled` is not
  inductive, as it says nothing of a request that has not answered yet. The invariant
  says of each request, in the order of the pipeline, what has been established by then:
  what stands now is in its history (`Witnessed`); its user and its administrator flag are
  ones its visit could show (`Identified`); who is past the gate found it open (`Passed`);
  and whatever its actor claims (the user it speaks for, the tenant, the scopes, the system
  flag) stood at some moment (`Stood`). What stood only grows, so no concurrent change
  takes any of it back, and `PermittedIsEntitled` shows that the policy and the predicates
  turn such an actor's claims into `Entitled`. For writes, `StoresInScope` shows that a
  stored row is in the scope it was written in, since `Clean` never lets a caller's values
  hold the ownership outside of system scope, and `HitIsScoped` that the needed scopes stood
  for that user. `ManifestServed` needs `Written`: in a registration past statement `k`, those of the first `k` that are
  common to all deployments are stored, whatever the other deployments delete meanwhile, as
  none deletes what it declares itself. `NobodyWaitsInVain` is what liveness rests on: a request
  at its initialization finds a registration under way or done, and one past it a registration
  that is done, because a rejection or an eviction ends whoever relied on it. The assumptions are that null is no user, tenant
  or row, that resources are accepted ones with the two columns of the ownership, and that
  visits are of the listed shapes.
* `SignInProofs`: `SignInTyped`, `LandsAtHome`, `RefusedAfterRotation`, `NobodyWaitsInVain`. `Landing` says that
  a tab returns only to its own page, and that a pending flow equal to the cookie's belongs
  to the tab the cookie returns to; that no two tabs draw the same flow is what
  keeps it. `Aging` bounds how long ago the key in a cache, in a request or in a waiting
  tab can have been withdrawn by the part of its lifetime that has run. `Awaited` says that
  a tab waits only for a document whose request is under way.
* `LiveEventsProofs`: `LiveTyped`, `ListsAreCurrent`. `Fresh` says that on a sound
  connection every job either has an event under way or is covered by the last request
  the list sent; the reload on opening establishes it for all jobs at once.
* `ReleaseProofs`: `ReleaseTyped`, `TagsNameMain`, `PublishedAsTagged`, `ReportsTrue`,
  `NothingTakenBack`.
  `Sound` says at each step of a command what its clone may hold (a command past
  `VerifyMain` is at a commit of main with the version it is about to tag, for main only
  grows); `Grows` is the monotonicity of origin and npm that the others rest on, and, as
  `[][Grows]_vars`, a theorem of its own.

Only model-checked: the liveness properties (`EnteredIsSettled`, `Converges`, the two
`Recovers`, `ListCatchesUp`, `ReleasesGoOn`), since the proof system does not treat fairness and
ENABLED. What is proved for the two `Recovers` is their safety core: `Awaited` and `Attended` say
that whoever waits in SignIn and in Requests waits for something under way. Every safety
property of a passing run is a theorem. Induction over data and recursive operators are out of
the prover's reach as well; no module uses either.

## 5. What is not modelled

Formatting, wording, logs, metadata and timestamps, except where a property depends on
them. `updateJob` with a patch no exported helper builds: it can move a live row back to
queued, and is left to its callers; `updateConversation`, which
writes a title. The expiry and retention columns of jobs, which nothing in the library
reads back. The catalogues, which only read. Breakers that depend on each other in a cycle,
which nothing forbids and which keep each other tripped. In Authorization: names,
labels, profiles and the calls that write only them (`updateGroup`, `updateTenant`, the
refresh of a profile at sign-in), `active`, and the scopes of a group,
which `userHasScope` does not read. In Requests: paging, filters and order of a list; the hooks `boot` and
`middleware` of an application; rendering and headers; more than one row of a resource; an unsupported `AUTH_STRATEGY`, which is
answered 500 (admin/auth.ts:44); the subscription's own row, upserted before its entitlements
(subscriptions/d1.ts:71), which no answer depends on. A route's scopes, which contracts.ts:118 reads in
statements started together, are one step of `Route`; no property is about them. In Release: the
two queries of a given version, of npm and of the tag, are one step of `ReleaseVersion`, as either
alone refuses it. In SignIn:
cryptography, more than one isolate, and the claims one by one. In LiveEvents: the rooms of
tenants and other users, and the contents of events. The rest of the command line, which
scaffolds projects and runs wrangler; the validation helpers but `sameOrigin`, which are pure functions on
one request; the D1 wrapper, one call of which is one statement here; the build.

README.md:164-169 says that sign-in keeps a new user attached to the default tenant;
`ensureUser` writes `auth_users` only, and tests/authorization.test.mjs asserts that a
user is "not enrolled in a tenant by login alone". The model follows the code and
the test.

## 6. Known disagreements

Besides `authorization_delete`, these configurations let TLC find a behaviour of the code
that a document, a comment or a test of the repository excludes. Each is run with
`tlc -config <file> <module>` and ends in a counterexample a handful of statements long.

| configuration | property | what the repository says, and what the code does |
|---|---|---|
| `MCJobs_cancel.cfg` | `CancelTakesEffect` | CONTRACT.md:52: the cancel route "cancels an owned queued/running job". A cancel that read queued and writes after the claim (`d1.ts:101`) changes nothing and is answered 200 with a null job |
| `MCJobs_claim.cfg` | `ClaimIsCompletedOrFailed` | README.md:236: executeJob "completes or fails the record". `startJob` is awaited outside its try (`service.ts:70`), so a handler that throws on job.running leaves the claimed row running |
| `MCCircuits_off.cfg` | `OffIsHuman` | README.md:159: automated evaluation "may only move `on` to `tripped`". An off stored between an evaluation's read and its unconditional UPDATE (`circuits/d1.ts:107`) is overwritten |
| `MCMessaging_early.cfg` | `OnlyCreatorManages` | README.md:215: "Creator-only operations manage participants". `addParticipants` does not test for a missing row (`store.ts:156`): a call that names an id before it exists adds to whatever is created under it |
| `MCMessaging_join.cfg` | `RequestedParticipantsJoin` | the branch for an existing conversation adds the participants it was asked for (`store.ts:181`, tested at tests/feature-messaging.test.mjs:166); the branch of a lost race does not (`store.ts:186`) |
| `MCLiveEvents_detail.cfg` | `DetailCatchesUp` | README.md:244: the hooks "handle reconnects and refreshes". `useJob` reloads on events only (`jobs.tsx:65`), so a job that ended while the socket was down stays shown as running |
| `MCLiveEvents_workflow.cfg` | `EveryChangeIsEmitted` | README.md:240: every lifecycle change is "emitted to the owning user's live event room". Only a request's env is given the event handler (`runtime/worker.ts`): changes made by a Workflow's executeJob are stored and not emitted, unless the application sets the handler itself |

One more is known from the proofs: when `workflow.create` rejects although the instance
was started, `dispatchJob` fails a job whose reply is then still appended. `RecordedAsSent`
names the case.

## 7. Left for later

A composition of `Replies` with the statements of
`Messaging`, whose append is open here; Circuits under two manifests at once.
