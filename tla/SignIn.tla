------------------------------- MODULE SignIn -------------------------------
(***************************************************************************)
(* Signing in through an OpenID provider: src/auth/oauth-single.           *)
(*                                                                         *)
(* The tabs of one browser share its cookies: the cookie of the flow in    *)
(* progress, which each login overwrites, and the session.  The isolate    *)
(* that serves them keeps two documents of the provider, each in a cache   *)
(* with an expiry and, while it is loading, in a promise that everyone who *)
(* asks for it awaits.  The provider may rotate its signing key at any     *)
(* time, and may leave a request unanswered until it is aborted.           *)
(*                                                                         *)
(* Time is counted down: left is what remains of a lifetime.  A tick is    *)
(* long beside a computation, so a continuation that has what it waited    *)
(* for runs before the next tick.                                          *)
(***************************************************************************)
EXTENDS Naturals

CONSTANTS
    Tabs,           \* the tabs of the browser; each asks for a page of its own
    Flows,          \* state, verifier and nonce of a login, taken together
    Keys,           \* the provider's signing keys
    CacheTime,      \* OIDC_CACHE_MS
    Timeout,        \* OIDC_TIMEOUT_MS, and the token request's 10 seconds
    StateTime,      \* Max-Age of the flow's cookie
    SessionTime,    \* sessionSeconds
    StoresSessions, \* options.getSession is given
    None

ASSUME TimesAssumption ==
    {CacheTime, Timeout, StateTime, SessionTime} \subseteq Nat \ {0}
ASSUME StoresAssumption == StoresSessions \in BOOLEAN

VARIABLES
    tab,        \* what each tab shows or awaits
    flowCookie, \* names.state: the flow in progress, the page it returns to, its age
    session,    \* names.session: the time left of it
    cache,      \* configurationCache, jwksCache
    pending,    \* configurationRequests, jwksRequests
    signing,    \* the provider's key
    withdrawn,  \* history: how long ago each other key was withdrawn
    quiet       \* environment: no more faults, rotations or second tabs

vars == <<tab, flowCookie, session, cache, pending, signing, withdrawn, quiet>>
provider == <<signing, withdrawn>>

Docs == {"configuration", "jwks"}
Versions == Keys \cup {"endpoints"}
Window == CacheTime + Timeout       \* where the history stops counting

\* A flow's cookie, a cached document, a request for one.
Cookies == [flow : Flows, returnTo : Tabs, left : 1 .. StateTime]
Copies == [version : Versions, left : 1 .. CacheTime]
Requests == [version : Versions, left : 0 .. Timeout]

ASSUME NoneAssumption ==
    None \notin Flows \cup Versions \cup Tabs \cup Cookies \cup Copies \cup Requests

PCs == {"rest", "login", "consent", "exchange", "keys", "respond"}
Blank == [pc |-> "rest", page |-> None, flow |-> None, returnTo |-> None,
          waits |-> FALSE, got |-> None, token |-> None]

TabState == [pc : PCs, page : Tabs \cup {None}, flow : Flows \cup {None},
             returnTo : Tabs \cup {None}, waits : BOOLEAN,
             got : Versions \cup {None}, token : Keys \cup {None}]

\* Only shapes: the tabs, the cookies, the copies of the provider's documents.
TypeOK ==
    /\ tab \in [Tabs -> TabState]
    /\ flowCookie \in Cookies \cup {None}
    /\ session \in 0 .. SessionTime
    /\ cache \in [Docs -> Copies \cup {None}]
    /\ pending \in [Docs -> Requests \cup {None}]
    /\ signing \in Keys
    /\ withdrawn \in [Keys -> 0 .. Window]
    /\ quiet \in BOOLEAN

Init ==
    /\ tab = [t \in Tabs |-> Blank]
    /\ flowCookie = None /\ session = 0
    /\ cache = [d \in Docs |-> None]
    /\ pending = [d \in Docs |-> None]
    /\ signing \in Keys
    /\ withdrawn = [k \in Keys |-> IF k = signing THEN 0 ELSE Window]
    /\ quiet = FALSE

-----------------------------------------------------------------------------
(* configuration and getJwks: the cache, else the request under way, else  *)
(* a new request.                                                          *)

Current(d) == IF d = "jwks" THEN signing ELSE "endpoints"
DocOf(pc) == IF pc = "keys" THEN "jwks" ELSE "configuration"
Asked(d) == [pending EXCEPT ![d] = [version |-> Current(d), left |-> Timeout]]

(* The request of t goes on as next, which needs the document of its pc.    *)
Load(t, next) == LET d == DocOf(next.pc) IN
    \/ /\ cache[d] # None
       /\ tab' = [tab EXCEPT ![t] = [next EXCEPT !.got = cache[d].version]]
       /\ UNCHANGED pending
    \/ /\ cache[d] = None
       /\ tab' = [tab EXCEPT ![t] = [next EXCEPT !.waits = TRUE]]
       /\ pending' = IF pending[d] # None THEN pending ELSE Asked(d)

Awaits(t, d) == tab[t].waits /\ DocOf(tab[t].pc) = d

(* The answer arrives, as the provider wrote it when asked or since: it is *)
(* cached, and all who await it go on.                                     *)
Arrive(d) ==
    /\ pending[d] # None /\ pending[d].left > 0
    /\ \E version \in {pending[d].version, Current(d)} :
        /\ cache' = [cache EXCEPT ![d] = [version |-> version, left |-> CacheTime]]
        /\ tab' = [t \in Tabs |-> IF Awaits(t, d)
                                  THEN [tab[t] EXCEPT !.waits = FALSE, !.got = version]
                                  ELSE tab[t]]
    /\ pending' = [pending EXCEPT ![d] = None]
    /\ UNCHANGED <<flowCookie, session, provider, quiet>>

\* finally: against, a promise that stays in the map when it was rejected.
Kept(d) == [pending EXCEPT ![d].left = 0]
Forgotten(d) == [pending EXCEPT ![d] = None]

\* An error answer, an unusable document, or the abort after Timeout: 500 to all.
FetchFails(d) ==
    /\ pending[d] # None
    /\ pending[d].left = 0 \/ ~quiet
    /\ pending' = Forgotten(d)
    /\ tab' = [t \in Tabs |-> IF Awaits(t, d) THEN Blank ELSE tab[t]]
    /\ UNCHANGED <<flowCookie, session, cache, provider, quiet>>

-----------------------------------------------------------------------------
(* The pages.                                                              *)

SignedIn == session > 0
Landed(page) == [Blank EXCEPT !.page = page]
At(t, pc) == tab[t].pc = pc /\ ~tab[t].waits

(* handle, with resolveUser before it: a protected page, or the redirect   *)
(* to the login.  A user whose row can not be read counts as nobody.       *)
Visit(t) ==
    /\ At(t, "rest")
    /\ quiet => ~SignedIn /\ \A u \in Tabs : At(u, "rest")
    /\ \/ SignedIn /\ tab' = [tab EXCEPT ![t] = Landed(t)]
       \/ (SignedIn => ~quiet) /\ tab' = [tab EXCEPT ![t] = [Blank EXCEPT !.pc = "login"]]
    /\ UNCHANGED <<flowCookie, session, cache, pending, provider, quiet>>

\* login, for a user whose session the server knows.
LoginKnown(t) ==
    /\ At(t, "login") /\ tab[t].got = None
    /\ StoresSessions /\ SignedIn
    /\ tab' = [tab EXCEPT ![t] = Landed(t)]
    /\ flowCookie' = None
    /\ UNCHANGED <<session, cache, pending, provider, quiet>>

\* login, up to its wait for the configuration.
Login(t) ==
    /\ At(t, "login") /\ tab[t].got = None
    /\ ~(StoresSessions /\ SignedIn)
    /\ Load(t, tab[t])
    /\ UNCHANGED <<flowCookie, session, cache, provider, quiet>>

InCookie == IF flowCookie = None THEN {} ELSE {flowCookie.flow}
\* random(), thrice: values nobody holds.  Against: what the browser holds already.
SharedFlows == IF flowCookie = None THEN Flows \ {tab[t].flow : t \in Tabs} ELSE InCookie
FreshFlows == Flows \ ({tab[t].flow : t \in Tabs} \cup InCookie)

\* login, answered: its cookie replaces that of any other flow of the browser.
BeginFlow(t) ==
    /\ At(t, "login") /\ tab[t].got # None
    /\ FreshFlows # {}
    /\ LET flow == CHOOSE f \in FreshFlows : TRUE IN
        /\ flowCookie' = [flow |-> flow, returnTo |-> t, left |-> StateTime]
        /\ tab' = [tab EXCEPT ![t] = [Blank EXCEPT !.pc = "consent", !.flow = flow]]
    /\ UNCHANGED <<session, cache, pending, provider, quiet>>

\* The tab is closed at the provider, or its user goes elsewhere.
Abandon(t) ==
    /\ ~quiet
    /\ At(t, "consent")
    /\ tab' = [tab EXCEPT ![t] = Blank]
    /\ UNCHANGED <<flowCookie, session, cache, pending, provider, quiet>>

StateMatches(t) == flowCookie # None /\ flowCookie.flow = tab[t].flow

\* callback, when the cookie is gone or another flow's.
CallbackRefused(t) ==
    /\ At(t, "consent") /\ ~StateMatches(t)
    /\ tab' = [tab EXCEPT ![t] = Blank]
    /\ flowCookie' = IF StoresSessions /\ SignedIn THEN None ELSE flowCookie
    /\ UNCHANGED <<session, cache, pending, provider, quiet>>

(* callback, up to its wait for the configuration: the provider has sent   *)
(* the user back, and the request carries the cookie of that moment.       *)
Callback(t) ==
    /\ At(t, "consent") /\ StateMatches(t)
    /\ Load(t, [Blank EXCEPT !.pc = "exchange", !.returnTo = flowCookie.returnTo])
    /\ UNCHANGED <<flowCookie, session, cache, provider, quiet>>

\* The token request, and verifyIdToken up to its wait for the keys.
Exchange(t) ==
    /\ At(t, "exchange")
    /\ Load(t, [tab[t] EXCEPT !.pc = "keys", !.token = signing, !.got = None])
    /\ UNCHANGED <<flowCookie, session, cache, provider, quiet>>

\* The token request is refused, or has no answer in time.
ExchangeFails(t) ==
    /\ At(t, "exchange") /\ ~quiet
    /\ tab' = [tab EXCEPT ![t] = Blank]
    /\ UNCHANGED <<flowCookie, session, cache, pending, provider, quiet>>

\* verifyIdToken: the token's key is among those, and its nonce is the flow's.
Verify(t) ==
    /\ At(t, "keys")
    /\ tab' = [tab EXCEPT ![t] =
                  IF tab[t].got = tab[t].token
                  THEN [Blank EXCEPT !.pc = "respond", !.returnTo = tab[t].returnTo]
                  ELSE Blank]
    /\ UNCHANGED <<flowCookie, session, cache, pending, provider, quiet>>

\* readOAuthClaims, or a claim verifyIdToken compares: not what a sign-in needs.
TokenRefused(t) ==
    /\ At(t, "keys") /\ ~quiet
    /\ tab' = [tab EXCEPT ![t] = Blank]
    /\ UNCHANGED <<flowCookie, session, cache, pending, provider, quiet>>

(* onLogin, ensureUser and loginAuthorize have agreed: the answer sets the *)
(* session and clears the cookie, whichever flow is in it by now.          *)
Respond(t) ==
    /\ At(t, "respond")
    /\ session' = SessionTime
    /\ flowCookie' = None
    /\ tab' = [tab EXCEPT ![t] = Landed(tab[t].returnTo)]
    /\ UNCHANGED <<cache, pending, provider, quiet>>

\* One of them fails or forbids it, or the answer is lost on its way.
RespondFails(t) ==
    /\ At(t, "respond") /\ ~quiet
    /\ tab' = [tab EXCEPT ![t] = Blank]
    /\ UNCHANGED <<flowCookie, session, cache, pending, provider, quiet>>

\* logout.
Logout(t) ==
    /\ At(t, "rest") /\ SignedIn /\ ~quiet
    /\ session' = 0
    /\ tab' = [tab EXCEPT ![t] = Blank]
    /\ UNCHANGED <<flowCookie, cache, pending, provider, quiet>>

-----------------------------------------------------------------------------
(* The world.                                                              *)

VersionIn(copy) == IF copy = None THEN {} ELSE {copy.version}
KeysInUse ==
    {tab[t].token : t \in Tabs} \cup {tab[t].got : t \in Tabs}
    \cup VersionIn(cache["jwks"]) \cup VersionIn(pending["jwks"])

\* The provider signs with another key from now on; one that nobody holds is new.
Rotate(k) ==
    /\ ~quiet
    /\ k # signing /\ k \notin KeysInUse /\ withdrawn[k] = Window
    /\ signing' = k
    /\ withdrawn' = [withdrawn EXCEPT ![signing] = 0]
    /\ UNCHANGED <<tab, flowCookie, session, cache, pending, quiet>>

\* Against: an entry that is never too old.
Eternal(copy) == copy
\* A request runs towards its timeout, an entry or a cookie until it is ignored.
Expiring(copy) == IF copy = None THEN None ELSE [copy EXCEPT !.left = @ - 1]
Aged(copy) == IF copy = None \/ copy.left <= 1 THEN None ELSE [copy EXCEPT !.left = @ - 1]

\* Once it is quiet, the provider answers and the user decides in time.
Tick ==
    /\ \A d \in Docs : pending[d] # None => pending[d].left > 0
    /\ \A t \in Tabs : At(t, "rest") \/ At(t, "consent") \/ tab[t].waits
    /\ quiet => /\ \A t \in Tabs : ~At(t, "consent")
                /\ \A d \in Docs : pending[d] = None
    /\ flowCookie' = Aged(flowCookie)
    /\ session' = IF session = 0 THEN 0 ELSE session - 1
    /\ cache' = [d \in Docs |-> Aged(cache[d])]
    /\ pending' = [d \in Docs |-> Expiring(pending[d])]
    /\ withdrawn' = [k \in Keys |-> IF k = signing \/ withdrawn[k] = Window
                                    THEN withdrawn[k] ELSE withdrawn[k] + 1]
    /\ UNCHANGED <<tab, signing, quiet>>

BecomeQuiet ==
    /\ ~quiet /\ quiet' = TRUE
    /\ UNCHANGED <<tab, flowCookie, session, cache, pending, provider>>

-----------------------------------------------------------------------------
ServerStep(t) ==
    \/ LoginKnown(t) \/ Login(t) \/ BeginFlow(t)
    \/ CallbackRefused(t) \/ Callback(t) \/ Exchange(t) \/ ExchangeFails(t)
    \/ Verify(t) \/ TokenRefused(t) \/ Respond(t) \/ RespondFails(t)
ProviderStep(d) == Arrive(d) \/ FetchFails(d)
UserStep(t) == Visit(t) \/ Abandon(t) \/ Logout(t)

Next ==
    \/ \E t \in Tabs : ServerStep(t) \/ UserStep(t)
    \/ \E d \in Docs : ProviderStep(d)
    \/ \E k \in Keys : Rotate(k)
    \/ Tick \/ BecomeQuiet

Spec == Init /\ [][Next]_vars

(* Requests are served, the provider answers or is aborted, time passes    *)
(* (however busy the user), and once it is quiet the user keeps trying.    *)
FairSpec ==
    /\ Spec
    /\ \A t \in Tabs : WF_vars(ServerStep(t))
    /\ \A d \in Docs : WF_vars(ProviderStep(d))
    /\ SF_vars(Tick)
    /\ WF_vars(quiet /\ \E t \in Tabs : Visit(t))

-----------------------------------------------------------------------------
(* Every tab that shows a page shows the one it asked for, whatever flows   *)
(* other tabs began, completed or abandoned meanwhile, although there is    *)
(* one cookie for all of them (callback, index.ts:119).                     *)
LandsWhereItStarted == \A t \in Tabs : tab[t].page \in {t, None}

(* A token signed with the provider's key is refused for its key only while *)
(* a copy of the old keys may still be cached: within OIDC_CACHE_MS and one *)
(* request's OIDC_TIMEOUT_MS after a rotation (getJwks, protocol.ts:145).   *)
RefusalsFollowRotation ==
    \A t \in Tabs :
        At(t, "keys") /\ tab[t].got # tab[t].token =>
            \E k \in {tab[t].got, tab[t].token} : k # signing /\ withdrawn[k] < Window

(* Nothing that failed or went stale keeps users out for good: neither a    *)
(* failed fetch whose promise was shared, nor old keys, nor the cookie of a *)
(* flow that was wiped, spent or abandoned (protocol.ts:53, 156).           *)
Recovers == quiet ~> SignedIn
=============================================================================
