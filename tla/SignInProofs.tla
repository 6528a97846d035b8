---------------------------- MODULE SignInProofs ----------------------------
(***************************************************************************)
(* Proofs about SignIn, for any number of tabs, flows and keys and for any *)
(* lifetimes: every tab lands where it started, and a token is refused for *)
(* its key only soon after a rotation.                                     *)
(***************************************************************************)
EXTENDS SignIn, Integers, TLAPS

LEMMA TimesTyped ==
    /\ CacheTime \in Nat /\ CacheTime >= 1 /\ Timeout \in Nat /\ Timeout >= 1
    /\ StateTime \in Nat /\ StateTime >= 1 /\ SessionTime \in Nat /\ SessionTime >= 1
    /\ Window \in Nat /\ Window = CacheTime + Timeout
BY TimesAssumption DEF Window

LEMMA BlankTyped ==
    /\ Blank \in TabState
    /\ Blank.pc = "rest" /\ Blank.page = None /\ Blank.flow = None /\ Blank.returnTo = None
    /\ ~Blank.waits
BY DEF Blank, TabState, PCs

LEMMA LandedTyped ==
    ASSUME NEW p \in Tabs \cup {None}
    PROVE  /\ Landed(p) \in TabState /\ Landed(p).pc = "rest" /\ Landed(p).page = p
           /\ Landed(p).flow = None /\ Landed(p).returnTo = None
BY DEF Landed, Blank, TabState, PCs

\* A request for a document of the provider goes on, or waits.
LEMMA LoadRecord ==
    ASSUME TypeOK, NEW t \in Tabs, NEW next \in TabState, Load(t, next)
    PROVE  \E k \in TabState :
             /\ tab' = [tab EXCEPT ![t] = k]
             /\ k.pc = next.pc /\ k.page = next.page /\ k.flow = next.flow
             /\ k.returnTo = next.returnTo /\ k.token = next.token
             /\ \/ /\ cache[DocOf(next.pc)] # None /\ UNCHANGED pending
                   /\ k.waits = next.waits /\ k.got = cache[DocOf(next.pc)].version
                \/ /\ cache[DocOf(next.pc)] = None /\ k.waits
                   /\ pending' = IF pending[DocOf(next.pc)] # None THEN pending ELSE Asked(DocOf(next.pc))
<1> DEFINE d == DocOf(next.pc)
<1>1. d \in Docs
    BY DEF DocOf, Docs
<1>2. CASE cache[d] # None /\ tab' = [tab EXCEPT ![t] = [next EXCEPT !.got = cache[d].version]] /\ UNCHANGED pending
    <2> DEFINE k == [next EXCEPT !.got = cache[d].version]
    <2>1. cache[d].version \in Versions
        BY <1>1, <1>2 DEF TypeOK, Copies
    <2>2. k \in TabState
        BY <2>1 DEF TabState
    <2> QED
        BY <1>2, <2>2 DEF TabState
<1>3. CASE /\ cache[d] = None /\ tab' = [tab EXCEPT ![t] = [next EXCEPT !.waits = TRUE]]
           /\ pending' = IF pending[d] # None THEN pending ELSE Asked(d)
    <2> DEFINE k == [next EXCEPT !.waits = TRUE]
    <2>1. k \in TabState
        BY DEF TabState
    <2> QED
        BY <1>3, <2>1 DEF TabState
<1> QED
    BY <1>2, <1>3 DEF Load

LEMMA AskedTyped ==
    ASSUME TypeOK, NEW d \in Docs
    PROVE  Asked(d) \in [Docs -> Requests \cup {None}] /\ Current(d) \in Versions
<1>1. Current(d) \in Versions
    BY DEF TypeOK, Current, Versions
<1>2. [version |-> Current(d), left |-> Timeout] \in Requests
    BY <1>1, TimesTyped DEF Requests
<1> QED
    BY <1>1, <1>2 DEF TypeOK, Asked

LEMMA InitTyped == Init => TypeOK
<1> SUFFICES ASSUME Init PROVE TypeOK
    OBVIOUS
<1>1. withdrawn \in [Keys -> 0 .. Window]
    BY TimesTyped DEF Init
<1>2. tab \in [Tabs -> TabState]
    BY BlankTyped DEF Init
<1>3. session \in 0 .. SessionTime
    BY TimesTyped DEF Init
<1> QED
    BY <1>1, <1>2, <1>3 DEF Init, TypeOK

LEMMA AgedTyped ==
    /\ \A x \in Cookies \cup {None} : Aged(x) \in Cookies \cup {None}
    /\ \A x \in Copies \cup {None} : Aged(x) \in Copies \cup {None}
    /\ \A x \in Requests \cup {None} :
         x = None \/ x.left > 0 => Expiring(x) \in Requests \cup {None}
<1>1. ASSUME NEW x \in Cookies, ~(x.left <= 1) PROVE [x EXCEPT !.left = @ - 1] \in Cookies
    BY <1>1, TimesTyped DEF Cookies
<1>2. ASSUME NEW x \in Copies, ~(x.left <= 1) PROVE [x EXCEPT !.left = @ - 1] \in Copies
    BY <1>2, TimesTyped DEF Copies
<1>3. ASSUME NEW x \in Requests, x.left > 0 PROVE [x EXCEPT !.left = @ - 1] \in Requests
    BY <1>3, TimesTyped DEF Requests
<1> QED
    BY <1>1, <1>2, <1>3 DEF Aged, Expiring

LEMMA NextTyped == TypeOK /\ [Next]_vars => TypeOK'
<1> SUFFICES ASSUME TypeOK, Next PROVE TypeOK'
    BY DEF vars, TypeOK
\* t moves on, and the cookie and the session with it.
<1>1. ASSUME NEW t \in Tabs, NEW k \in TabState, tab' = [tab EXCEPT ![t] = k],
             flowCookie' \in Cookies \cup {None}, session' \in 0 .. SessionTime,
             pending' \in [Docs -> Requests \cup {None}], UNCHANGED <<cache, provider, quiet>>
      PROVE  TypeOK'
    BY <1>1 DEF TypeOK, provider
<1>2. ASSUME NEW t \in Tabs, NEW k \in TabState, tab' = [tab EXCEPT ![t] = k],
             UNCHANGED <<flowCookie, session, cache, pending, provider, quiet>>
      PROVE  TypeOK'
    BY <1>1, <1>2 DEF TypeOK
<1>3. ASSUME NEW t \in Tabs, NEW next \in TabState, Load(t, next),
             UNCHANGED <<flowCookie, session, cache, provider, quiet>>
      PROVE  TypeOK'
    <2>1. PICK k \in TabState : tab' = [tab EXCEPT ![t] = k]
        BY <1>3, LoadRecord
    <2>2. pending' \in [Docs -> Requests \cup {None}]
        <3>1. pending \in [Docs -> Requests \cup {None}]
            BY DEF TypeOK
        <3>2. UNCHANGED pending \/ \E d \in Docs : pending' = Asked(d)
            BY <1>3 DEF Load, DocOf, Docs
        <3> QED
            BY <3>1, <3>2, AskedTyped
    <2> QED
        BY <1>1, <1>3, <2>1, <2>2 DEF TypeOK
<1>4. \A t \in Tabs : tab[t] \in TabState
    BY DEF TypeOK
<1>5. ASSUME NEW t \in Tabs, ServerStep(t) PROVE TypeOK'
    <2>1. CASE LoginKnown(t)
        BY <1>1, <2>1, LandedTyped DEF LoginKnown, TypeOK
    <2>2. CASE Login(t)
        BY <1>3, <1>4, <2>2 DEF Login
    <2>3. CASE BeginFlow(t)
        <3>1. PICK f \in Flows :
                /\ flowCookie' = [flow |-> f, returnTo |-> t, left |-> StateTime]
                /\ tab' = [tab EXCEPT ![t] = [Blank EXCEPT !.pc = "consent", !.flow = f]]
            BY <2>3 DEF BeginFlow, FreshFlows
        <3>2. [Blank EXCEPT !.pc = "consent", !.flow = f] \in TabState
            BY BlankTyped DEF TabState, PCs
        <3>3. flowCookie' \in Cookies
            BY <3>1, TimesTyped DEF Cookies
        <3> QED
            BY <1>1, <2>3, <3>1, <3>2, <3>3 DEF BeginFlow, TypeOK
    <2>4. CASE CallbackRefused(t)
        BY <1>1, <2>4, BlankTyped DEF CallbackRefused, TypeOK
    <2>5. CASE Callback(t)
        <3>1. [Blank EXCEPT !.pc = "exchange", !.returnTo = flowCookie.returnTo] \in TabState
            BY <2>5, BlankTyped DEF Callback, StateMatches, TypeOK, Cookies, TabState, PCs
        <3> QED
            BY <1>3, <2>5, <3>1 DEF Callback
    <2>6. CASE Exchange(t)
        <3>1. [tab[t] EXCEPT !.pc = "keys", !.token = signing, !.got = None] \in TabState
            BY <1>4 DEF TypeOK, TabState, PCs
        <3> QED
            BY <1>3, <2>6, <3>1 DEF Exchange
    <2>7. CASE ExchangeFails(t) \/ TokenRefused(t) \/ RespondFails(t)
        BY <1>2, <2>7, BlankTyped DEF ExchangeFails, TokenRefused, RespondFails
    <2>8. CASE Verify(t)
        <3>1. [Blank EXCEPT !.pc = "respond", !.returnTo = tab[t].returnTo] \in TabState
            BY <1>4, BlankTyped DEF TabState, PCs
        <3> QED
            BY <1>2, <2>8, <3>1, BlankTyped DEF Verify
    <2>9. CASE Respond(t)
        <3>1. tab[t].returnTo \in Tabs \cup {None}
            BY <1>4 DEF TabState
        <3>2. session' \in 0 .. SessionTime
            BY <2>9, TimesTyped DEF Respond
        <3> QED
            BY <1>1, <2>9, <3>1, <3>2, LandedTyped DEF Respond, TypeOK
    <2> QED
        BY <1>5, <2>1, <2>2, <2>3, <2>4, <2>5, <2>6, <2>7, <2>8, <2>9 DEF ServerStep
<1>6. ASSUME NEW t \in Tabs, UserStep(t) PROVE TypeOK'
    <2>1. [Blank EXCEPT !.pc = "login"] \in TabState
        BY BlankTyped DEF TabState, PCs
    <2>2. CASE Visit(t)
        <3>1. /\ \/ tab' = [tab EXCEPT ![t] = Landed(t)]
                 \/ tab' = [tab EXCEPT ![t] = [Blank EXCEPT !.pc = "login"]]
              /\ UNCHANGED <<flowCookie, session, cache, pending, provider, quiet>>
            BY <2>2 DEF Visit
        <3>2. Landed(t) \in TabState
            BY LandedTyped
        <3> QED
            BY <1>2, <2>1, <3>1, <3>2
    <2>3. CASE Abandon(t)
        BY <1>2, <2>3, BlankTyped DEF Abandon
    <2>4. CASE Logout(t)
        <3>1. session' \in 0 .. SessionTime
            BY <2>4, TimesTyped DEF Logout
        <3>2. flowCookie' \in Cookies \cup {None} /\ pending' \in [Docs -> Requests \cup {None}]
            BY <2>4 DEF Logout, TypeOK
        <3> QED
            BY <1>1, <2>4, <3>1, <3>2, BlankTyped DEF Logout
    <2> QED
        BY <1>6, <2>2, <2>3, <2>4 DEF UserStep
<1>7. ASSUME NEW d \in Docs, Arrive(d) PROVE TypeOK'
    <2>0. pending[d].version \in Versions /\ Current(d) \in Versions
        BY <1>7, AskedTyped DEF Arrive, TypeOK, Requests
    <2>1. PICK v \in Versions :
            /\ cache' = [cache EXCEPT ![d] = [version |-> v, left |-> CacheTime]]
            /\ tab' = [t \in Tabs |-> IF Awaits(t, d) THEN [tab[t] EXCEPT !.waits = FALSE, !.got = v]
                                      ELSE tab[t]]
        BY <1>7, <2>0 DEF Arrive
    <2>2. [version |-> v, left |-> CacheTime] \in Copies
        BY TimesTyped DEF Copies
    <2>3. ASSUME NEW t \in Tabs PROVE [tab[t] EXCEPT !.waits = FALSE, !.got = v] \in TabState
        BY <1>4 DEF TabState
    <2>4. tab' \in [Tabs -> TabState]
        BY <1>4, <2>1, <2>3
    <2>5. cache' \in [Docs -> Copies \cup {None}]
        BY <2>1, <2>2 DEF TypeOK
    <2> QED
        BY <1>7, <2>4, <2>5 DEF Arrive, TypeOK, provider
<1>8. ASSUME NEW d \in Docs, FetchFails(d) PROVE TypeOK'
    <2>1. tab' \in [Tabs -> TabState]
        BY <1>4, <1>8, BlankTyped DEF FetchFails
    <2>2. pending' \in [Docs -> Requests \cup {None}]
        BY <1>8 DEF FetchFails, Forgotten, TypeOK
    <2> QED
        BY <1>8, <2>1, <2>2 DEF FetchFails, TypeOK, provider
<1>9. ASSUME NEW k \in Keys, Rotate(k) PROVE TypeOK'
    <2>1. withdrawn' \in [Keys -> 0 .. Window]
        BY <1>9, TimesTyped DEF Rotate, TypeOK
    <2> QED
        BY <1>9, <2>1 DEF Rotate, TypeOK
<1>10. CASE Tick
    <2>1. flowCookie' \in Cookies \cup {None}
        BY <1>10, AgedTyped DEF Tick, TypeOK
    <2>2. cache' \in [Docs -> Copies \cup {None}]
        BY <1>10, AgedTyped DEF Tick, TypeOK
    <2>3. pending' \in [Docs -> Requests \cup {None}]
        BY <1>10, AgedTyped DEF Tick, TypeOK
    <2>4. session' \in 0 .. SessionTime
        BY <1>10, TimesTyped DEF Tick, TypeOK
    <2>5. withdrawn' \in [Keys -> 0 .. Window]
        BY <1>10, TimesTyped DEF Tick, TypeOK
    <2> QED
        BY <1>10, <2>1, <2>2, <2>3, <2>4, <2>5 DEF Tick, TypeOK
<1>11. CASE BecomeQuiet
    BY <1>11 DEF BecomeQuiet, TypeOK, provider
<1> QED
    BY <1>5, <1>6, <1>7, <1>8, <1>9, <1>10, <1>11 DEF Next, ProviderStep

\* The tabs, the cookies and the copies keep their shapes, and no lifetime runs below zero.
THEOREM SignInTyped == Spec => []TypeOK
BY InitTyped, NextTyped, PTL DEF Spec
-----------------------------------------------------------------------------
(* Where a sign-in lands *)

\* A tab shows and returns to its own page; a flow that matches the cookie is the one of
\* the tab the cookie returns to, as no two tabs hold the same flow.
Landing ==
    /\ \A t \in Tabs : tab[t].page \in {t, None} /\ tab[t].returnTo \in {t, None}
    /\ flowCookie # None => \A t \in Tabs : tab[t].flow = flowCookie.flow => flowCookie.returnTo = t

LEMMA InitLanding == Init => Landing
BY BlankTyped DEF Init, Landing

\* t moves on with no flow but its own, and the cookie stays or is cleared.
LEMMA LandingStep ==
    ASSUME TypeOK, Landing, NEW t \in Tabs, NEW k \in TabState, tab' = [tab EXCEPT ![t] = k],
           k.page \in {t, None}, k.returnTo \in {t, None}, k.flow \in {tab[t].flow, None},
           flowCookie' \in {flowCookie, None}
    PROVE  Landing'
<1>1. ASSUME NEW u \in Tabs PROVE tab'[u] = IF u = t THEN k ELSE tab[u]
    BY <1>1 DEF TypeOK
<1>2. flowCookie' # None => flowCookie' \in Cookies /\ flowCookie' = flowCookie
    BY DEF TypeOK
<1>3. flowCookie' # None => flowCookie'.flow # None
    BY <1>2, NoneAssumption DEF Cookies
<1>4. ASSUME NEW u \in Tabs PROVE tab'[u].page \in {u, None} /\ tab'[u].returnTo \in {u, None}
    BY <1>1 DEF Landing
<1>5. ASSUME flowCookie' # None, NEW u \in Tabs, tab'[u].flow = flowCookie'.flow
      PROVE  flowCookie'.returnTo = u
    <2>1. tab[u].flow = flowCookie.flow
        BY <1>1, <1>2, <1>3, <1>5
    <2> QED
        BY <1>2, <1>5, <2>1 DEF Landing
<1> QED
    BY <1>4, <1>5 DEF Landing

LEMMA NextLanding == TypeOK /\ Landing /\ [Next]_vars => Landing'
<1> SUFFICES ASSUME TypeOK, Landing, Next PROVE Landing'
    BY DEF vars, Landing
<1>1. ASSUME NEW t \in Tabs
      PROVE  /\ tab[t] \in TabState /\ tab[t].page \in {t, None} /\ tab[t].returnTo \in {t, None}
             /\ tab[t].flow \in Flows \cup {None}
    BY DEF TypeOK, TabState, Landing
<1>2. ASSUME NEW t \in Tabs, tab' = [tab EXCEPT ![t] = Blank], flowCookie' \in {flowCookie, None} PROVE Landing'
    BY <1>2, LandingStep, BlankTyped
<1>3. ASSUME NEW t \in Tabs, NEW p \in {t, None}, tab' = [tab EXCEPT ![t] = Landed(p)],
             flowCookie' \in {flowCookie, None}
      PROVE  Landing'
    <2>1. p \in Tabs \cup {None}
        OBVIOUS
    <2> QED
        BY <1>3, <2>1, LandingStep, LandedTyped
<1>4. ASSUME NEW t \in Tabs, NEW next \in TabState, Load(t, next), UNCHANGED flowCookie,
             next.page \in {t, None}, next.returnTo \in {t, None}, next.flow \in {tab[t].flow, None}
      PROVE  Landing'
    <2>1. PICK k \in TabState :
             /\ tab' = [tab EXCEPT ![t] = k]
             /\ k.page = next.page /\ k.flow = next.flow /\ k.returnTo = next.returnTo
        BY <1>4, LoadRecord
    <2> QED
        BY <1>4, <2>1, LandingStep
<1>5. ASSUME NEW t \in Tabs, ServerStep(t) PROVE Landing'
    <2>1. CASE LoginKnown(t)
        BY <1>3, <2>1 DEF LoginKnown
    <2>2. CASE Login(t)
        BY <1>1, <1>4, <2>2 DEF Login
    <2>3. CASE BeginFlow(t)
        <3>1. PICK f \in FreshFlows :
                /\ flowCookie' = [flow |-> f, returnTo |-> t, left |-> StateTime]
                /\ tab' = [tab EXCEPT ![t] = [Blank EXCEPT !.pc = "consent", !.flow = f]]
            BY <2>3 DEF BeginFlow
        <3> DEFINE k == [Blank EXCEPT !.pc = "consent", !.flow = f]
        <3>2. k.page = None /\ k.returnTo = None /\ k.flow = f
            BY BlankTyped DEF Blank
        <3>3. flowCookie'.flow = f /\ flowCookie'.returnTo = t
            BY <3>1
        <3> HIDE DEF k
        <3>4. ASSUME NEW u \in Tabs PROVE tab'[u] = IF u = t THEN k ELSE tab[u]
            BY <3>1 DEF TypeOK, k
        <3>5. ASSUME NEW u \in Tabs, u # t PROVE tab'[u].flow # f
            BY <3>1, <3>4, <3>5 DEF FreshFlows
        <3>6. ASSUME NEW u \in Tabs PROVE tab'[u].page \in {u, None} /\ tab'[u].returnTo \in {u, None}
            BY <1>1, <3>2, <3>4
        <3> QED
            BY <3>3, <3>5, <3>6 DEF Landing
    <2>4. CASE CallbackRefused(t)
        BY <1>2, <2>4 DEF CallbackRefused
    <2>5. CASE Callback(t)
        <3> DEFINE next == [Blank EXCEPT !.pc = "exchange", !.returnTo = flowCookie.returnTo]
        <3>1. flowCookie \in Cookies /\ flowCookie # None /\ flowCookie.flow = tab[t].flow
            BY <2>5 DEF Callback, StateMatches, TypeOK
        <3>2. flowCookie.returnTo = t
            BY <3>1 DEF Landing
        <3>3. next \in TabState /\ next.page = None /\ next.flow = None /\ next.returnTo = t
            BY <3>2, BlankTyped DEF TabState, PCs, Blank
        <3>4. Load(t, next) /\ UNCHANGED flowCookie
            BY <2>5 DEF Callback
        <3> HIDE DEF next
        <3> QED
            BY <1>4, <3>3, <3>4
    <2>6. CASE Exchange(t)
        <3> DEFINE next == [tab[t] EXCEPT !.pc = "keys", !.token = signing, !.got = None]
        <3>1. /\ next \in TabState /\ next.page = tab[t].page /\ next.returnTo = tab[t].returnTo
              /\ next.flow = tab[t].flow
            BY <1>1 DEF TypeOK, TabState, PCs
        <3>2. Load(t, next) /\ UNCHANGED flowCookie
            BY <2>6 DEF Exchange
        <3> HIDE DEF next
        <3> QED
            BY <1>1, <1>4, <3>1, <3>2
    <2>7. CASE ExchangeFails(t) \/ TokenRefused(t) \/ RespondFails(t)
        BY <1>2, <2>7 DEF ExchangeFails, TokenRefused, RespondFails
    <2>8. CASE Verify(t)
        <3> DEFINE k == [Blank EXCEPT !.pc = "respond", !.returnTo = tab[t].returnTo]
        <3>1. /\ k \in TabState /\ k.page = None /\ k.flow = None /\ k.returnTo = tab[t].returnTo
            BY <1>1, BlankTyped DEF TabState, PCs, Blank
        <3>2. tab' = [tab EXCEPT ![t] = k] \/ tab' = [tab EXCEPT ![t] = Blank]
            BY <2>8 DEF Verify
        <3>3. UNCHANGED flowCookie
            BY <2>8 DEF Verify
        <3> HIDE DEF k
        <3> QED
            BY <1>1, <1>2, <3>1, <3>2, <3>3, LandingStep
    <2>9. CASE Respond(t)
        BY <1>1, <1>3, <2>9 DEF Respond
    <2> QED
        BY <1>5, <2>1, <2>2, <2>3, <2>4, <2>5, <2>6, <2>7, <2>8, <2>9 DEF ServerStep
<1>6. ASSUME NEW t \in Tabs, UserStep(t) PROVE Landing'
    <2>1. CASE Visit(t)
        <3> DEFINE k == [Blank EXCEPT !.pc = "login"]
        <3>1. k \in TabState /\ k.page = None /\ k.flow = None /\ k.returnTo = None
            BY BlankTyped DEF TabState, PCs, Blank
        <3>2. /\ UNCHANGED flowCookie
              /\ tab' = [tab EXCEPT ![t] = k] \/ tab' = [tab EXCEPT ![t] = Landed(t)]
            BY <2>1 DEF Visit
        <3> HIDE DEF k
        <3> QED
            BY <1>3, <3>1, <3>2, LandingStep
    <2>2. CASE Abandon(t) \/ Logout(t)
        BY <1>2, <2>2 DEF Abandon, Logout
    <2> QED
        BY <1>6, <2>1, <2>2 DEF UserStep
<1>7. ASSUME NEW d \in Docs, Arrive(d) PROVE Landing'
    <2>1. ASSUME NEW t \in Tabs
          PROVE  /\ tab'[t].page = tab[t].page /\ tab'[t].returnTo = tab[t].returnTo
                 /\ tab'[t].flow = tab[t].flow
        <3>1. PICK v :
                tab' = [u \in Tabs |-> IF Awaits(u, d) THEN [tab[u] EXCEPT !.waits = FALSE, !.got = v]
                                       ELSE tab[u]]
            BY <1>7 DEF Arrive
        <3>2. tab'[t] \in {[tab[t] EXCEPT !.waits = FALSE, !.got = v], tab[t]}
            BY <3>1
        <3> QED
            BY <1>1, <3>2 DEF TabState
    <2>2. UNCHANGED flowCookie
        BY <1>7 DEF Arrive
    <2> QED
        BY <2>1, <2>2 DEF Landing
<1>8. ASSUME NEW d \in Docs, FetchFails(d) PROVE Landing'
    <2>1. ASSUME NEW t \in Tabs PROVE tab'[t] \in {tab[t], Blank}
        BY <1>8 DEF FetchFails
    <2>2. UNCHANGED flowCookie /\ (flowCookie # None => flowCookie.flow # None)
        BY <1>8, NoneAssumption DEF FetchFails, TypeOK, Cookies
    <2>3. Blank.page = None /\ Blank.returnTo = None /\ Blank.flow = None
        BY BlankTyped
    <2>4. ASSUME NEW t \in Tabs PROVE tab'[t].page \in {t, None} /\ tab'[t].returnTo \in {t, None}
        BY <2>1, <2>3 DEF Landing
    <2>5. ASSUME flowCookie # None, NEW t \in Tabs, tab'[t].flow = flowCookie.flow
          PROVE  flowCookie.returnTo = t
        <3>1. tab'[t] = tab[t]
            BY <2>1, <2>2, <2>3, <2>5
        <3> QED
            BY <2>5, <3>1 DEF Landing
    <2> QED
        BY <2>2, <2>4, <2>5 DEF Landing
<1>9. CASE Tick
    <2>1. UNCHANGED tab /\ flowCookie' = Aged(flowCookie)
        BY <1>9 DEF Tick
    <2>2. ASSUME flowCookie' # None
          PROVE  flowCookie # None /\ flowCookie'.flow = flowCookie.flow /\ flowCookie'.returnTo = flowCookie.returnTo
        BY <2>1, <2>2 DEF Aged, TypeOK, Cookies
    <2> QED
        BY <2>1, <2>2 DEF Landing
<1>10. ASSUME UNCHANGED <<tab, flowCookie>> PROVE Landing'
    BY <1>10 DEF Landing
<1> QED
    BY <1>5, <1>6, <1>7, <1>8, <1>9, <1>10 DEF Next, ProviderStep, Rotate, BecomeQuiet

\* Every tab that shows a page shows the one it asked for, whatever flows other tabs began,
\* completed or abandoned meanwhile, although they share one cookie.
THEOREM LandsAtHome == Spec => []LandsWhereItStarted
<1>1. Landing => LandsWhereItStarted
    BY DEF Landing, LandsWhereItStarted
<1> QED
    BY <1>1, InitTyped, NextTyped, InitLanding, NextLanding, PTL DEF Spec
-----------------------------------------------------------------------------
(* How old a key can be *)

\* k signs, or was withdrawn n ticks ago at most.
Recent(k, n) == k \in Keys /\ (k = signing \/ withdrawn[k] <= n)

\* What a tab that verifies holds, while p is the request for the keys under way: the key
\* of its token aged while it waited, and so did the keys it was given.
HoldsRecent(r, p) ==
    r.pc = "keys" =>
        IF r.waits THEN p # None /\ Recent(r.token, Timeout - p.left)
                   ELSE Recent(r.got, Window - 1) /\ Recent(r.token, Window - 1)

\* A copy has aged as long as its lifetime has run, and the request for it before that.
Aging ==
    /\ cache["jwks"] # None => Recent(cache["jwks"].version, Window - 1 - cache["jwks"].left)
    /\ pending["jwks"] # None => Recent(pending["jwks"].version, Timeout - pending["jwks"].left)
    /\ \A t \in Tabs : HoldsRecent(tab[t], pending["jwks"])

LEMMA InitAging == Init => Aging
BY BlankTyped DEF Init, Aging, HoldsRecent, Docs

LEMMA DocsTyped ==
    ASSUME TypeOK
    PROVE  /\ cache["jwks"] \in Copies \cup {None} /\ pending["jwks"] \in Requests \cup {None}
           /\ cache["jwks"] # None => cache["jwks"].left \in 1 .. CacheTime
           /\ pending["jwks"] # None => pending["jwks"].left \in 0 .. Timeout
           /\ signing \in Keys /\ withdrawn \in [Keys -> 0 .. Window]
<1>1. cache["jwks"] \in Copies \cup {None} /\ pending["jwks"] \in Requests \cup {None}
    BY DEF TypeOK, Docs
<1> QED
    BY <1>1 DEF TypeOK, Copies, Requests

LEMMA RecentLonger ==
    ASSUME TypeOK, NEW k, NEW m \in Int, NEW n \in Int, m <= n, Recent(k, m)
    PROVE  Recent(k, n)
BY TimesTyped DEF Recent, TypeOK

LEMMA SigningRecent == ASSUME TypeOK, NEW n PROVE Recent(signing, n)
BY DEF Recent, TypeOK

\* A tab moves on to something else than verifying, and the keys are not touched.
LEMMA AgingStep ==
    ASSUME TypeOK, Aging, NEW t \in Tabs, NEW k \in TabState, tab' = [tab EXCEPT ![t] = k],
           k.pc # "keys", UNCHANGED provider, cache'["jwks"] = cache["jwks"],
           pending'["jwks"] = pending["jwks"]
    PROVE  Aging'
<1>1. ASSUME NEW u \in Tabs PROVE tab'[u] = IF u = t THEN k ELSE tab[u]
    BY DEF TypeOK
<1>2. ASSUME NEW u \in Tabs PROVE HoldsRecent(tab'[u], pending["jwks"])
    BY <1>1 DEF Aging, HoldsRecent
<1>3. UNCHANGED <<signing, withdrawn>>
    BY DEF provider
<1> QED
    BY <1>2, <1>3 DEF Aging, HoldsRecent, Recent

LEMMA NextAging == TypeOK /\ Aging /\ [Next]_vars => Aging'
<1> SUFFICES ASSUME TypeOK, Aging, [Next]_vars PROVE Aging'
    OBVIOUS
<1>0. /\ \A t \in Tabs : tab[t] \in TabState /\ HoldsRecent(tab[t], pending["jwks"])
      /\ "jwks" \in Docs /\ "configuration" \in Docs /\ "jwks" # "configuration"
    BY DEF TypeOK, Aging, Docs
<1>1. ASSUME NEW t \in Tabs, NEW k \in TabState, tab' = [tab EXCEPT ![t] = k], k.pc # "keys",
             UNCHANGED <<cache, pending, provider>>
      PROVE  Aging'
    BY <1>1, AgingStep
<1>2. ASSUME NEW t \in Tabs, NEW next \in TabState, Load(t, next), next.pc # "keys",
             UNCHANGED <<cache, provider>>
      PROVE  Aging'
    <2>1. PICK k \in TabState :
             /\ tab' = [tab EXCEPT ![t] = k] /\ k.pc = next.pc
             /\ UNCHANGED pending \/ pending' = Asked("configuration")
        BY <1>2, LoadRecord DEF DocOf
    <2>2. pending'["jwks"] = pending["jwks"]
        BY <1>0, <2>1 DEF Asked, TypeOK
    <2> QED
        BY <1>2, <2>1, <2>2, AgingStep
<1>3. ASSUME NEW t \in Tabs, Exchange(t) PROVE Aging'
    <2> DEFINE next == [tab[t] EXCEPT !.pc = "keys", !.token = signing, !.got = None]
    <2>1. /\ next \in TabState /\ next.pc = "keys" /\ next.token = signing /\ ~next.waits
          /\ DocOf(next.pc) = "jwks" /\ Load(t, next) /\ UNCHANGED <<cache, provider>>
        BY <1>0, <1>3 DEF Exchange, At, TypeOK, TabState, PCs, DocOf
    <2> HIDE DEF next
    <2>2. PICK k \in TabState :
             /\ tab' = [tab EXCEPT ![t] = k] /\ k.pc = "keys" /\ k.token = signing
             /\ \/ /\ cache["jwks"] # None /\ UNCHANGED pending
                   /\ ~k.waits /\ k.got = cache["jwks"].version
                \/ /\ cache["jwks"] = None /\ k.waits
                   /\ pending' = IF pending["jwks"] # None THEN pending ELSE Asked("jwks")
        BY <2>1, LoadRecord
    <2>3. UNCHANGED <<signing, withdrawn>>
        BY <2>1 DEF provider
    <2>4. ASSUME NEW u \in Tabs PROVE tab'[u] = IF u = t THEN k ELSE tab[u]
        BY <2>2 DEF TypeOK
    <2>5. CASE cache["jwks"] # None /\ UNCHANGED pending /\ ~k.waits /\ k.got = cache["jwks"].version
        <3>1. Window - 1 - cache["jwks"].left \in Int /\ Window - 1 \in Int
              /\ Window - 1 - cache["jwks"].left <= Window - 1
            BY <2>5, DocsTyped, TimesTyped
        <3>2. Recent(k.got, Window - 1)
            BY <2>5, <3>1, RecentLonger DEF Aging
        <3>3. Recent(k.token, Window - 1)
            BY <2>2, SigningRecent
        <3>4. HoldsRecent(k, pending["jwks"])
            BY <2>5, <3>2, <3>3 DEF HoldsRecent
        <3>5. \A u \in Tabs : HoldsRecent(tab'[u], pending["jwks"])
            BY <1>0, <2>4, <3>4
        <3> QED
            BY <2>1, <2>3, <2>5, <3>5 DEF Aging, HoldsRecent, Recent
    <2>6. CASE /\ cache["jwks"] = None /\ k.waits
               /\ pending' = IF pending["jwks"] # None THEN pending ELSE Asked("jwks")
        <3> DEFINE q == [version |-> signing, left |-> Timeout]
        <3>1. q \in Requests /\ q # None
            BY NoneAssumption, TimesTyped DEF Requests, TypeOK, Versions
        <3>2. pending["jwks"] = None => pending'["jwks"] = q
            BY <1>0, <2>6 DEF Asked, Current, TypeOK
        <3>3. pending["jwks"] # None => pending'["jwks"] = pending["jwks"]
            BY <2>6
        <3>4. q.version = signing
            OBVIOUS
        <3> HIDE DEF q
        <3>5. pending'["jwks"] # None
            BY <3>1, <3>2, <3>3
        <3>6. Recent(pending'["jwks"].version, Timeout - pending'["jwks"].left)
            BY <3>2, <3>3, <3>4, SigningRecent DEF Aging
        <3>7. HoldsRecent(k, pending'["jwks"])
            BY <2>2, <2>6, <3>5, SigningRecent DEF HoldsRecent
        <3>8. ASSUME NEW u \in Tabs PROVE HoldsRecent(tab[u], pending'["jwks"])
            BY <1>0, <3>3, <3>5 DEF HoldsRecent
        <3>9. \A u \in Tabs : HoldsRecent(tab'[u], pending'["jwks"])
            BY <2>4, <3>7, <3>8
        <3> QED
            BY <2>1, <2>3, <2>6, <3>6, <3>9 DEF Aging, HoldsRecent, Recent
    <2> QED
        BY <2>2, <2>5, <2>6
<1>4. ASSUME NEW t \in Tabs, ServerStep(t), ~Exchange(t) PROVE Aging'
    <2>1. CASE LoginKnown(t)
        BY <1>1, <2>1, LandedTyped DEF LoginKnown
    <2>2. CASE Login(t)
        BY <1>0, <1>2, <2>2 DEF Login, At
    <2>3. CASE BeginFlow(t)
        <3>1. PICK f \in Flows : tab' = [tab EXCEPT ![t] = [Blank EXCEPT !.pc = "consent", !.flow = f]]
            BY <2>3 DEF BeginFlow, FreshFlows
        <3> DEFINE k == [Blank EXCEPT !.pc = "consent", !.flow = f]
        <3>2. k \in TabState /\ k.pc = "consent"
            BY BlankTyped DEF TabState, PCs
        <3> QED
            BY <1>1, <2>3, <3>1, <3>2 DEF BeginFlow
    <2>4. CASE CallbackRefused(t)
        BY <1>1, <2>4, BlankTyped DEF CallbackRefused
    <2>5. CASE Callback(t)
        <3> DEFINE next == [Blank EXCEPT !.pc = "exchange", !.returnTo = flowCookie.returnTo]
        <3>1. next \in TabState /\ next.pc = "exchange"
            BY <2>5, BlankTyped DEF Callback, StateMatches, TypeOK, Cookies, TabState, PCs
        <3> QED
            BY <1>2, <2>5, <3>1 DEF Callback
    <2>6. CASE ExchangeFails(t) \/ TokenRefused(t) \/ RespondFails(t)
        BY <1>1, <2>6, BlankTyped DEF ExchangeFails, TokenRefused, RespondFails
    <2>7. CASE Verify(t)
        <3> DEFINE k == [Blank EXCEPT !.pc = "respond", !.returnTo = tab[t].returnTo]
        <3>1. k \in TabState /\ k.pc = "respond"
            BY <1>0, BlankTyped DEF TabState, PCs
        <3>2. tab' = [tab EXCEPT ![t] = k] \/ tab' = [tab EXCEPT ![t] = Blank]
            BY <2>7 DEF Verify
        <3> HIDE DEF k
        <3> QED
            BY <1>1, <2>7, <3>1, <3>2, BlankTyped DEF Verify
    <2>8. CASE Respond(t)
        <3>1. tab[t].returnTo \in Tabs \cup {None}
            BY <1>0 DEF TabState
        <3> QED
            BY <1>1, <2>8, <3>1, LandedTyped DEF Respond
    <2> QED
        BY <1>4, <2>1, <2>2, <2>3, <2>4, <2>5, <2>6, <2>7, <2>8 DEF ServerStep
<1>5. ASSUME NEW t \in Tabs, UserStep(t) PROVE Aging'
    <2>1. CASE Visit(t)
        <3> DEFINE k == [Blank EXCEPT !.pc = "login"]
        <3>1. k \in TabState /\ k.pc = "login"
            BY BlankTyped DEF TabState, PCs
        <3>2. tab' = [tab EXCEPT ![t] = k] \/ tab' = [tab EXCEPT ![t] = Landed(t)]
            BY <2>1 DEF Visit
        <3> HIDE DEF k
        <3> QED
            BY <1>1, <2>1, <3>1, <3>2, LandedTyped DEF Visit
    <2>2. CASE Abandon(t) \/ Logout(t)
        BY <1>1, <2>2, BlankTyped DEF Abandon, Logout
    <2> QED
        BY <1>5, <2>1, <2>2 DEF UserStep
<1>6. CASE Arrive("jwks")
    <2> DEFINE p == pending["jwks"]
    <2>1. /\ p # None /\ p.left \in 0 .. Timeout /\ p.left > 0
          /\ UNCHANGED <<signing, withdrawn>> /\ pending'["jwks"] = None
        BY <1>0, <1>6, DocsTyped DEF Arrive, provider, TypeOK
    <2>2. PICK v \in {p.version, signing} :
            /\ cache' = [cache EXCEPT !["jwks"] = [version |-> v, left |-> CacheTime]]
            /\ tab' = [t \in Tabs |-> IF Awaits(t, "jwks")
                                      THEN [tab[t] EXCEPT !.waits = FALSE, !.got = v] ELSE tab[t]]
        BY <1>6 DEF Arrive, Current
    <2>3. Recent(v, Timeout - p.left) /\ Timeout - p.left \in Int
        <3>1. Recent(p.version, Timeout - p.left)
            BY <2>1 DEF Aging
        <3>2. Recent(signing, Timeout - p.left)
            BY SigningRecent
        <3>3. Timeout - p.left \in Int
            BY <2>1, TimesTyped
        <3> QED
            BY <2>2, <3>1, <3>2, <3>3
    <2>4. cache'["jwks"].version = v /\ cache'["jwks"].left = CacheTime
        BY <1>0, <2>2 DEF TypeOK
    <2>5. /\ Window - 1 - CacheTime \in Int /\ Window - 1 \in Int
          /\ Timeout - p.left <= Window - 1 - CacheTime /\ Timeout - p.left <= Window - 1
        BY <2>1, TimesTyped
    <2>6. Recent(v, Window - 1 - CacheTime) /\ Recent(v, Window - 1)
        BY <2>3, <2>5, RecentLonger
    <2>7. ASSUME NEW t \in Tabs PROVE HoldsRecent(tab'[t], None)
        <3>1. CASE Awaits(t, "jwks") /\ tab[t].pc = "keys"
            <4>1. tab'[t] = [tab[t] EXCEPT !.waits = FALSE, !.got = v]
                BY <2>2, <3>1
            <4>2. tab'[t].waits = FALSE /\ tab'[t].got = v /\ tab'[t].token = tab[t].token
                BY <1>0, <4>1 DEF TabState
            <4>3. Recent(tab[t].token, Timeout - p.left)
                BY <1>0, <3>1 DEF HoldsRecent, Awaits
            <4>4. Recent(tab[t].token, Window - 1)
                BY <2>3, <2>5, <4>3, RecentLonger
            <4> QED
                BY <2>6, <4>2, <4>4 DEF HoldsRecent
        <3>2. CASE ~Awaits(t, "jwks")
            <4>1. tab'[t] = tab[t] /\ (tab[t].pc = "keys" => ~tab[t].waits)
                BY <2>2, <3>2 DEF Awaits, DocOf
            <4> QED
                BY <1>0, <4>1 DEF HoldsRecent
        <3> QED
            BY <3>1, <3>2 DEF Awaits, DocOf
    <2> HIDE DEF p
    <2>8. Recent(v, Window - 1 - CacheTime)' /\ \A t \in Tabs : HoldsRecent(tab[t], None)'
        BY <2>1, <2>6, <2>7 DEF Recent, HoldsRecent
    <2> QED
        BY <2>1, <2>4, <2>8 DEF Aging, Recent, HoldsRecent
<1>7. CASE Arrive("configuration")
    <2>1. /\ cache'["jwks"] = cache["jwks"] /\ pending'["jwks"] = pending["jwks"]
          /\ UNCHANGED <<signing, withdrawn>>
        BY <1>0, <1>7 DEF Arrive, provider, TypeOK
    <2>2. PICK v : tab' = [t \in Tabs |-> IF Awaits(t, "configuration")
                                          THEN [tab[t] EXCEPT !.waits = FALSE, !.got = v] ELSE tab[t]]
        BY <1>7 DEF Arrive
    <2>3. ASSUME NEW t \in Tabs PROVE HoldsRecent(tab'[t], pending["jwks"])
        <3>1. CASE tab[t].pc = "keys"
            BY <1>0, <2>2, <3>1 DEF Awaits, DocOf
        <3>2. CASE tab[t].pc # "keys"
            <4>1. tab'[t] \in {[tab[t] EXCEPT !.waits = FALSE, !.got = v], tab[t]}
                BY <2>2
            <4>2. tab'[t].pc # "keys"
                BY <1>0, <3>2, <4>1 DEF TabState
            <4> QED
                BY <4>2 DEF HoldsRecent
        <3> QED
            BY <3>1, <3>2
    <2> QED
        BY <2>1, <2>3 DEF Aging, HoldsRecent, Recent
<1>8. ASSUME NEW d \in Docs, FetchFails(d) PROVE Aging'
    <2>1. /\ UNCHANGED <<cache, signing, withdrawn>>
          /\ pending'["jwks"] = IF d = "jwks" THEN None ELSE pending["jwks"]
          /\ tab' = [t \in Tabs |-> IF Awaits(t, d) THEN Blank ELSE tab[t]]
        BY <1>0, <1>8 DEF FetchFails, Forgotten, provider, TypeOK
    <2>2. ASSUME NEW t \in Tabs PROVE HoldsRecent(tab'[t], pending'["jwks"])
        <3>1. CASE Awaits(t, d)
            BY <2>1, <3>1, BlankTyped DEF HoldsRecent
        <3>2. CASE ~Awaits(t, d)
            <4>1. tab'[t] = tab[t] /\ (tab[t].pc = "keys" /\ tab[t].waits => d # "jwks")
                BY <2>1, <3>2 DEF Awaits, DocOf
            <4> QED
                BY <1>0, <2>1, <4>1 DEF HoldsRecent
        <3> QED
            BY <3>1, <3>2
    <2> QED
        BY <2>1, <2>2 DEF Aging, HoldsRecent, Recent
<1>9. ASSUME NEW k \in Keys, Rotate(k) PROVE Aging'
    <2>1. /\ UNCHANGED <<tab, cache, pending>> /\ signing' = k /\ k \notin KeysInUse
          /\ withdrawn' = [withdrawn EXCEPT ![signing] = 0]
        BY <1>9 DEF Rotate
    <2>2. ASSUME NEW x, x # k, NEW n \in Int, n >= 0, Recent(x, n)
          PROVE  x \in Keys /\ (x = signing' \/ withdrawn'[x] <= n)
        BY <2>1, <2>2, TimesTyped DEF Recent, TypeOK
    <2>3. cache["jwks"] # None => Recent(cache["jwks"].version, Window - 1 - cache["jwks"].left)'
        <3>1. cache["jwks"] # None => cache["jwks"].version # k
            BY <2>1 DEF KeysInUse, VersionIn
        <3>2. cache["jwks"] # None => Window - 1 - cache["jwks"].left \in Int /\ Window - 1 - cache["jwks"].left >= 0
            BY DocsTyped, TimesTyped
        <3> QED
            BY <2>1, <2>2, <3>1, <3>2 DEF Aging, Recent
    <2>4. pending["jwks"] # None => Timeout - pending["jwks"].left \in Int /\ Timeout - pending["jwks"].left >= 0
        BY DocsTyped, TimesTyped
    <2>5. pending["jwks"] # None => Recent(pending["jwks"].version, Timeout - pending["jwks"].left)'
        <3>1. pending["jwks"] # None => pending["jwks"].version # k
            BY <2>1 DEF KeysInUse, VersionIn
        <3> QED
            BY <2>1, <2>2, <2>4, <3>1 DEF Aging, Recent
    <2>6. ASSUME NEW t \in Tabs PROVE HoldsRecent(tab[t], pending["jwks"])'
        <3>1. tab[t].got # k /\ tab[t].token # k
            BY <2>1 DEF KeysInUse
        <3>2. Window - 1 \in Int /\ Window - 1 >= 0
            BY TimesTyped
        <3> QED
            BY <1>0, <2>1, <2>2, <2>4, <3>1, <3>2 DEF HoldsRecent, Recent
    <2> QED
        BY <2>1, <2>3, <2>5, <2>6 DEF Aging
<1>10. CASE Tick
    <2>1. /\ UNCHANGED <<tab, signing>>
          /\ cache'["jwks"] = Aged(cache["jwks"]) /\ pending'["jwks"] = Expiring(pending["jwks"])
          /\ \A t \in Tabs : tab[t].pc = "keys" => tab[t].waits
          /\ pending["jwks"] # None => pending["jwks"].left > 0
        BY <1>0, <1>10 DEF Tick, At
    <2>2. ASSUME NEW x \in Keys PROVE withdrawn'[x] <= withdrawn[x] + 1
        <3>1. withdrawn[x] \in 0 .. Window
            BY <2>2 DEF TypeOK
        <3>2. withdrawn'[x] \in {withdrawn[x], withdrawn[x] + 1}
            BY <1>10, <2>2 DEF Tick
        <3> QED
            BY <3>1, <3>2, TimesTyped
    <2>3. ASSUME NEW x, NEW n \in Int, Recent(x, n)
          PROVE  x \in Keys /\ (x = signing' \/ withdrawn'[x] <= n + 1)
        <3>1. x \in Keys => withdrawn[x] \in 0 .. Window /\ withdrawn'[x] \in 0 .. Window
            BY <1>10, NextTyped DEF TypeOK, Next
        <3> QED
            BY <2>1, <2>2, <2>3, <3>1, TimesTyped DEF Recent
    <2>4. ASSUME cache'["jwks"] # None
          PROVE  Recent(cache["jwks"].version, Window - 1 - cache["jwks"].left)'
        <3>1. /\ cache["jwks"] # None /\ cache'["jwks"] = [cache["jwks"] EXCEPT !.left = @ - 1]
              /\ cache["jwks"] \in Copies /\ cache["jwks"].left \in 1 .. CacheTime
            BY <2>1, <2>4, DocsTyped DEF Aged
        <3>2. cache'["jwks"].version = cache["jwks"].version /\ cache'["jwks"].left = cache["jwks"].left - 1
            BY <3>1 DEF Copies
        <3> DEFINE v == cache["jwks"].version
        <3> DEFINE n == Window - 1 - cache["jwks"].left
        <3>3. Recent(v, n) /\ n \in Int
            BY <3>1, TimesTyped DEF Aging
        <3>4. cache'["jwks"].version = v /\ Window - 1 - cache'["jwks"].left = n + 1
            BY <3>1, <3>2, TimesTyped
        <3> HIDE DEF v, n
        <3>5. v \in Keys /\ (v = signing' \/ withdrawn'[v] <= n + 1)
            BY <2>3, <3>3
        <3> QED
            BY <3>4, <3>5 DEF Recent
    <2>5. ASSUME pending["jwks"] # None
          PROVE  /\ pending'["jwks"] # None /\ pending'["jwks"].version = pending["jwks"].version
                 /\ Timeout - pending["jwks"].left \in Int
                 /\ Timeout - pending'["jwks"].left = Timeout - pending["jwks"].left + 1
        <3>1. /\ pending["jwks"] \in Requests /\ pending["jwks"].left \in 1 .. Timeout
              /\ pending'["jwks"] = [pending["jwks"] EXCEPT !.left = @ - 1]
            BY <2>1, <2>5, DocsTyped, TimesTyped DEF Expiring
        <3>2. pending'["jwks"] \in Requests
            BY <3>1, TimesTyped DEF Requests
        <3>3. pending'["jwks"].version = pending["jwks"].version /\ pending'["jwks"].left = pending["jwks"].left - 1
            BY <3>1 DEF Requests
        <3> QED
            BY <3>1, <3>2, <3>3, NoneAssumption, TimesTyped
    <2>6. pending["jwks"] = None => pending'["jwks"] = None
        BY <2>1 DEF Expiring
    <2> DEFINE n == Timeout - pending["jwks"].left
    <2>7. ASSUME NEW x, pending["jwks"] # None, Recent(x, n)
          PROVE  x \in Keys /\ (x = signing' \/ withdrawn'[x] <= Timeout - pending'["jwks"].left)
        <3>1. n \in Int /\ Timeout - pending'["jwks"].left = n + 1
            BY <2>5, <2>7
        <3> HIDE DEF n
        <3> QED
            BY <2>3, <2>7, <3>1
    <2>8. ASSUME pending'["jwks"] # None
          PROVE  Recent(pending["jwks"].version, Timeout - pending["jwks"].left)'
        <3>1. pending["jwks"] # None /\ Recent(pending["jwks"].version, n)
            BY <2>6, <2>8 DEF Aging
        <3> HIDE DEF n
        <3> QED
            BY <2>5, <2>7, <3>1 DEF Recent
    <2>9. ASSUME NEW t \in Tabs PROVE HoldsRecent(tab[t], pending["jwks"])'
        <3>1. CASE tab[t].pc # "keys"
            BY <2>1, <3>1 DEF HoldsRecent
        <3>2. CASE tab[t].pc = "keys"
            <4>1. tab[t].waits /\ pending["jwks"] # None /\ Recent(tab[t].token, n)
                BY <1>0, <2>1, <3>2 DEF HoldsRecent
            <4> HIDE DEF n
            <4> QED
                BY <2>1, <2>5, <2>7, <3>2, <4>1 DEF HoldsRecent, Recent
        <3> QED
            BY <3>1, <3>2
    <2> QED
        BY <2>4, <2>8, <2>9 DEF Aging
<1>11. CASE UNCHANGED <<tab, cache, pending, provider>>
    BY <1>11 DEF Aging, HoldsRecent, Recent, provider
<1> QED
    BY <1>3, <1>4, <1>5, <1>6, <1>7, <1>8, <1>9, <1>10, <1>11 DEF Next, ProviderStep, BecomeQuiet, vars, Docs, provider

\* A token signed with the provider's key is refused for its key only within the lifetime of
\* a cached copy and of the request that brought it, after a rotation.
THEOREM RefusedAfterRotation == Spec => []RefusalsFollowRotation
<1>1. TypeOK /\ Aging => RefusalsFollowRotation
    <2> SUFFICES ASSUME TypeOK, Aging, NEW t \in Tabs, At(t, "keys"), tab[t].got # tab[t].token
                 PROVE  \E k \in {tab[t].got, tab[t].token} : k # signing /\ withdrawn[k] < Window
        BY DEF RefusalsFollowRotation
    <2>1. Recent(tab[t].got, Window - 1) /\ Recent(tab[t].token, Window - 1)
        BY DEF Aging, HoldsRecent, At
    <2> QED
        BY <2>1, TimesTyped DEF Recent, TypeOK
<1> QED
    BY <1>1, InitTyped, NextTyped, InitAging, NextAging, PTL DEF Spec

-----------------------------------------------------------------------------
(* Whom a tab waits for *)

\* A tab waits only for a document that is being asked for, so that the provider's answer,
\* its failure or the abort reaches it.
Awaited ==
    \A t \in Tabs : tab[t].waits => /\ tab[t].pc \in {"login", "exchange", "keys"}
                                    /\ pending[DocOf(tab[t].pc)] # None

LEMMA InitAwaited == Init => Awaited
BY BlankTyped DEF Init, Awaited

\* t moves on and does not wait; no request is dropped.
LEMMA AwaitedStep ==
    ASSUME TypeOK, Awaited, NEW t \in Tabs, NEW k \in TabState, tab' = [tab EXCEPT ![t] = k],
           k.waits => /\ k.pc \in {"login", "exchange", "keys"}
                      /\ pending'[DocOf(k.pc)] # None,
           \A d \in Docs : pending[d] # None => pending'[d] # None
    PROVE  Awaited'
<1>1. \A u \in Tabs : tab'[u] = IF u = t THEN k ELSE tab[u]
    BY DEF TypeOK
<1> QED
    BY <1>1 DEF Awaited, DocOf, Docs

LEMMA LoadAwaited ==
    ASSUME TypeOK, Awaited, NEW t \in Tabs, NEW next \in TabState, Load(t, next), ~next.waits,
           next.pc \in {"login", "exchange", "keys"}
    PROVE  Awaited'
<1>1. PICK k \in TabState :
         /\ tab' = [tab EXCEPT ![t] = k] /\ k.pc = next.pc
         /\ \/ UNCHANGED pending /\ ~k.waits
            \/ pending' = IF pending[DocOf(k.pc)] # None THEN pending ELSE Asked(DocOf(k.pc))
    BY LoadRecord
<1>2. DocOf(k.pc) \in Docs
    BY DEF DocOf, Docs
<1>3. ASSUME NEW d \in Docs
      PROVE  Asked(d)[d] # None /\ \A e \in Docs \ {d} : Asked(d)[e] = pending[e]
    <2>1. Asked(d)[d] = [version |-> Current(d), left |-> Timeout]
        BY DEF TypeOK, Asked
    <2>2. Asked(d)[d] \in Requests
        BY <2>1, AskedTyped, TimesTyped DEF Requests
    <2> QED
        BY <2>2, NoneAssumption DEF TypeOK, Asked
<1>4. \A d \in Docs : pending[d] # None => pending'[d] # None
    BY <1>1, <1>2, <1>3
<1>5. k.waits => pending'[DocOf(k.pc)] # None
    BY <1>1, <1>2, <1>3
<1> QED
    BY <1>1, <1>4, <1>5, AwaitedStep

LEMMA NextAwaited == TypeOK /\ Awaited /\ [Next]_vars => Awaited'
<1> SUFFICES ASSUME TypeOK, Awaited, [Next]_vars PROVE Awaited'
    OBVIOUS
<1>1. ASSUME NEW t \in Tabs PROVE tab[t] \in TabState
    BY DEF TypeOK
<1>2. ASSUME NEW t \in Tabs, NEW k \in TabState, tab' = [tab EXCEPT ![t] = k], ~k.waits,
             UNCHANGED pending
      PROVE  Awaited'
    BY <1>2, AwaitedStep
<1>3. ASSUME NEW t \in Tabs, NEW p \in Tabs \cup {None}, UNCHANGED pending,
             tab' = [tab EXCEPT ![t] = Landed(p)]
      PROVE  Awaited'
    <2>1. Landed(p) \in TabState /\ ~Landed(p).waits
        BY LandedTyped, BlankTyped DEF Landed, Blank
    <2> QED
        BY <1>2, <1>3, <2>1
<1>4. ASSUME NEW t \in Tabs, UNCHANGED pending, tab' = [tab EXCEPT ![t] = Blank]
      PROVE  Awaited'
    BY <1>2, <1>4, BlankTyped
<1>5. ASSUME NEW t \in Tabs, ServerStep(t) PROVE Awaited'
    <2>1. CASE LoginKnown(t)
        BY <1>3, <2>1 DEF LoginKnown
    <2>2. CASE Login(t)
        BY <1>1, <2>2, LoadAwaited DEF Login, At
    <2>3. CASE BeginFlow(t)
        <3>1. PICK f \in Flows : tab' = [tab EXCEPT ![t] = [Blank EXCEPT !.pc = "consent", !.flow = f]]
            BY <2>3 DEF BeginFlow, FreshFlows
        <3>2. /\ [Blank EXCEPT !.pc = "consent", !.flow = f] \in TabState
              /\ ~[Blank EXCEPT !.pc = "consent", !.flow = f].waits
            BY BlankTyped DEF TabState, PCs, Blank
        <3> QED
            BY <1>2, <2>3, <3>1, <3>2 DEF BeginFlow
    <2>4. CASE CallbackRefused(t)
        BY <1>4, <2>4 DEF CallbackRefused
    <2>5. CASE Callback(t)
        <3> DEFINE next == [Blank EXCEPT !.pc = "exchange", !.returnTo = flowCookie.returnTo]
        <3>1. flowCookie \in Cookies
            BY <2>5 DEF Callback, StateMatches, TypeOK
        <3>2. next \in TabState /\ ~next.waits /\ next.pc = "exchange"
            BY <3>1, BlankTyped DEF TabState, PCs, Blank, Cookies
        <3> QED
            BY <2>5, <3>2, LoadAwaited DEF Callback
    <2>6. CASE Exchange(t)
        <3> DEFINE next == [tab[t] EXCEPT !.pc = "keys", !.token = signing, !.got = None]
        <3>1. next \in TabState /\ next.waits = tab[t].waits /\ next.pc = "keys"
            BY <1>1 DEF TypeOK, TabState, PCs
        <3> QED
            BY <2>6, <3>1, LoadAwaited DEF Exchange, At
    <2>7. CASE ExchangeFails(t) \/ TokenRefused(t) \/ RespondFails(t)
        BY <1>4, <2>7 DEF ExchangeFails, TokenRefused, RespondFails
    <2>8. CASE Verify(t)
        <3> DEFINE k == [Blank EXCEPT !.pc = "respond", !.returnTo = tab[t].returnTo]
        <3>1. k \in TabState /\ ~k.waits
            BY <1>1, BlankTyped DEF TabState, PCs, Blank
        <3>2. tab' = [tab EXCEPT ![t] = k] \/ tab' = [tab EXCEPT ![t] = Blank]
            BY <2>8 DEF Verify
        <3>3. UNCHANGED pending
            BY <2>8 DEF Verify
        <3> HIDE DEF k
        <3> QED
            BY <1>2, <1>4, <3>1, <3>2, <3>3
    <2>9. CASE Respond(t)
        <3>1. tab[t].returnTo \in Tabs \cup {None}
            BY <1>1 DEF TabState
        <3> QED
            BY <1>3, <2>9, <3>1 DEF Respond
    <2> QED
        BY <1>5, <2>1, <2>2, <2>3, <2>4, <2>5, <2>6, <2>7, <2>8, <2>9 DEF ServerStep
<1>6. ASSUME NEW t \in Tabs, UserStep(t) PROVE Awaited'
    <2>1. CASE Visit(t)
        <3> DEFINE k == [Blank EXCEPT !.pc = "login"]
        <3>1. k \in TabState /\ ~k.waits
            BY BlankTyped DEF TabState, PCs, Blank
        <3>2. UNCHANGED pending /\ (tab' = [tab EXCEPT ![t] = k] \/ tab' = [tab EXCEPT ![t] = Landed(t)])
            BY <2>1 DEF Visit
        <3> HIDE DEF k
        <3> QED
            BY <1>2, <1>3, <3>1, <3>2
    <2>2. CASE Abandon(t) \/ Logout(t)
        BY <1>4, <2>2 DEF Abandon, Logout
    <2> QED
        BY <1>6, <2>1, <2>2 DEF UserStep
\* Who waits for d goes on, who waits for another document has its request still.
<1>7. ASSUME NEW d \in Docs, Arrive(d) \/ FetchFails(d) PROVE Awaited'
    <2>1. pending' = [pending EXCEPT ![d] = None]
        BY <1>7 DEF Arrive, FetchFails, Forgotten
    <2>2. ASSUME NEW t \in Tabs PROVE (tab'[t] = tab[t] /\ ~Awaits(t, d)) \/ ~tab'[t].waits
        <3>1. CASE Arrive(d)
            <4>1. PICK v : tab' = [u \in Tabs |-> IF Awaits(u, d)
                                      THEN [tab[u] EXCEPT !.waits = FALSE, !.got = v] ELSE tab[u]]
                BY <3>1 DEF Arrive
            <4>2. ~[tab[t] EXCEPT !.waits = FALSE, !.got = v].waits
                BY <1>1 DEF TabState
            <4> QED
                BY <4>1, <4>2
        <3>2. CASE FetchFails(d)
            <4>1. tab'[t] = IF Awaits(t, d) THEN Blank ELSE tab[t]
                BY <3>2 DEF FetchFails
            <4> QED
                BY <4>1, BlankTyped
        <3> QED
            BY <1>7, <3>1, <3>2
    <2>3. \A e \in Docs \ {d} : pending'[e] = pending[e]
        BY <2>1 DEF TypeOK
    <2> QED
        BY <2>2, <2>3 DEF Awaited, Awaits, DocOf, Docs
<1>8. CASE Tick
    <2>1. UNCHANGED tab /\ pending' = [d \in Docs |-> Expiring(pending[d])]
        BY <1>8 DEF Tick
    <2>2. ASSUME NEW d \in Docs, pending[d] # None PROVE pending'[d] # None
        <3>1. pending[d] \in Requests /\ pending[d].left > 0
            BY <1>8, <2>2 DEF Tick, TypeOK
        <3>2. [pending[d] EXCEPT !.left = @ - 1] \in Requests
            BY <3>1, TimesTyped DEF Requests
        <3> QED
            BY <2>1, <2>2, <3>2, NoneAssumption DEF Expiring
    <2> QED
        BY <2>1, <2>2 DEF Awaited, DocOf, Docs
<1>9. CASE UNCHANGED <<tab, pending>>
    BY <1>9 DEF Awaited
<1> QED
    BY <1>5, <1>6, <1>7, <1>8, <1>9 DEF Next, ProviderStep, Rotate, BecomeQuiet, vars

\* Nobody waits for a document that nothing will bring: the promise a tab awaits is that of a
\* request which the provider has still to answer or the timeout to abort, however many tabs
\* share it and whichever of them failed (the finally of protocol.ts:46 and :156).
THEOREM NobodyWaitsInVain == Spec => []Awaited
BY InitTyped, NextTyped, InitAwaited, NextAwaited, PTL DEF Spec
=============================================================================
