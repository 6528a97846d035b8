--------------------------- MODULE RequestsProofs ---------------------------
(***************************************************************************)
(* Proofs about Requests for every set of users, visits, resources and     *)
(* deployments, and any number of disturbances: what a request answers and *)
(* writes it was entitled to, and a request that is served finds what all  *)
(* deployments declare.                                                    *)
(***************************************************************************)
EXTENDS Requests, TLAPS

-----------------------------------------------------------------------------
(* The inductive invariant                                                  *)

\* What stands has been noted for a request in flight.
Witnessed(q) ==
    ~ At(q, "idle") =>
        /\ members \subseteq stood[q].members /\ granted \subseteq stood[q].granted
        /\ admins \subseteq stood[q].admins /\ (breaker = "on" => stood[q].open)

Early == {"idle", "initialize", "boundary", "gate", "route", "context"}
Past == {"route", "context", "rights", "call", "reread"}
Calling == {"context", "rights", "call", "reread"}

\* Nobody is known before the identity is asked, nothing is found before the context.
Blank(q) ==
    /\ req[q].pc \in {"idle", "initialize"} => req[q].user = Nobody /\ ~ req[q].system
    /\ req[q].pc \in Early => req[q].seen = {}
    /\ At(q, "idle") => req[q].ctx = Anonymous
    /\ At(q, "boundary") => Visit(q).path = "admin"

\* A request is whom its visit showed it to be, an administrator one it could show.
Identified(q) ==
    /\ req[q].user \in Self(q) \cup {Nobody}
    /\ req[q].system => WasAdmin(q)

\* Who is past the gate found the site open, or asks for its health.
Passed(q) == req[q].pc \in Past => stood[q].open \/ Visit(q).path = "health"

\* A call is one the handler makes; until the reader is called nothing was found.
Serving(q) ==
    /\ req[q].pc \in Calling => req[q].made < Len(Visit(q).calls)
    /\ req[q].pc \in {"context", "rights", "reread"} => ~ Requires(Call(q))
    /\ (\A k \in 1..req[q].made : Requires(Visit(q).calls[k])) => req[q].seen = {}

\* What an actor is, stood: whom it speaks for, of what that user was a member, and what
\* that user was granted.
Stood(q, actor) ==
    /\ actor.publicTenant = PublicTenant
    /\ actor.user # Nobody => actor.user \in Speakers(q)
    /\ actor.system => WasAdmin(q) /\ ~ actor.impersonated
    /\ actor.public => actor.tenant \in {NoTenant, PublicTenant}
    /\ ~ actor.public /\ actor.tenant # NoTenant => <<actor.user, actor.tenant>> \in stood[q].members
    /\ \A s \in actor.scopes : <<actor.user, s>> \in stood[q].granted
Acted(q) == Stood(q, req[q].ctx) /\ (At(q, "rights") => ~ req[q].ctx.public)

Answered(q) == \A found \in req[q].seen : Entitled(q, Resources[found[1]], found[2])

Sound(q) == /\ Witnessed(q) /\ Blank(q) /\ Identified(q) /\ Passed(q) /\ Serving(q)
            /\ Acted(q) /\ Answered(q)
Inv == TypeOK /\ \A q \in Requests : Sound(q)

\* What was written of a manifest is stored, as far as every deployment declares it.
Holds(e) == e \in Common => stored[e] # Absent
Written ==
    \A i \in Isolates :
        /\ registration[i].state = "done" => \A e \in Names : Holds(e)
        /\ registration[i].state = "writing" =>
              /\ registration[i].written \in 0..Len(Manifest[i])
              /\ \A k \in 1..registration[i].written : Holds(Manifest[i][k][1])

-----------------------------------------------------------------------------
(* Rows                                                                     *)

\* What is known of some columns of a row.
Partial(f) ==
    /\ DOMAIN f \subseteq Columns
    /\ "user_id" \in DOMAIN f => f["user_id"] \in Users \cup {Nobody}
    /\ "tenant_id" \in DOMAIN f => f["tenant_id"] \in Tenants \cup {NoTenant}
    /\ "visibility" \in DOMAIN f => f["visibility"] \in {"private", "public"}

LEMMA DefaultIsRow == Default \in Row
    BY DEF Default, Row

LEMMA MergedIsRow ==
    ASSUME NEW f, Partial(f), NEW row \in Row
    PROVE  Over(f, row) \in Row
<1>1. DOMAIN row = Columns /\ DOMAIN f \cup DOMAIN row = Columns
    BY DEF Row, Columns, Partial
<1>2. Over(f, row) = [c \in Columns |-> IF c \in DOMAIN f THEN f[c] ELSE row[c]]
    BY <1>1 DEF Over
<1>3. /\ row["user_id"] \in Users \cup {Nobody} /\ row["tenant_id"] \in Tenants \cup {NoTenant}
      /\ row["visibility"] \in {"private", "public"}
    BY DEF Row
<1> QED
    BY <1>2, <1>3 DEF Row, Columns, Partial

\* The values a handler passes are typed where they say something.
LEMMA ChangeIsPartial == ASSUME NEW values \in Changes PROVE Partial(values)
<1>1. DOMAIN values \subseteq Columns
    BY DEF Changes
<1>2. Over(values, Default) \in Row
    BY DEF Changes
<1>3. \A c \in DOMAIN values : Over(values, Default)[c] = values[c]
    BY DEF Over
<1>4. /\ Over(values, Default)["user_id"] \in Users \cup {Nobody}
      /\ Over(values, Default)["tenant_id"] \in Tenants \cup {NoTenant}
      /\ Over(values, Default)["visibility"] \in {"private", "public"}
    BY <1>2 DEF Row
<1> QED
    BY <1>1, <1>3, <1>4 DEF Partial

LEMMA CleanIsPartial ==
    ASSUME NEW r, NEW scope, NEW values \in Changes
    PROVE  Partial(Clean(r, scope, values))
<1>1. Partial(values)
    BY ChangeIsPartial
<1>2. DOMAIN Clean(r, scope, values) \subseteq DOMAIN values
    BY DEF Clean
<1>3. \A c \in DOMAIN Clean(r, scope, values) : Clean(r, scope, values)[c] = values[c]
    BY DEF Clean
<1> QED
    BY <1>1, <1>2, <1>3 DEF Partial

LEMMA OwnershipIsPartial ==
    ASSUME NEW n \in DOMAIN Resources, NEW scope, NEW actor \in Context
    PROVE  Partial(Ownership(Resources[n], scope, actor))
<1>1. Resources[n].owner = "user_id" /\ Resources[n].tenant = "tenant_id"
    BY RequestsAssumption
<1>2. actor.user \in Users \cup {Nobody} /\ actor.tenant \in Tenants \cup {NoTenant}
    BY DEF Context
<1>3. CASE scope = "user"
    BY <1>1, <1>2, <1>3 DEF Ownership, Partial, Columns
<1>4. CASE scope = "tenant"
    BY <1>1, <1>2, <1>4 DEF Ownership, Partial, Columns
<1>5. CASE scope \notin {"user", "tenant"}
    BY <1>5 DEF Ownership, Partial, Columns
<1> QED
    BY <1>3, <1>4, <1>5

\* An INSERT stores a row, an UPDATE leaves one.
LEMMA InsertedIsRow ==
    ASSUME NEW n \in DOMAIN Resources, NEW scope, NEW actor \in Context, NEW values \in Changes
    PROVE  Inserted(Resources[n], scope, actor, values, Default) \in Row
    BY OwnershipIsPartial, CleanIsPartial, DefaultIsRow, MergedIsRow DEF Inserted

LEMMA UpdatedIsRow ==
    ASSUME NEW n \in DOMAIN Resources, NEW scope, NEW values \in Changes, NEW row \in Row
    PROVE  Updated(Resources[n], scope, values, row) \in Row
    BY CleanIsPartial, MergedIsRow DEF Updated

-----------------------------------------------------------------------------
(* Types                                                                    *)

LEMMA VisitsAreIncoming == AllVisits \subseteq Incoming
    BY RequestsAssumption DEF AllVisits

LEMMA CallIsOne ==
    ASSUME TypeOK, NEW q \in Requests, req[q].made < Len(Visit(q).calls)
    PROVE  Call(q) \in Calls
<1>1. Visit(q) \in Incoming
    BY VisitsAreIncoming DEF TypeOK, Request, Visit
<1>2. Visit(q).calls \in Seq(Calls) /\ req[q].made \in Nat
    BY <1>1 DEF Incoming, TypeOK, Request
<1> QED
    BY <1>2 DEF Call

LEMMA TurnIsOne == \A q, made : Turn(q, made) \in {"done", "context", "call"}
    BY DEF Turn

LEMMA AdmitsIsOne == \A q : Admits(q) \in {"ok", "401", "403"}
    BY DEF Admits

\* The context a request starts from.
LEMMA AnonymousIsContext == Anonymous \in Context /\ Public \in Context
    BY RequestsAssumption DEF Anonymous, Public, Context

LEMMA ActorsAreContexts ==
    ASSUME TypeOK, NEW q \in Requests
    PROVE  /\ Own(q) \in Context
           /\ Token(q) # NoToken => Impersonated(q) \in Context
<1>1. Visit(q) \in Incoming
    BY VisitsAreIncoming DEF TypeOK, Request, Visit
<1>2. Token(q) \in {NoToken} \cup [admin : Users, target : Users]
    BY <1>1 DEF Incoming, Token
<1>3. req[q].user \in Users \cup {Nobody} /\ req[q].system \in BOOLEAN
    BY DEF TypeOK, Request
<1>4. Own(q) \in Context
    BY <1>3, AnonymousIsContext DEF Own, Context
<1>5. ASSUME Token(q) # NoToken PROVE Impersonated(q) \in Context
    BY <1>2, <1>5, AnonymousIsContext DEF Impersonated, Context
<1> QED
    BY <1>4, <1>5

LEMMA FoundIsTyped ==
    ASSUME TypeOK, NEW q \in Requests, req[q].made < Len(Visit(q).calls), ~ Requires(Call(q))
    PROVE  Found(q, Current(q)) \subseteq (DOMAIN Resources) \X Row
<1>1. Call(q).resource \in DOMAIN Resources
    BY CallIsOne DEF Calls, Requires
<1>2. Current(q) \in Row \cup {Absent}
    BY <1>1 DEF TypeOK, Current
<1> QED
    BY <1>1, <1>2 DEF Found, Reached

-----------------------------------------------------------------------------
(* What a step leaves of a request                                          *)

Others(q) == \A p \in Requests \ {q} : req'[p] = req[p]
Keeps(new, old) ==
    /\ new.visit = old.visit /\ new.user = old.user /\ new.system = old.system
    /\ new.ctx = old.ctx /\ new.made = old.made /\ new.seen = old.seen

LEMMA Edited ==
    ASSUME TypeOK, NEW q \in Requests, NEW r \in Request, req' = [req EXCEPT ![q] = r]
    PROVE  req' \in [Requests -> Request] /\ req'[q] = r /\ Others(q)
    BY DEF TypeOK, Others

LEMMA GoesEdits ==
    ASSUME TypeOK, NEW q \in Requests, NEW pc \in PC, Goes(q, pc)
    PROVE  /\ req' \in [Requests -> Request] /\ Others(q)
           /\ req'[q].pc = pc /\ Keeps(req'[q], req[q])
<1> DEFINE new == [req[q] EXCEPT !.pc = pc]
<1>1. req[q] \in Request
    BY DEF TypeOK
<1>2. new \in Request /\ new.pc = pc /\ Keeps(new, req[q])
    BY <1>1 DEF Request, Keeps
<1>3. req' = [req EXCEPT ![q] = new]
    BY DEF Goes
<1> QED
    BY <1>2, <1>3, Edited

LEMMA AnswersEdits ==
    ASSUME TypeOK, NEW q \in Requests, NEW status \in Status, Answers(q, status)
    PROVE  /\ req' \in [Requests -> Request] /\ Others(q)
           /\ req'[q].pc = "done" /\ Keeps(req'[q], req[q])
<1> DEFINE new == [req[q] EXCEPT !.pc = "done", !.status = status]
<1>1. req[q] \in Request
    BY DEF TypeOK
<1>2. new \in Request /\ new.pc = "done" /\ Keeps(new, req[q])
    BY <1>1 DEF Request, Keeps, PC
<1>3. req' = [req EXCEPT ![q] = new]
    BY DEF Answers
<1> QED
    BY <1>2, <1>3, Edited

LEMMA ProceedsEdits ==
    ASSUME TypeOK, NEW q \in Requests, NEW made \in Nat,
           NEW found \in SUBSET ((DOMAIN Resources) \X Row), Proceeds(q, made, found)
    PROVE  /\ req' \in [Requests -> Request] /\ Others(q)
           /\ req'[q].pc = Turn(q, made) /\ req'[q].made = made
           /\ req'[q].seen = req[q].seen \cup found
           /\ req'[q].visit = req[q].visit /\ req'[q].user = req[q].user
           /\ req'[q].system = req[q].system /\ req'[q].ctx = req[q].ctx
<1> DEFINE status == IF Turn(q, made) = "done" THEN "ok" ELSE "none"
           new == [req[q] EXCEPT !.made = made, !.seen = @ \cup found, !.pc = Turn(q, made),
                                 !.status = status]
<1>1. req[q] \in Request /\ Turn(q, made) \in PC /\ status \in Status
    BY TurnIsOne DEF TypeOK, PC, Status
<1> HIDE DEF status
<1>2. /\ new \in Request /\ new.pc = Turn(q, made) /\ new.made = made
      /\ new.seen = req[q].seen \cup found /\ new.visit = req[q].visit /\ new.user = req[q].user
      /\ new.system = req[q].system /\ new.ctx = req[q].ctx
    BY <1>1 DEF Request
<1>3. req' = [req EXCEPT ![q] = new]
    BY DEF Proceeds, status
<1> QED
    BY <1>2, <1>3, Edited

LEMMA KnownEdits ==
    ASSUME TypeOK, NEW q \in Requests, NEW user \in Users \cup {Nobody}, NEW system \in BOOLEAN,
           NEW pc \in PC, Known(q, user, system, pc)
    PROVE  /\ req' \in [Requests -> Request] /\ Others(q)
           /\ req'[q].pc = pc /\ req'[q].user = user /\ req'[q].system = system
           /\ req'[q].visit = req[q].visit /\ req'[q].ctx = req[q].ctx
           /\ req'[q].made = req[q].made /\ req'[q].seen = req[q].seen
<1> DEFINE new == [req[q] EXCEPT !.user = user, !.system = system, !.pc = pc]
<1>1. req[q] \in Request
    BY DEF TypeOK
<1>2. /\ new \in Request /\ new.pc = pc /\ new.user = user /\ new.system = system
      /\ new.visit = req[q].visit /\ new.ctx = req[q].ctx
      /\ new.made = req[q].made /\ new.seen = req[q].seen
    BY <1>1 DEF Request
<1>3. req' = [req EXCEPT ![q] = new]
    BY DEF Known
<1> QED
    BY <1>2, <1>3, Edited

LEMMA ContextEdits ==
    ASSUME TypeOK, NEW q \in Requests, NEW ctx \in Context, NEW pc \in PC,
           NEW pending \in SUBSET {"tenants", "grants"}, ContextIs(q, ctx, pending, pc)
    PROVE  /\ req' \in [Requests -> Request] /\ Others(q)
           /\ req'[q].pc = pc /\ req'[q].ctx = ctx /\ req'[q].user = req[q].user
           /\ req'[q].visit = req[q].visit /\ req'[q].system = req[q].system
           /\ req'[q].made = req[q].made /\ req'[q].seen = req[q].seen
<1> DEFINE new == [req[q] EXCEPT !.ctx = ctx, !.pending = pending, !.pc = pc]
<1>1. req[q] \in Request
    BY DEF TypeOK
<1>2. /\ new \in Request /\ new.pc = pc /\ new.ctx = ctx /\ new.user = req[q].user
      /\ new.visit = req[q].visit /\ new.system = req[q].system
      /\ new.made = req[q].made /\ new.seen = req[q].seen
    BY <1>1 DEF Request
<1>3. req' = [req EXCEPT ![q] = new]
    BY DEF ContextIs
<1> QED
    BY <1>2, <1>3, Edited

LEMMA ArrivesEdits ==
    ASSUME TypeOK, NEW q \in Requests, NEW v \in Visits[q],
           \/ req' = [req EXCEPT ![q].visit = v, ![q].pc = "initialize"]
           \/ req' = [req EXCEPT ![q].visit = v, ![q].pc = "done", ![q].status = "500"]
    PROVE  /\ req' \in [Requests -> Request] /\ Others(q)
           /\ req'[q].pc \in {"initialize", "done"} /\ req'[q].visit = v
           /\ req'[q].user = req[q].user /\ req'[q].system = req[q].system
           /\ req'[q].ctx = req[q].ctx /\ req'[q].made = req[q].made
           /\ req'[q].seen = req[q].seen
<1>1. req[q] \in Request /\ v \in AllVisits
    BY DEF TypeOK, AllVisits
<1>2. CASE req' = [req EXCEPT ![q].visit = v, ![q].pc = "initialize"]
    <2> DEFINE new == [req[q] EXCEPT !.visit = v, !.pc = "initialize"]
    <2>1. /\ new \in Request /\ new.pc = "initialize" /\ new.visit = v
          /\ new.user = req[q].user /\ new.system = req[q].system
          /\ new.ctx = req[q].ctx /\ new.made = req[q].made /\ new.seen = req[q].seen
        BY <1>1 DEF Request, PC
    <2>2. req' = [req EXCEPT ![q] = new]
        BY <1>2
    <2> QED
        BY <2>1, <2>2, Edited
<1>3. CASE req' = [req EXCEPT ![q].visit = v, ![q].pc = "done", ![q].status = "500"]
    <2> DEFINE new == [req[q] EXCEPT !.visit = v, !.pc = "done", !.status = "500"]
    <2>1. /\ new \in Request /\ new.pc = "done" /\ new.visit = v
          /\ new.user = req[q].user /\ new.system = req[q].system
          /\ new.ctx = req[q].ctx /\ new.made = req[q].made /\ new.seen = req[q].seen
        BY <1>1 DEF Request, PC, Status
    <2>2. req' = [req EXCEPT ![q] = new]
        BY <1>3
    <2> QED
        BY <2>1, <2>2, Edited
<1> QED
    BY <1>2, <1>3

-----------------------------------------------------------------------------
(* What stood only grows                                                    *)

Grows(q) ==
    /\ stood[q].members \subseteq stood'[q].members /\ stood[q].granted \subseteq stood'[q].granted
    /\ stood[q].admins \subseteq stood'[q].admins /\ (stood[q].open => stood'[q].open)

LEMMA SameVisit ==
    ASSUME NEW q \in Requests, req'[q].visit = req[q].visit, Grows(q)
    PROVE  /\ Visit(q)' = Visit(q) /\ Self(q)' = Self(q) /\ Token(q)' = Token(q)
           /\ WasAdmin(q) => WasAdmin(q)'
           /\ Speakers(q) \subseteq Speakers(q)'
<1>1. Visit(q)' = Visit(q)
    BY DEF Visit
<1>2. Self(q)' = Self(q) /\ Token(q)' = Token(q)
    BY <1>1 DEF Self, Token
<1>3. WasAdmin(q) => WasAdmin(q)'
    BY <1>1 DEF WasAdmin, Grows
<1>4. Speakers(q) \subseteq Speakers(q)'
    BY <1>2, <1>3 DEF Speakers
<1> QED
    BY <1>1, <1>2, <1>3, <1>4

LEMMA StoodStays ==
    ASSUME NEW q \in Requests, req'[q].visit = req[q].visit, Grows(q), NEW actor, Stood(q, actor)
    PROVE  Stood(q, actor)'
    BY SameVisit DEF Stood, Grows

\* Who was entitled to a row stays entitled to it.
LEMMA EntitledStays ==
    ASSUME NEW q \in Requests, req'[q].visit = req[q].visit, Grows(q),
           req'[q].ctx.impersonated = req[q].ctx.impersonated,
           NEW resource, NEW row, Entitled(q, resource, row)
    PROVE  Entitled(q, resource, row)'
<1>1. /\ Visit(q)' = Visit(q) /\ (WasAdmin(q) => WasAdmin(q)')
      /\ Speakers(q) \subseteq Speakers(q)'
    BY SameVisit
<1>2. (stood[q].open \/ Visit(q).path = "health") => (stood[q].open \/ Visit(q).path = "health")'
    BY <1>1 DEF Grows
<1>3. \A u : u \in Speakers(q) /\ <<u, row.tenant_id>> \in stood[q].members
           => u \in Speakers(q)' /\ <<u, row.tenant_id>> \in stood'[q].members
    BY <1>1 DEF Grows
<1> QED
    BY <1>1, <1>2, <1>3 DEF Entitled

LEMMA UntouchedSound ==
    ASSUME NEW q \in Requests, Sound(q), req'[q] = req[q], Grows(q), Witnessed(q)'
    PROVE  Sound(q)'
<1>1. /\ Visit(q)' = Visit(q) /\ Self(q)' = Self(q)
      /\ WasAdmin(q) => WasAdmin(q)'
    BY SameVisit
<1>2. Call(q)' = Call(q)
    BY <1>1 DEF Call
<1>3. Blank(q)' /\ Identified(q)' /\ Passed(q)' /\ Serving(q)'
    BY <1>1, <1>2 DEF Sound, Blank, Identified, Passed, Serving, At, Grows
<1>4. Stood(q, req[q].ctx)'
    <2> DEFINE actor == req[q].ctx
    <2>1. req'[q].ctx = actor
        OBVIOUS
    <2> QED
        BY StoodStays, <2>1 DEF Sound, Acted, Stood
<1>5. Acted(q)'
    BY <1>4 DEF Acted, Sound, At
<1>6. Answered(q)'
    BY EntitledStays DEF Answered, Sound
<1> QED
    BY <1>3, <1>5, <1>6 DEF Sound

-----------------------------------------------------------------------------
(* What a step of a request keeps                                           *)

Quiet(q) == Others(q) /\ UNCHANGED <<rights, stood>>

LEMMA QuietGrows == ASSUME UNCHANGED stood, NEW q \in Requests PROVE Grows(q)
    BY DEF Grows

\* The requests that do not move stay sound.
LEMMA OthersSound ==
    ASSUME NEW q \in Requests, \A p \in Requests : Sound(p), Quiet(q)
    PROVE  \A p \in Requests \ {q} : Sound(p)'
<1> SUFFICES ASSUME NEW p \in Requests \ {q} PROVE Sound(p)'
    OBVIOUS
<1>1. req'[p] = req[p]
    BY DEF Quiet, Others
<1>2. Witnessed(p)'
    BY <1>1 DEF Sound, Witnessed, Quiet, rights, At
<1> QED
    BY <1>1, <1>2, QuietGrows, UntouchedSound DEF Quiet

\* A step that only moves the program counter.
LEMMA KeptSound ==
    ASSUME NEW q \in Requests, Sound(q), Keeps(req'[q], req[q]), UNCHANGED <<rights, stood>>,
           ~ At(q, "idle"),
           \/ req'[q].pc = "done"
           \/ req'[q].pc = "route" /\ At(q, "gate") /\ (stood[q].open \/ Visit(q).path = "health")
           \/ req'[q].pc = "reread" /\ At(q, "call") /\ ~ Requires(Call(q))
    PROVE  Sound(q)'
<1> USE DEF Sound, Keeps, At
<1>1. req'[q].visit = req[q].visit /\ Grows(q) /\ req'[q].ctx = req[q].ctx
    BY QuietGrows
<1>2. /\ Visit(q)' = Visit(q) /\ Self(q)' = Self(q) /\ (WasAdmin(q) => WasAdmin(q)')
    BY <1>1, SameVisit
<1>3. Call(q)' = Call(q)
    BY <1>2 DEF Call
<1>4. Witnessed(q)'
    BY DEF Witnessed, rights
<1>5. Blank(q)' /\ Identified(q)'
    BY <1>2 DEF Blank, Identified, Early
<1>6. Passed(q)'
    BY <1>2 DEF Passed, Past
<1>7. Serving(q)'
    BY <1>2, <1>3 DEF Serving, Calling
<1>8. Acted(q)'
    <2> DEFINE actor == req[q].ctx
    <2>1. req'[q].ctx = actor
        OBVIOUS
    <2>2. Stood(q, actor)'
        BY <1>1, StoodStays DEF Acted
    <2> QED
        BY <2>1, <2>2 DEF Acted
<1>9. Answered(q)'
    BY <1>1, EntitledStays DEF Answered
<1> QED
    BY <1>4, <1>5, <1>6, <1>7, <1>8, <1>9

\* A step that learns who asks.
LEMMA KnownSound ==
    ASSUME NEW q \in Requests, Sound(q), UNCHANGED <<rights, stood>>,
           req'[q].visit = req[q].visit, req'[q].ctx = req[q].ctx, req'[q].made = req[q].made,
           req'[q].seen = req[q].seen, req[q].pc \in {"initialize", "boundary"},
           req'[q].pc = "gate" \/ (req'[q].pc = "boundary" /\ Visit(q).path = "admin"),
           req'[q].user \in Self(q) \cup {Nobody}, req'[q].system => WasAdmin(q)
    PROVE  Sound(q)'
<1> USE DEF Sound, At
<1>1. Grows(q)
    BY QuietGrows
<1>2. /\ Visit(q)' = Visit(q) /\ Self(q)' = Self(q) /\ (WasAdmin(q) => WasAdmin(q)')
    BY <1>1, SameVisit
<1>3. Witnessed(q)'
    BY DEF Witnessed, rights
<1>4. Blank(q)' /\ Identified(q)'
    BY <1>2 DEF Blank, Identified, Early
<1>5. Passed(q)' /\ Serving(q)'
    BY <1>2 DEF Passed, Past, Serving, Calling, Blank, Early
<1>6. Acted(q)'
    <2> DEFINE actor == req[q].ctx
    <2>1. req'[q].ctx = actor
        OBVIOUS
    <2>2. Stood(q, actor)'
        BY <1>1, StoodStays DEF Acted
    <2> QED
        BY <2>1, <2>2 DEF Acted
<1>7. Answered(q)'
    BY <1>1, EntitledStays DEF Answered
<1> QED
    BY <1>3, <1>4, <1>5, <1>6, <1>7

\* A step of the handler that found something it was entitled to.
LEMMA ProceedsSound ==
    ASSUME TypeOK, NEW q \in Requests, Sound(q), UNCHANGED <<rights, stood>>,
           NEW made \in Nat, NEW found, made <= Len(Visit(q).calls),
           req'[q].pc = Turn(q, made), req'[q].made = made,
           req'[q].seen = req[q].seen \cup found, req'[q].visit = req[q].visit,
           req'[q].user = req[q].user, req'[q].system = req[q].system,
           req'[q].ctx = req[q].ctx, req[q].pc \in Past,
           \A f \in found : Entitled(q, Resources[f[1]], f[2]),
           (\A k \in 1..made : Requires(Visit(q).calls[k])) => req[q].seen = {} /\ found = {}
    PROVE  Sound(q)'
<1> USE DEF Sound, At
<1>1. Grows(q)
    BY QuietGrows
<1>2. /\ Visit(q)' = Visit(q) /\ Self(q)' = Self(q) /\ (WasAdmin(q) => WasAdmin(q)')
    BY <1>1, SameVisit
<1>3. Turn(q, made) \in {"done", "context", "call"}
    BY TurnIsOne
<1>4. Witnessed(q)'
    BY DEF Witnessed, rights, Past
<1>5. Turn(q, made) = "context" =>
         /\ ~ Requires(Visit(q).calls[made + 1])
         /\ \A k \in 1..made : Requires(Visit(q).calls[k])
    BY DEF Turn
<1>6. Turn(q, made) # "done" => made < Len(Visit(q).calls)
    <2>1. Visit(q).calls \in Seq(Calls)
        BY VisitsAreIncoming DEF TypeOK, Request, Visit, Incoming
    <2> QED
        BY <2>1 DEF Turn
<1>7. Blank(q)' /\ Identified(q)' /\ Passed(q)'
    BY <1>2, <1>3, <1>5 DEF Blank, Identified, Early, Passed, Past
<1>8. Call(q)' = Visit(q).calls[made + 1]
    BY <1>2 DEF Call
<1>9. Serving(q)'
    BY <1>2, <1>3, <1>5, <1>6, <1>8 DEF Serving, Calling
<1>10. Acted(q)'
    <2> DEFINE actor == req[q].ctx
    <2>1. req'[q].ctx = actor
        OBVIOUS
    <2>2. Stood(q, actor)'
        BY <1>1, StoodStays DEF Acted
    <2> QED
        BY <1>3, <2>1, <2>2 DEF Acted
<1>11. Answered(q)'
    BY <1>1, EntitledStays DEF Answered
<1> QED
    BY <1>4, <1>7, <1>9, <1>10, <1>11

\* A step that reads the context, or a part of it.
LEMMA ContextSound ==
    ASSUME NEW q \in Requests, Sound(q), UNCHANGED <<rights, stood>>,
           NEW ctx, NEW pc \in {"rights", "call"},
           req'[q].pc = pc, req'[q].ctx = ctx, req'[q].user = req[q].user,
           req'[q].visit = req[q].visit, req'[q].system = req[q].system,
           req'[q].made = req[q].made, req'[q].seen = req[q].seen,
           req[q].pc \in {"context", "rights"}, Stood(q, ctx), pc = "rights" => ~ ctx.public,
           At(q, "rights") => ctx.impersonated = req[q].ctx.impersonated
    PROVE  Sound(q)'
<1> USE DEF Sound, At
<1>1. Grows(q)
    BY QuietGrows
<1>2. /\ Visit(q)' = Visit(q) /\ Self(q)' = Self(q) /\ (WasAdmin(q) => WasAdmin(q)')
    BY <1>1, SameVisit
<1>3. Call(q)' = Call(q)
    BY <1>2 DEF Call
<1>4. Witnessed(q)' /\ Blank(q)' /\ Identified(q)'
    BY <1>2 DEF Witnessed, rights, Blank, Identified, Early
<1>5. Passed(q)' /\ Serving(q)'
    BY <1>2, <1>3 DEF Passed, Past, Serving, Calling
<1>6. Acted(q)'
    <2>1. Stood(q, ctx)'
        BY <1>1, StoodStays
    <2> QED
        BY <2>1 DEF Acted
<1>7. Answered(q)'
    <2>1. CASE At(q, "context")
        BY <2>1 DEF Answered, Blank, Early
    <2>2. CASE At(q, "rights")
        BY <1>1, <2>2, EntitledStays DEF Answered
    <2> QED
        BY <2>1, <2>2
<1> QED
    BY <1>4, <1>5, <1>6, <1>7

\* What the policy lets an actor whose claims stood see or touch, the request was entitled to.
LEMMA PermittedIsEntitled ==
    ASSUME TypeOK, NEW q \in Requests, Sound(q), req[q].pc \in {"call", "reread"},
           ~ Requires(Call(q)), NEW op \in DATA_OPERATIONS, NEW row \in Row,
           Permitted(q, op), InScope(Resource(q), Call(q).scope, req[q].ctx, row)
    PROVE  Entitled(q, Resource(q), row)
<1> DEFINE actor == req[q].ctx
           scope == Call(q).scope
           r == Resource(q)
<1>1. Call(q).resource \in DOMAIN Resources /\ scope \in DATA_SCOPES
    BY CallIsOne DEF Calls, Requires, Sound, Serving, Calling
<1>2. /\ r.owner = "user_id" /\ r.tenant = "tenant_id" /\ r.publicRead \in {"no", "all", "shown"}
    BY <1>1, RequestsAssumption DEF Resource
<1>3. stood[q].open \/ Visit(q).path = "health"
    BY DEF Sound, Passed, Past
<1>4. Stood(q, actor) /\ ScopeAllowed(r, scope, actor, op)
    BY DEF Sound, Acted, Permitted, Allowed
<1>5. InScope(r, scope, actor, row)
    OBVIOUS
<1>6. CASE scope = "system"
    BY <1>3, <1>4, <1>6 DEF Entitled, Stood, ScopeAllowed
<1>7. CASE scope = "user"
    BY <1>2, <1>3, <1>4, <1>5, <1>7 DEF Entitled, Stood, ScopeAllowed, InScope
<1>8. CASE scope = "public"
    BY <1>2, <1>3, <1>4, <1>5, <1>8 DEF Entitled, Stood, ScopeAllowed, InScope
<1>9. CASE scope = "tenant"
    <2>1. r.scope = "tenant" /\ row.tenant_id = actor.tenant /\ actor.tenant # NoTenant
        BY <1>2, <1>4, <1>5, <1>9 DEF ScopeAllowed, InScope
    <2>2. CASE actor.public
        BY <1>2, <1>3, <1>4, <1>5, <1>9, <2>1, <2>2 DEF Entitled, Stood, ScopeAllowed, InScope, Shown
    <2>3. CASE ~ actor.public
        BY <1>3, <1>4, <1>9, <2>1, <2>3 DEF Entitled, Stood, ScopeAllowed
    <2> QED
        BY <2>2, <2>3
<1> QED
    BY <1>1, <1>6, <1>7, <1>8, <1>9 DEF DATA_SCOPES

LEMMA FoundIsEntitled ==
    ASSUME TypeOK, NEW q \in Requests, Sound(q), req[q].pc \in {"call", "reread"},
           ~ Requires(Call(q))
    PROVE  /\ Found(q, Current(q)) \subseteq (DOMAIN Resources) \X Row
           /\ \A f \in Found(q, Current(q)) : Entitled(q, Resources[f[1]], f[2])
<1>1. Found(q, Current(q)) \subseteq (DOMAIN Resources) \X Row
    BY FoundIsTyped DEF Sound, Serving, Calling
<1> SUFFICES ASSUME NEW f \in Found(q, Current(q)) PROVE Entitled(q, Resources[f[1]], f[2])
    BY <1>1
<1>2. /\ f = <<Call(q).resource, Current(q)>> /\ Permitted(q, "read") /\ f[2] \in Row
      /\ InScope(Resource(q), Call(q).scope, req[q].ctx, Current(q))
    BY <1>1 DEF Found, Reached
<1>3. Entitled(q, Resource(q), f[2])
    BY <1>2, PermittedIsEntitled DEF DATA_OPERATIONS
<1> QED
    BY <1>2, <1>3 DEF Resource

-----------------------------------------------------------------------------
(* The steps of a request                                                   *)

LEMMA FaultTyped == ASSUME TypeOK, Fault \/ NoFault PROVE left' \in 0..Disturbances
<1>1. left \in 0..Disturbances /\ Disturbances \in Nat
    BY RequestsAssumption DEF TypeOK
<1> QED
    BY <1>1 DEF Fault, NoFault

Moves(q) == req' \in [Requests -> Request] /\ Others(q) /\ Sound(q)'

LEMMA OnlyRequestInv ==
    ASSUME Inv, NEW q \in Requests, OnlyRequest, Fault \/ NoFault, Moves(q)
    PROVE  Inv'
<1>1. UNCHANGED <<rights, stood>> /\ Quiet(q)
    BY DEF OnlyRequest, Quiet, Moves, rights
<1>2. TypeOK'
    BY FaultTyped DEF Inv, TypeOK, OnlyRequest, Moves, rights
<1>3. \A p \in Requests : Sound(p)'
    BY <1>1, OthersSound DEF Inv, Moves
<1> QED
    BY <1>2, <1>3 DEF Inv

LEMMA AnswersMoves ==
    ASSUME Inv, NEW q \in Requests, NEW status \in Status, Answers(q, status), ~ At(q, "idle"),
           UNCHANGED <<rights, stood>>
    PROVE  Moves(q)
<1>1. /\ req' \in [Requests -> Request] /\ Others(q)
      /\ req'[q].pc = "done" /\ Keeps(req'[q], req[q])
    BY AnswersEdits DEF Inv
<1> QED
    BY <1>1, KeptSound DEF Inv, Moves

LEMMA CompletedMoves ==
    ASSUME Inv, NEW q \in Requests, NEW found \in SUBSET ((DOMAIN Resources) \X Row),
           Completed(q, found), req[q].pc \in {"call", "reread"}, UNCHANGED <<rights, stood>>,
           Requires(Call(q)) => found = {},
           \A f \in found : Entitled(q, Resources[f[1]], f[2])
    PROVE  Moves(q)
<1> DEFINE made == req[q].made + 1
<1>1. TypeOK /\ Sound(q)
    BY DEF Inv
<1>2. req[q].made < Len(Visit(q).calls) /\ req[q].made \in Nat /\ Len(Visit(q).calls) \in Nat
    <2>1. Visit(q).calls \in Seq(Calls) /\ req[q].made \in Nat
        BY <1>1, VisitsAreIncoming DEF TypeOK, Request, Visit, Incoming
    <2> QED
        BY <1>1, <2>1 DEF Sound, Serving, Calling
<1>3. made \in Nat /\ made <= Len(Visit(q).calls)
    BY <1>2
<1>4. (\A k \in 1..made : Requires(Visit(q).calls[k])) => req[q].seen = {} /\ found = {}
    <2> SUFFICES ASSUME \A k \in 1..made : Requires(Visit(q).calls[k])
                 PROVE  req[q].seen = {} /\ found = {}
        OBVIOUS
    <2>1. made \in 1..made /\ \A k \in 1..req[q].made : k \in 1..made
        BY <1>2
    <2>2. Requires(Call(q)) /\ \A k \in 1..req[q].made : Requires(Visit(q).calls[k])
        BY <2>1 DEF Call
    <2> QED
        BY <1>1, <2>2 DEF Sound, Serving
<1>5. Proceeds(q, made, found)
    BY DEF Completed
<1>6. /\ req' \in [Requests -> Request] /\ Others(q)
      /\ req'[q].pc = Turn(q, made) /\ req'[q].made = made
      /\ req'[q].seen = req[q].seen \cup found
      /\ req'[q].visit = req[q].visit /\ req'[q].user = req[q].user
      /\ req'[q].system = req[q].system /\ req'[q].ctx = req[q].ctx
    BY <1>1, <1>3, <1>5, ProceedsEdits
<1> HIDE DEF made
<1>7. Sound(q)'
    BY <1>1, <1>3, <1>4, <1>6, ProceedsSound DEF Past
<1> QED
    BY <1>6, <1>7 DEF Moves

LEMMA VisitTyped == ASSUME TypeOK, NEW q \in Requests PROVE Visit(q) \in Incoming
    BY VisitsAreIncoming DEF TypeOK, Request, Visit

LEMMA IdentifyMoves ==
    ASSUME Inv, NEW q \in Requests, Identify(q)
    PROVE  Moves(q) /\ (Fault \/ NoFault)
<1>1. TypeOK /\ Sound(q) /\ At(q, "initialize") /\ UNCHANGED <<rights, stood>>
    BY DEF Inv, Identify, OnlyRequest, rights
<1> DEFINE pc == IF Visit(q).path = "admin" THEN "boundary" ELSE "gate"
<1>2. PICK user \in {Visit(q).user, Nobody} :
          Known(q, user, user \in admins, pc) /\ (Fault \/ NoFault)
    BY DEF Identify
<1>3. user \in Users \cup {Nobody} /\ pc \in PC
    BY <1>1, VisitTyped DEF Incoming, PC
<1> DEFINE system == user \in admins
<1> HIDE DEF pc
<1>4. Known(q, user, system, pc) /\ system \in BOOLEAN
    BY <1>2
<1> HIDE DEF system
<1>5. /\ req' \in [Requests -> Request] /\ Others(q)
      /\ req'[q].pc = pc /\ req'[q].user = user /\ req'[q].system = system
      /\ req'[q].visit = req[q].visit /\ req'[q].ctx = req[q].ctx
      /\ req'[q].made = req[q].made /\ req'[q].seen = req[q].seen
    BY <1>1, <1>3, <1>4, KnownEdits
<1>6. user \in Self(q) \cup {Nobody}
    BY DEF Self
<1>7. system => WasAdmin(q)
    <2>1. admins \subseteq Users /\ admins \subseteq stood[q].admins
        BY <1>1 DEF TypeOK, Sound, Witnessed, At
    <2> QED
        BY <2>1, RequestsAssumption DEF WasAdmin, system
<1>8. Sound(q)'
    <2>1. pc = "gate" \/ (pc = "boundary" /\ Visit(q).path = "admin")
        BY DEF pc
    <2> QED
        BY <1>1, <1>5, <1>6, <1>7, <2>1, KnownSound DEF At
<1> QED
    BY <1>2, <1>5, <1>8 DEF Moves

LEMMA AdminBoundaryMoves ==
    ASSUME Inv, NEW q \in Requests, AdminBoundary(q)
    PROVE  Moves(q) /\ (Fault \/ NoFault)
<1>1. TypeOK /\ Sound(q) /\ At(q, "boundary") /\ UNCHANGED <<rights, stood>> /\ ~ At(q, "idle")
    BY DEF Inv, AdminBoundary, OnlyRequest, rights, At
<1>2. Fault \/ NoFault
    BY DEF AdminBoundary
<1>3. CASE Answers(q, "401") \/ Answers(q, "403") \/ Answers(q, "500")
    BY <1>1, <1>2, <1>3, AnswersMoves DEF Status
<1>4. CASE /\ Authenticated(q)
           /\ Known(q, AdminUser(q), IsAdmin(q) \/ Visit(q).strategy = "http_basic", "gate")
    <2> DEFINE system == IsAdmin(q) \/ Visit(q).strategy = "http_basic"
    <2>1. Visit(q).path = "admin" /\ Visit(q).strategy \in {"oauth", "http_basic"}
        BY <1>1, VisitTyped DEF Sound, Blank, Incoming
    <2>2. AdminUser(q) \in Users \cup {Nobody} /\ system \in BOOLEAN /\ "gate" \in PC
        BY <1>1, RequestsAssumption DEF TypeOK, Request, AdminUser, PC
    <2>3. /\ req' \in [Requests -> Request] /\ Others(q)
          /\ req'[q].pc = "gate" /\ req'[q].user = AdminUser(q) /\ req'[q].system = system
          /\ req'[q].visit = req[q].visit /\ req'[q].ctx = req[q].ctx
          /\ req'[q].made = req[q].made /\ req'[q].seen = req[q].seen
        BY <1>1, <1>4, <2>2, KnownEdits
    <2>4. AdminUser(q) \in Self(q) \cup {Nobody}
        BY <1>1, <2>1 DEF AdminUser, Self, Sound, Identified
    <2>5. system => WasAdmin(q)
        BY <1>1, <1>4, <2>1 DEF IsAdmin, WasAdmin, Authenticated, BasicUser, Sound, Identified
    <2> HIDE DEF system
    <2>6. Sound(q)'
        BY <1>1, <2>3, <2>4, <2>5, KnownSound DEF At
    <2> QED
        BY <1>2, <2>3, <2>6 DEF Moves
<1> QED
    BY <1>3, <1>4 DEF AdminBoundary

LEMMA GateMoves ==
    ASSUME Inv, NEW q \in Requests, Gate(q)
    PROVE  Moves(q) /\ (Fault \/ NoFault)
<1>1. TypeOK /\ Sound(q) /\ At(q, "gate") /\ UNCHANGED <<rights, stood>> /\ ~ At(q, "idle")
    BY DEF Inv, Gate, OnlyRequest, rights, At
<1>2. Fault \/ NoFault
    BY DEF Gate
<1>3. CASE Answers(q, "503")
    BY <1>1, <1>2, <1>3, AnswersMoves DEF Status
<1>4. CASE Goes(q, "route") /\ (Visit(q).path = "health" \/ Opens(breaker))
    <2>1. stood[q].open \/ Visit(q).path = "health"
        BY <1>1, <1>4 DEF Sound, Witnessed, Opens
    <2>2. /\ req' \in [Requests -> Request] /\ Others(q)
          /\ req'[q].pc = "route" /\ Keeps(req'[q], req[q])
        BY <1>1, <1>4, GoesEdits DEF PC
    <2> QED
        BY <1>1, <1>2, <2>1, <2>2, KeptSound DEF Moves
<1> QED
    BY <1>3, <1>4 DEF Gate

LEMMA RouteMoves ==
    ASSUME Inv, NEW q \in Requests, Route(q)
    PROVE  Moves(q) /\ (Fault \/ NoFault)
<1>1. TypeOK /\ Sound(q) /\ At(q, "route") /\ UNCHANGED <<rights, stood>> /\ ~ At(q, "idle")
    BY DEF Inv, Route, OnlyRequest, rights, At
<1>2. Fault \/ NoFault
    BY DEF Route
<1>3. CASE \E status \in {"401", "403", "500"} : Answers(q, status)
    BY <1>1, <1>2, <1>3, AnswersMoves DEF Status
<1>4. CASE Proceeds(q, 0, {})
    <2>1. Len(Visit(q).calls) \in Nat
        BY <1>1, VisitTyped DEF Incoming
    <2>2. /\ req' \in [Requests -> Request] /\ Others(q)
          /\ req'[q].pc = Turn(q, 0) /\ req'[q].made = 0
          /\ req'[q].seen = req[q].seen \cup {}
          /\ req'[q].visit = req[q].visit /\ req'[q].user = req[q].user
          /\ req'[q].system = req[q].system /\ req'[q].ctx = req[q].ctx
        BY <1>1, <1>4, ProceedsEdits
    <2>3. req[q].seen = {} /\ req[q].pc \in Past
        BY <1>1 DEF Sound, Blank, Early, Past, At
    <2>4. 0 \in Nat /\ 0 <= Len(Visit(q).calls)
        BY <2>1
    <2>5. \A f \in {} : Entitled(q, Resources[f[1]], f[2])
        OBVIOUS
    <2>6. Sound(q)'
        BY <1>1, <2>2, <2>3, <2>4, <2>5, ProceedsSound
    <2> QED
        BY <1>2, <2>2, <2>6 DEF Moves
<1> QED
    BY <1>3, <1>4, AdmitsIsOne DEF Route

\* The actors a context starts from stood.
LEMMA ActorsStood ==
    ASSUME Inv, NEW q \in Requests, IsAuthenticated(q)
    PROVE  /\ Stood(q, Own(q)) /\ ~ Own(q).public
           /\ Token(q) # NoToken /\ IsAdmin(q) /\ Token(q).admin = req[q].user
                 => Stood(q, Impersonated(q)) /\ ~ Impersonated(q).public
<1>1. TypeOK /\ Identified(q)
    BY DEF Inv, Sound
<1>2. req[q].user # Nobody /\ req[q].user \in Self(q) /\ (req[q].system => WasAdmin(q))
    BY <1>1 DEF Identified, IsAuthenticated
<1>3. req[q].user \in Speakers(q)
    BY <1>2 DEF Speakers
<1>4. Stood(q, Own(q)) /\ ~ Own(q).public
    BY <1>2, <1>3 DEF Own, Anonymous, Stood
<1>5. ASSUME Token(q) # NoToken, IsAdmin(q), Token(q).admin = req[q].user
      PROVE  Stood(q, Impersonated(q)) /\ ~ Impersonated(q).public
    <2>1. Token(q) \in [admin : Users, target : Users]
        BY <1>1, <1>5, VisitTyped DEF Token, Incoming
    <2>2. Token(q).target # Nobody
        BY <2>1, RequestsAssumption
    <2>3. Token(q).target \in Speakers(q)
        BY <1>2, <1>5, <2>2 DEF Speakers, IsAdmin
    <2> QED
        BY <2>3 DEF Impersonated, Anonymous, Stood
<1> QED
    BY <1>4, <1>5

LEMMA ContextMoves ==
    ASSUME Inv, NEW q \in Requests, UNCHANGED <<rights, stood>>, At(q, "context") \/ At(q, "rights"),
           NEW ctx \in Context, NEW pending \in SUBSET {"tenants", "grants"},
           NEW pc \in {"rights", "call"}, ContextIs(q, ctx, pending, pc),
           Stood(q, ctx), pc = "rights" => ~ ctx.public,
           At(q, "rights") => ctx.impersonated = req[q].ctx.impersonated
    PROVE  Moves(q)
<1>1. TypeOK /\ Sound(q) /\ pc \in PC
    BY DEF Inv, PC
<1>2. /\ req' \in [Requests -> Request] /\ Others(q)
      /\ req'[q].pc = pc /\ req'[q].ctx = ctx /\ req'[q].user = req[q].user
      /\ req'[q].visit = req[q].visit /\ req'[q].system = req[q].system
      /\ req'[q].made = req[q].made /\ req'[q].seen = req[q].seen
    BY <1>1, ContextEdits
<1> QED
    BY <1>1, <1>2, ContextSound DEF Moves, At

LEMMA ContextStartsMoves ==
    ASSUME Inv, NEW q \in Requests, ContextStarts(q)
    PROVE  Moves(q) /\ (Fault \/ NoFault)
<1>1. TypeOK /\ At(q, "context") /\ UNCHANGED <<rights, stood>> /\ ~ At(q, "idle") /\ ~ At(q, "rights")
    BY DEF Inv, ContextStarts, OnlyRequest, rights, At
<1>2. Fault \/ NoFault
    BY DEF ContextStarts
<1>3. CASE ContextIs(q, Public, {}, "call")
    <2>1. Stood(q, Public)
        BY RequestsAssumption DEF Public, Anonymous, Stood
    <2> QED
        BY <1>1, <1>2, <1>3, <2>1, AnonymousIsContext, ContextMoves
<1>4. CASE IsAuthenticated(q) /\ ContextIs(q, Own(q), {"tenants", "grants"}, "rights")
    BY <1>1, <1>2, <1>4, ActorsStood, ActorsAreContexts, ContextMoves
<1>5. CASE /\ Token(q) # NoToken /\ IsAdmin(q) /\ Token(q).admin = req[q].user
           /\ ContextIs(q, Impersonated(q), {"tenants", "grants"}, "rights")
    <2>1. Token(q) \in [admin : Users, target : Users]
        BY <1>1, <1>5, VisitTyped DEF Token, Incoming
    <2>2. IsAuthenticated(q)
        BY <1>5, <2>1, RequestsAssumption DEF IsAuthenticated
    <2> QED
        BY <1>1, <1>2, <1>5, <2>2, ActorsStood, ActorsAreContexts, ContextMoves
<1>6. CASE Answers(q, "500")
    BY <1>1, <1>2, <1>6, AnswersMoves DEF Status
<1> QED
    BY <1>3, <1>4, <1>5, <1>6 DEF ContextStarts

LEMMA ActiveIsOne ==
    ASSUME NEW tenants \in SUBSET Tenants, NEW requested \in Tenants \cup {NoTenant},
           Active(requested, tenants) # NoTenant
    PROVE  Active(requested, tenants) \in tenants
    BY DEF Active

LEMMA ReadTenantsMoves ==
    ASSUME Inv, NEW q \in Requests, ReadTenants(q)
    PROVE  Moves(q) /\ (Fault \/ NoFault)
<1> DEFINE tenants == {t \in Tenants : <<req[q].ctx.user, t>> \in members}
           tenant == Active(Visit(q).tenant, tenants)
           ctx == [req[q].ctx EXCEPT !.tenant = tenant]
           pending == req[q].pending \ {"tenants"}
           pc == IF req[q].pending = {"tenants"} THEN "call" ELSE "rights"
<1>1. /\ TypeOK /\ Sound(q) /\ At(q, "rights") /\ UNCHANGED <<rights, stood>>
      /\ ContextIs(q, ctx, pending, pc) /\ (Fault \/ NoFault)
    BY DEF Inv, ReadTenants, ContextReads, OnlyRequest, rights
<1>2. /\ req[q].ctx \in Context /\ pending \in SUBSET {"tenants", "grants"}
      /\ pc \in {"rights", "call"} /\ Visit(q).tenant \in Tenants \cup {NoTenant}
    BY <1>1, VisitTyped DEF TypeOK, Request, Incoming
<1>3. tenant \in tenants \cup {NoTenant}
    BY <1>2, ActiveIsOne
<1>4. tenant \in Tenants \cup {NoTenant}
    BY <1>3
<1>5. tenant # NoTenant => <<req[q].ctx.user, tenant>> \in stood[q].members
    <2>1. members \subseteq stood[q].members
        BY <1>1 DEF Sound, Witnessed, At
    <2> QED
        BY <1>3, <2>1
<1> HIDE DEF tenant, pending, pc
<1>6. /\ ctx \in Context /\ ctx.tenant = tenant /\ ctx.user = req[q].ctx.user
      /\ ctx.publicTenant = req[q].ctx.publicTenant /\ ctx.public = req[q].ctx.public
      /\ ctx.system = req[q].ctx.system /\ ctx.scopes = req[q].ctx.scopes
      /\ ctx.impersonated = req[q].ctx.impersonated
    BY <1>2, <1>4 DEF Context
<1>7. Stood(q, ctx) /\ ~ ctx.public
    BY <1>1, <1>5, <1>6 DEF Sound, Acted, Stood
<1> HIDE DEF ctx
<1> QED
    BY <1>1, <1>2, <1>6, <1>7, ContextMoves

LEMMA ReadGrantsMoves ==
    ASSUME Inv, NEW q \in Requests, ReadGrants(q)
    PROVE  Moves(q) /\ (Fault \/ NoFault)
<1> DEFINE scopes == {s \in Scopes : <<req[q].ctx.user, s>> \in granted}
           ctx == [req[q].ctx EXCEPT !.scopes = scopes]
           pending == req[q].pending \ {"grants"}
           pc == IF req[q].pending = {"grants"} THEN "call" ELSE "rights"
<1>1. /\ TypeOK /\ Sound(q) /\ At(q, "rights") /\ UNCHANGED <<rights, stood>>
      /\ ContextIs(q, ctx, pending, pc) /\ (Fault \/ NoFault)
    BY DEF Inv, ReadGrants, ContextReads, OnlyRequest, rights
<1>2. /\ req[q].ctx \in Context /\ pending \in SUBSET {"tenants", "grants"}
      /\ pc \in {"rights", "call"} /\ scopes \in SUBSET Scopes
    BY <1>1 DEF TypeOK, Request
<1>3. \A s \in scopes : <<req[q].ctx.user, s>> \in stood[q].granted
    BY <1>1 DEF Sound, Witnessed, At
<1> HIDE DEF scopes, pending, pc
<1>4. /\ ctx \in Context /\ ctx.tenant = req[q].ctx.tenant /\ ctx.user = req[q].ctx.user
      /\ ctx.publicTenant = req[q].ctx.publicTenant /\ ctx.public = req[q].ctx.public
      /\ ctx.system = req[q].ctx.system /\ ctx.scopes = scopes
      /\ ctx.impersonated = req[q].ctx.impersonated
    BY <1>2 DEF Context
<1>5. Stood(q, ctx) /\ ~ ctx.public
    BY <1>1, <1>3, <1>4 DEF Sound, Acted, Stood
<1> HIDE DEF ctx
<1> QED
    BY <1>1, <1>2, <1>4, <1>5, ContextMoves

LEMMA FailuresMove ==
    ASSUME Inv, NEW q \in Requests, ContextFails(q) \/ Refuse(q) \/ CallFails(q)
    PROVE  Moves(q) /\ (Fault \/ NoFault)
<1>1. /\ ~ At(q, "idle") /\ UNCHANGED <<rights, stood>> /\ (Fault \/ NoFault)
      /\ Answers(q, "500") \/ Answers(q, "403")
    BY DEF ContextFails, Refuse, CallFails, OnlyRequest, rights, At
<1> QED
    BY <1>1, AnswersMoves DEF Status

LEMMA RequireMoves ==
    ASSUME Inv, NEW q \in Requests, Require(q)
    PROVE  Moves(q) /\ (Fault \/ NoFault)
<1>1. At(q, "call") /\ ~ At(q, "idle") /\ UNCHANGED <<rights, stood>> /\ (Fault \/ NoFault)
    BY DEF Require, OnlyRequest, rights, At
<1>2. CASE Completed(q, {})
    BY <1>1, <1>2, CompletedMoves DEF At
<1>3. CASE Answers(q, "403")
    BY <1>1, <1>3, AnswersMoves DEF Status
<1> QED
    BY <1>2, <1>3 DEF Require

LEMMA ReadMoves ==
    ASSUME Inv, NEW q \in Requests, Read(q) \/ Reread(q)
    PROVE  Moves(q) /\ (Fault \/ NoFault)
<1>1. /\ req[q].pc \in {"call", "reread"} /\ UNCHANGED <<rights, stood>> /\ (Fault \/ NoFault)
      /\ Completed(q, Found(q, Current(q)))
    BY DEF Read, Reread, OnlyRequest, rights, At
<1>2. ~ Requires(Call(q))
    BY DEF Inv, Sound, Serving, Read, Reread, Requires, At
<1> DEFINE found == Found(q, Current(q))
<1>3. /\ found \in SUBSET ((DOMAIN Resources) \X Row)
      /\ \A f \in found : Entitled(q, Resources[f[1]], f[2])
    BY <1>1, <1>2, FoundIsEntitled DEF Inv
<1> HIDE DEF found
<1> QED
    BY <1>1, <1>2, <1>3, CompletedMoves DEF found

\* What a write leaves of the row it reaches.
LEMMA StoresIsRow ==
    ASSUME Inv, NEW q \in Requests, At(q, "call"), Writes(Call(q)),
           Call(q).op = "update" => Current(q) \in Row
    PROVE  /\ Call(q) \in [resource : DOMAIN Resources, scope : DATA_SCOPES, op : DATA_OPERATIONS,
                           values : Changes]
           /\ Stores(q) \in Row \cup {Absent}
<1>1. TypeOK /\ req[q].made < Len(Visit(q).calls) /\ req[q].ctx \in Context
    BY DEF Inv, Sound, Serving, Calling, At, TypeOK, Request
<1>2. Call(q) \in [resource : DOMAIN Resources, scope : DATA_SCOPES, op : DATA_OPERATIONS,
                   values : Changes]
    BY <1>1, CallIsOne DEF Calls, Writes
<1>3. Resource(q) = Resources[Call(q).resource]
    BY DEF Resource
<1>4. CASE Call(q).op = "create"
    <2>1. Stores(q) = Inserted(Resource(q), Call(q).scope, req[q].ctx, Call(q).values, Default)
        BY <1>4 DEF Stores
    <2> QED
        BY <1>1, <1>2, <1>3, <2>1, InsertedIsRow
<1>5. CASE Call(q).op = "update"
    <2>1. Stores(q) = Updated(Resource(q), Call(q).scope, Call(q).values, Current(q))
        BY <1>5 DEF Stores
    <2> QED
        BY <1>2, <1>3, <1>5, <2>1, UpdatedIsRow
<1>6. CASE Call(q).op = "delete"
    <2>1. Stores(q) = Absent
        BY <1>6 DEF Stores
    <2> QED
        BY <1>2, <2>1
<1>7. Call(q).op = "create" \/ Call(q).op = "update" \/ Call(q).op = "delete"
    BY DEF Writes
<1> QED
    BY <1>2, <1>4, <1>5, <1>6, <1>7

Hits(q) ==
    /\ Something(q)
    /\ IF Call(q).op = "create" THEN Current(q) = Absent ELSE Reached(q, Current(q))

LEMMA WriteIs ==
    ASSUME NEW q \in Requests, Write(q)
    PROVE  /\ At(q, "call") /\ Writes(Call(q)) /\ ~ Refused(q)
           /\ rows' = IF Hits(q) THEN [rows EXCEPT ![Call(q).resource] = Stores(q)] ELSE rows
           /\ \/ Answers(q, "500") /\ ~ Hits(q)
              \/ Completed(q, {}) /\ Call(q).op = "delete"
              \/ Goes(q, "reread")
           /\ UNCHANGED <<rights, stored, registration, stood>> /\ NoFault
    BY DEF Write, Hits

LEMMA WriteMoves == ASSUME Inv, NEW q \in Requests, Write(q) PROVE Moves(q)
<1>1. TypeOK /\ Sound(q) /\ At(q, "call") /\ Writes(Call(q)) /\ UNCHANGED <<rights, stood>>
    BY WriteIs DEF Inv
<1>2. ~ Requires(Call(q)) /\ ~ At(q, "idle")
    BY <1>1 DEF Writes, Requires, At
<1>3. CASE Answers(q, "500")
    BY <1>1, <1>2, <1>3, AnswersMoves DEF Status
<1>4. CASE Completed(q, {})
    BY <1>1, <1>4, CompletedMoves DEF At
<1>5. CASE Goes(q, "reread")
    <2>1. /\ req' \in [Requests -> Request] /\ Others(q)
          /\ req'[q].pc = "reread" /\ Keeps(req'[q], req[q])
        BY <1>1, <1>5, GoesEdits DEF PC
    <2> QED
        BY <1>1, <1>2, <2>1, KeptSound DEF Moves
<1> QED
    BY <1>3, <1>4, <1>5, WriteIs

LEMMA WriteInv == ASSUME Inv, NEW q \in Requests, Write(q) PROVE Inv'
<1>1. TypeOK /\ Sound(q) /\ At(q, "call") /\ Writes(Call(q)) /\ UNCHANGED <<rights, stood>>
    BY WriteIs DEF Inv
<1>2. ~ Requires(Call(q))
    BY <1>1 DEF Writes, Requires
<1>3. Moves(q)
    BY WriteMoves
<1>4. rows' \in [DOMAIN Resources -> Row \cup {Absent}]
    <2>1. rows \in [DOMAIN Resources -> Row \cup {Absent}]
        BY <1>1 DEF TypeOK
    <2>2. CASE ~ Hits(q)
        BY <2>1, <2>2, WriteIs
    <2>3. CASE Hits(q)
        <3>1. Call(q) \in Calls
            BY <1>1, CallIsOne DEF Sound, Serving, Calling, At
        <3>2. Call(q).op = "update" => Current(q) \in Row
            BY <1>2, <2>1, <2>3, <3>1 DEF Hits, Reached, Current, Calls, Requires
        <3>3. Stores(q) \in Row \cup {Absent} /\ Call(q).resource \in DOMAIN Resources
            BY <1>1, <3>2, StoresIsRow
        <3> QED
            BY <2>1, <2>3, <3>3, WriteIs
    <2> QED
        BY <2>2, <2>3
<1>5. TypeOK'
    BY <1>1, <1>3, <1>4, WriteIs, FaultTyped DEF TypeOK, Moves, rights
<1>6. \A p \in Requests : Sound(p)'
    BY <1>1, <1>3, OthersSound DEF Inv, Moves, Quiet
<1> QED
    BY <1>5, <1>6 DEF Inv

LEMMA RequestStepInv ==
    ASSUME Inv, NEW q \in Requests, RequestStep(q)
    PROVE  Inv'
<1>1. CASE Write(q)
    BY <1>1, WriteInv
<1>2. CASE ~ Write(q)
    <2>1. OnlyRequest
        BY <1>2 DEF RequestStep, Identify, AdminBoundary, Gate, Route, ContextStarts, ReadTenants,
                    ReadGrants, ContextReads, ContextFails, Require, Read, Refuse, Reread, CallFails
    <2>2. Moves(q) /\ (Fault \/ NoFault)
        BY <1>2, IdentifyMoves, AdminBoundaryMoves, GateMoves, RouteMoves, ContextStartsMoves,
           ReadTenantsMoves, ReadGrantsMoves, FailuresMove, RequireMoves, ReadMoves
        DEF RequestStep
    <2> QED
        BY <2>1, <2>2, OnlyRequestInv
<1> QED
    BY <1>1, <1>2

-----------------------------------------------------------------------------
(* Arrivals, registrations, administrators                                  *)

Upright == [members : SUBSET (Users \X Tenants), granted : SUBSET (Users \X Scopes),
            admins : SUBSET Users, open : BOOLEAN]
States == [state : {"none", "writing", "done"}, written : Nat]

\* A request that has just arrived has found nothing and is nobody.
LEMMA ArrivedSound ==
    ASSUME Inv, NEW q \in Requests, At(q, "idle"),
           NEW v \in Visits[q],
           \/ req' = [req EXCEPT ![q].visit = v, ![q].pc = "initialize"]
           \/ req' = [req EXCEPT ![q].visit = v, ![q].pc = "done", ![q].status = "500"],
           stood' = [stood EXCEPT ![q] = Standing(members, granted, admins, breaker)],
           UNCHANGED rights
    PROVE  /\ req' \in [Requests -> Request] /\ stood' \in [Requests -> Upright]
           /\ \A p \in Requests : Sound(p)'
<1>1. /\ TypeOK /\ Sound(q) /\ req[q].user = Nobody /\ ~ req[q].system /\ req[q].seen = {}
      /\ req[q].ctx = Anonymous
    BY DEF Inv, Sound, Blank, At, Early
<1>2. /\ req' \in [Requests -> Request] /\ Others(q)
      /\ req'[q].pc \in {"initialize", "done"} /\ req'[q].visit = v
      /\ req'[q].user = Nobody /\ ~ req'[q].system /\ req'[q].ctx = Anonymous
      /\ req'[q].seen = {}
    BY <1>1, ArrivesEdits
<1>3. Standing(members, granted, admins, breaker) \in Upright
    BY <1>1 DEF TypeOK, Standing, Upright
<1>4. /\ stood' \in [Requests -> Upright]
      /\ stood'[q] = Standing(members, granted, admins, breaker)
      /\ \A p \in Requests \ {q} : stood'[p] = stood[p]
    BY <1>1, <1>3 DEF TypeOK, Upright
<1>5. Sound(q)'
    <2>1. Witnessed(q)'
        BY <1>4 DEF Witnessed, Standing, rights
    <2>2. Blank(q)' /\ Identified(q)' /\ Passed(q)' /\ Serving(q)' /\ Answered(q)'
        BY <1>2 DEF Blank, Identified, Passed, Serving, Answered, At, Early, Past, Calling
    <2>3. Acted(q)'
        <3>1. Stood(q, Anonymous)'
            BY DEF Stood, Anonymous
        <3> QED
            BY <1>2, <3>1 DEF Acted, At
    <2> QED
        BY <2>1, <2>2, <2>3 DEF Sound
<1>6. ASSUME NEW p \in Requests \ {q} PROVE Sound(p)'
    <2>1. req'[p] = req[p] /\ Grows(p) /\ Sound(p)
        BY <1>2, <1>4 DEF Others, Grows, Inv
    <2>2. Witnessed(p)'
        BY <1>4, <2>1 DEF Sound, Witnessed, At, rights
    <2> QED
        BY <2>1, <2>2, UntouchedSound
<1> QED
    BY <1>2, <1>4, <1>5, <1>6

LEMMA ArrivesInv ==
    ASSUME Inv, NEW q \in Requests, Arrive(q) \/ BootFails(q)
    PROVE  Inv'
<1>1. PICK v \in Visits[q] :
          /\ \/ req' = [req EXCEPT ![q].visit = v, ![q].pc = "initialize"]
             \/ req' = [req EXCEPT ![q].visit = v, ![q].pc = "done", ![q].status = "500"]
          /\ \/ UNCHANGED registration
             \/ registration' = [registration EXCEPT ![v.isolate] =
                                    [state |-> "writing", written |-> 0]]
    BY DEF Arrive, BootFails
<1>2. /\ TypeOK /\ At(q, "idle") /\ UNCHANGED <<rights, rows, stored, left>>
      /\ stood' = [stood EXCEPT ![q] = Standing(members, granted, admins, breaker)]
    BY DEF Inv, Arrive, BootFails
<1>3. /\ req' \in [Requests -> Request] /\ stood' \in [Requests -> Upright]
      /\ \A p \in Requests : Sound(p)'
    BY <1>1, <1>2, ArrivedSound
<1>4. registration' \in [Isolates -> States]
    <2>1. registration \in [Isolates -> States] /\ [state |-> "writing", written |-> 0] \in States
        BY <1>2 DEF TypeOK, States
    <2> QED
        BY <1>1, <2>1
<1>5. TypeOK'
    BY <1>2, <1>3, <1>4 DEF TypeOK, Upright, States, rights
<1> QED
    BY <1>3, <1>5 DEF Inv

LEMMA ManifestTyped ==
    ASSUME NEW i \in Isolates
    PROVE  /\ Manifest[i] \in Seq(Names \X Values) /\ Len(Manifest[i]) \in Nat
           /\ \A k \in 1..Len(Manifest[i]) :
                 Manifest[i][k][1] \in Names /\ Manifest[i][k][2] \in Values
<1>1. Manifest[i] \in Seq(Names \X Values)
    BY RequestsAssumption
<1>2. ASSUME NEW k \in 1..Len(Manifest[i])
      PROVE  Manifest[i][k][1] \in Names /\ Manifest[i][k][2] \in Values
    BY <1>1
<1> QED
    BY <1>1, <1>2

LEMMA RegisterTyped ==
    ASSUME TypeOK, NEW i \in Isolates, Register(i)
    PROVE  /\ stored' \in [Names -> Values \cup {Absent}]
           /\ registration' \in [Isolates -> States]
<1> DEFINE k == registration[i].written + 1
<1>1. registration[i].written \in Nat /\ k \in Nat \ {0}
    BY DEF TypeOK
<1>2. Rest(i) \in States
    BY <1>1 DEF Rest, Registered, States
<1>3. registration' \in [Isolates -> States]
    BY <1>2 DEF TypeOK, Register, States
<1>4. CASE k > Len(Manifest[i])
    <2>1. stored' = [e \in Names |-> IF e \in Declared(i) THEN stored[e] ELSE Absent]
        BY <1>4 DEF Register, Upserted
    <2> QED
        BY <1>3, <2>1 DEF TypeOK
<1>5. CASE ~ (k > Len(Manifest[i]))
    <2>1. Manifest[i][k][1] \in Names /\ Manifest[i][k][2] \in Values
        BY <1>1, <1>5, ManifestTyped
    <2>2. stored' = [stored EXCEPT ![Manifest[i][k][1]] = Manifest[i][k][2]]
        BY <1>5 DEF Register, Upserted
    <2> QED
        BY <1>3, <2>1, <2>2 DEF TypeOK
<1> QED
    BY <1>3, <1>4, <1>5

\* A step that touches no request and no rights.
LEMMA AsideInv ==
    ASSUME Inv, UNCHANGED <<rights, rows, req, stood>>, left' \in 0..Disturbances,
           stored' \in [Names -> Values \cup {Absent}], registration' \in [Isolates -> States]
    PROVE  Inv'
<1>1. TypeOK'
    BY DEF Inv, TypeOK, States, rights
<1>2. ASSUME NEW p \in Requests PROVE Sound(p)'
    <2>1. req'[p] = req[p] /\ Grows(p) /\ Sound(p) /\ Witnessed(p)'
        BY QuietGrows DEF Inv, Sound, Witnessed, At, rights
    <2> QED
        BY <2>1, UntouchedSound
<1> QED
    BY <1>1, <1>2 DEF Inv

LEMMA RegisterInv == ASSUME Inv, NEW i \in Isolates, Register(i) PROVE Inv'
<1>1. UNCHANGED <<rights, rows, req, stood>> /\ left' \in 0..Disturbances
    BY DEF Register, Inv, TypeOK
<1> QED
    BY <1>1, RegisterTyped, AsideInv DEF Inv

\* A step that ends some of the requests in flight and moves no other.
Ends(p) ==
    \/ req'[p] = req[p]
    \/ /\ ~ At(p, "idle") /\ req'[p] \in Request
       /\ req'[p].pc = "done" /\ Keeps(req'[p], req[p])

LEMMA EndsInv ==
    ASSUME Inv, UNCHANGED <<rights, rows, stored, stood>>, Fault,
           req' \in [Requests -> Request], registration' \in [Isolates -> States],
           \A p \in Requests : Ends(p)
    PROVE  Inv'
<1>1. TypeOK'
    BY FaultTyped DEF Inv, TypeOK, States, rights
<1>2. ASSUME NEW p \in Requests PROVE Sound(p)'
    <2>1. Sound(p) /\ Grows(p)
        BY QuietGrows DEF Inv
    <2>2. CASE req'[p] = req[p]
        BY <2>1, <2>2, UntouchedSound DEF Sound, Witnessed, At, rights
    <2>3. CASE req'[p] # req[p]
        BY <1>2, <2>1, <2>3, KeptSound DEF Ends
    <2> QED
        BY <2>2, <2>3
<1> QED
    BY <1>1, <1>2 DEF Inv

Ended(r, status) == [r EXCEPT !.pc = "done", !.status = status]

LEMMA EndedIsOne ==
    ASSUME NEW r \in Request, NEW status \in Status
    PROVE  Ended(r, status) \in Request /\ Ended(r, status).pc = "done" /\ Keeps(Ended(r, status), r)
    BY DEF Ended, Request, Keeps, PC

LEMMA EndingInv ==
    ASSUME Inv, NEW i \in Isolates, RegisterFails(i) \/ Evict(i)
    PROVE  Inv'
<1>1. /\ TypeOK /\ UNCHANGED <<rights, rows, stored, stood>> /\ Fault
      /\ registration' = [registration EXCEPT ![i] = Unregistered]
    BY DEF Inv, RegisterFails, Evict, Dropped
<1>2. registration' \in [Isolates -> States]
    <2>1. registration \in [Isolates -> States] /\ Unregistered \in States
        BY <1>1 DEF TypeOK, States, Unregistered
    <2> QED
        BY <1>1, <2>1
<1>3. req' = [q \in Requests |-> req'[q]]
    BY DEF RegisterFails, Evict
<1>4. ASSUME NEW q \in Requests PROVE Ends(q) /\ req'[q] \in Request
    <2>1. req[q] \in Request /\ "500" \in Status /\ "lost" \in Status
        BY <1>1 DEF TypeOK, Status
    <2>2. \/ req'[q] = req[q]
          \/ ~ At(q, "idle") /\ req'[q] = Ended(req[q], "500")
          \/ ~ At(q, "idle") /\ req'[q] = Ended(req[q], "lost")
        <3>1. CASE RegisterFails(i)
            BY <3>1, Zenon DEF RegisterFails, Ended, At
        <3>2. CASE Evict(i)
            BY <3>2, Zenon DEF Evict, Ended, At
        <3> QED
            BY <3>1, <3>2
    <2> QED
        BY <2>1, <2>2, EndedIsOne DEF Ends
<1>5. req' \in [Requests -> Request]
    BY <1>3, <1>4
<1> QED
    BY <1>1, <1>2, <1>4, <1>5, EndsInv

LEMMA AssignmentTyped ==
    ASSUME TypeOK, NEW u \in Users, NEW tenants \in SUBSET Tenants, NEW scopes \in SUBSET Scopes,
           Assign(u, tenants, scopes)
    PROVE  members' \subseteq Users \X Tenants /\ granted' \subseteq Users \X Scopes
    BY DEF TypeOK, Assign

\* Administrators change what stands, and every request in flight notes it.
LEMMA StandingInv ==
    ASSUME Inv, Witness, Fault, UNCHANGED <<rows, stored, registration, req>>,
           members' \subseteq Users \X Tenants, granted' \subseteq Users \X Scopes,
           admins' \subseteq Users, breaker' \in {"absent", "on", "tripped"}
    PROVE  Inv'
<1>1. TypeOK /\ stood \in [Requests -> Upright]
    BY DEF Inv, TypeOK, Upright
<1> DEFINE now == Standing(members', granted', admins', breaker')
<1>2. now \in Upright /\ now.members = members' /\ now.granted = granted'
      /\ now.admins = admins' /\ now.open = (breaker' = "on")
    BY DEF Standing, Upright
<1> HIDE DEF now
<1>3. ASSUME NEW p \in Requests
      PROVE  /\ stood'[p] \in Upright /\ Grows(p)
             /\ ~ At(p, "idle") =>
                   /\ members' \subseteq stood'[p].members /\ granted' \subseteq stood'[p].granted
                   /\ admins' \subseteq stood'[p].admins /\ (breaker' = "on" => stood'[p].open)
    <2>1. stood[p] \in Upright
        BY <1>1
    <2>2. stood'[p] = IF At(p, "idle") THEN stood[p] ELSE Join(stood[p], now)
        BY DEF Witness, now
    <2>3. Join(stood[p], now) \in Upright
        BY <1>2, <2>1 DEF Join, Upright
    <2>4. /\ Join(stood[p], now).members = stood[p].members \cup members'
          /\ Join(stood[p], now).granted = stood[p].granted \cup granted'
          /\ Join(stood[p], now).admins = stood[p].admins \cup admins'
        BY <1>2 DEF Join
    <2>5. Join(stood[p], now).open = (stood[p].open \/ breaker' = "on")
        BY <1>2 DEF Join
    <2>6. CASE At(p, "idle")
        BY <2>1, <2>2, <2>6 DEF Grows
    <2>7. CASE ~ At(p, "idle")
        <3>1. stood'[p] = Join(stood[p], now)
            BY <2>2, <2>7
        <3>2. Grows(p)
            BY <2>4, <2>5, <3>1 DEF Grows
        <3>3. breaker' = "on" => stood'[p].open
            BY <2>5, <3>1
        <3> QED
            BY <2>3, <2>4, <3>1, <3>2, <3>3
    <2> QED
        BY <2>6, <2>7
<1>4. stood' \in [Requests -> Upright]
    BY <1>3 DEF Witness
<1>5. TypeOK'
    BY <1>1, <1>4, FaultTyped DEF TypeOK, Upright
<1>6. ASSUME NEW p \in Requests PROVE Sound(p)'
    <2>1. Sound(p) /\ req'[p] = req[p]
        BY DEF Inv
    <2>2. Witnessed(p)'
        BY <1>3, <2>1 DEF Witnessed, At
    <2> QED
        BY <1>3, <2>1, <2>2, UntouchedSound
<1> QED
    BY <1>5, <1>6 DEF Inv

LEMMA AdministratorsInv ==
    ASSUME Inv,
           \/ \E a \in Assignments : Assign(a[1], a[2], a[3])
           \/ \E u \in Administrators : SetAdmin(u)
           \/ SetBreaker
    PROVE  Inv'
<1>1. TypeOK
    BY DEF Inv
<1>2. CASE \E a \in Assignments : Assign(a[1], a[2], a[3])
    <2>1. PICK a \in Assignments : Assign(a[1], a[2], a[3])
        BY <1>2
    <2>2. a[1] \in Users /\ a[2] \in SUBSET Tenants /\ a[3] \in SUBSET Scopes
        BY RequestsAssumption
    <2>3. members' \subseteq Users \X Tenants /\ granted' \subseteq Users \X Scopes
        BY <1>1, <2>1, <2>2, AssignmentTyped
    <2> QED
        BY <1>1, <2>1, <2>3, StandingInv DEF Assign, TypeOK
<1>3. CASE \E u \in Administrators : SetAdmin(u)
    BY <1>1, <1>3, RequestsAssumption, StandingInv DEF SetAdmin, TypeOK
<1>4. CASE SetBreaker
    BY <1>1, <1>4, StandingInv DEF SetBreaker, TypeOK
<1> QED
    BY <1>2, <1>3, <1>4

LEMMA InitInv == Init => Inv
<1> SUFFICES ASSUME Init PROVE Inv
    OBVIOUS
<1>1. ASSUME NEW q \in Requests PROVE Idle \in Request
    <2>1. AllVisits # {}
        BY RequestsAssumption DEF AllVisits
    <2>2. SomeVisit \in AllVisits
        BY <2>1 DEF SomeVisit
    <2> QED
        BY <2>2, AnonymousIsContext DEF Idle, Request, PC, Status
<1>2. Nothing \in Upright /\ Unregistered \in States
    BY DEF Nothing, Standing, Upright, Unregistered, States
<1>3. req \in [Requests -> Request] /\ stood \in [Requests -> Upright]
    BY <1>1, <1>2 DEF Init
<1>4. members \subseteq Users \X Tenants /\ granted \subseteq Users \X Scopes
    <2>1. \A a \in Initially : a[1] \in Users /\ a[2] \in SUBSET Tenants /\ a[3] \in SUBSET Scopes
        BY RequestsAssumption
    <2> QED
        BY <2>1 DEF Init
<1>5. TypeOK
    BY <1>2, <1>3, <1>4, RequestsAssumption DEF Init, TypeOK, Upright, States
<1>6. ASSUME NEW q \in Requests PROVE Sound(q)
    <2>1. req[q] = Idle
        BY DEF Init
    <2>2. /\ Idle.pc = "idle" /\ Idle.user = Nobody /\ ~ Idle.system /\ Idle.ctx = Anonymous
          /\ Idle.seen = {}
        BY DEF Idle
    <2>3. Witnessed(q) /\ Blank(q) /\ Identified(q) /\ Passed(q) /\ Serving(q) /\ Answered(q)
        BY <2>1, <2>2
        DEF Witnessed, Blank, Identified, Passed, Serving, Answered, At, Early, Past, Calling
    <2>4. Stood(q, Anonymous)
        BY DEF Stood, Anonymous
    <2> QED
        BY <2>1, <2>2, <2>3, <2>4 DEF Sound, Acted, At
<1> QED
    BY <1>5, <1>6 DEF Inv

LEMMA NextInv == Inv /\ [Next]_vars => Inv'
<1> SUFFICES ASSUME Inv, [Next]_vars PROVE Inv'
    OBVIOUS
<1>1. CASE UNCHANGED vars
    <2>1. UNCHANGED <<rights, rows, req, stood, left, stored, registration>>
        BY <1>1 DEF vars, rights
    <2> QED
        BY <2>1, AsideInv DEF Inv, TypeOK, States
<1>2. CASE Next
    BY <1>2, ArrivesInv, RequestStepInv, RegisterInv, EndingInv, AdministratorsInv DEF Next
<1> QED
    BY <1>1, <1>2

\* The inductive invariant holds of every behaviour: whoever a request is, whatever its
\* context claims and whatever it has found stood at some moment since it arrived
\* (src/runtime/worker.ts and src/data/context.ts read each of these in a step of its own).
THEOREM Invariance == Spec => []Inv
    BY InitInv, NextInv, PTL DEF Spec

\* Whatever the visits, the rights and the faults, every variable keeps its shape: a row
\* that is stored has the columns and values of its table (src/data/reader.ts).
THEOREM Typed == Spec => []TypeOK
<1>1. Inv => TypeOK
    BY DEF Inv
<1> QED
    BY <1>1, Invariance, PTL

\* No response holds a row that nobody the request spoke for could have been shown since
\* the request arrived, whoever is promoted, removed or impersonated while it runs
\* (src/data/context.ts, src/data/policy.ts, src/data/reader.ts).
THEOREM AnswersEntitled == Spec => []AnswersAreEntitled
<1>1. Inv => AnswersAreEntitled
    BY DEF Inv, Sound, Answered, AnswersAreEntitled
<1> QED
    BY <1>1, Invariance, PTL

-----------------------------------------------------------------------------
(* Writes                                                                   *)

\* A write is made as the system, as a user, or as a member: never as the public.
LEMMA WriterIsNotPublic ==
    ASSUME TypeOK, NEW q \in Requests, Sound(q), At(q, "call"), Writes(Call(q)), ~ Refused(q)
    PROVE  /\ Permitted(q, Call(q).op) /\ Call(q).op \in DATA_OPERATIONS \ {"read"}
           /\ Call(q).resource \in DOMAIN Resources
           /\ \/ Call(q).scope = "system" /\ req[q].ctx.system
              \/ Call(q).scope = "user" /\ req[q].ctx.user # Nobody
              \/ Call(q).scope = "tenant" /\ req[q].ctx.user # Nobody /\ ~ req[q].ctx.public
<1>1. Permitted(q, Call(q).op) /\ Call(q).op \in DATA_OPERATIONS \ {"read"}
    BY DEF Refused, Writes, DATA_OPERATIONS
<1>2. Call(q) \in Calls /\ ~ Requires(Call(q))
    BY CallIsOne DEF Sound, Serving, Calling, At, Writes, Requires
<1>3. Call(q).resource \in DOMAIN Resources
    BY <1>2 DEF Calls, Requires
<1>4. ScopeAllowed(Resource(q), Call(q).scope, req[q].ctx, Call(q).op)
    BY <1>1 DEF Permitted, Allowed
<1> QED
    BY <1>1, <1>3, <1>4 DEF ScopeAllowed

\* Outside of system scope a caller's values never hold the columns of the ownership.
LEMMA CleanSparesOwnership ==
    ASSUME NEW n \in DOMAIN Resources, NEW scope, scope # "system", NEW values \in Changes
    PROVE  /\ "user_id" \notin DOMAIN Clean(Resources[n], scope, values)
           /\ "tenant_id" \notin DOMAIN Clean(Resources[n], scope, values)
<1>1. Resources[n].owner = "user_id" /\ Resources[n].tenant = "tenant_id"
    BY RequestsAssumption
<1> QED
    BY <1>1 DEF Clean, WritableColumns

LEMMA OverSays ==
    ASSUME NEW f, NEW g, NEW c
    PROVE  /\ c \in DOMAIN f => Over(f, g)[c] = f[c]
           /\ c \notin DOMAIN f /\ c \in DOMAIN g => Over(f, g)[c] = g[c]
    BY DEF Over

\* A new row is in the scope it was made in, and an update leaves a row in its scope.
LEMMA StoresInScope ==
    ASSUME TypeOK, NEW q \in Requests, Sound(q), At(q, "call"), Writes(Call(q)), ~ Refused(q),
           Call(q).op # "delete",
           Call(q).op = "update" => Current(q) \in Row /\ Reached(q, Current(q))
    PROVE  InScope(Resource(q), Call(q).scope, req[q].ctx, Stores(q))
<1> DEFINE r == Resource(q)
           scope == Call(q).scope
           actor == req[q].ctx
           values == Call(q).values
<1>1. /\ Call(q).resource \in DOMAIN Resources
      /\ scope \in {"system", "user", "tenant"} /\ (scope = "tenant" => ~ actor.public)
    BY WriterIsNotPublic
<1>2. values \in Changes
    BY CallIsOne DEF Sound, Serving, Calling, At, Writes, Calls
<1>3. r = Resources[Call(q).resource] /\ r.owner = "user_id" /\ r.tenant = "tenant_id"
    BY <1>1, RequestsAssumption DEF Resource
<1>4. CASE Call(q).op = "create"
    <2>1. Stores(q) = Over(Ownership(r, scope, actor), Over(Clean(r, scope, values), Default))
        BY <1>4 DEF Stores, Inserted
    <2>2. CASE scope = "user"
        <3>1. Ownership(r, scope, actor) = [c \in {"user_id"} |-> actor.user]
            BY <1>3, <2>2 DEF Ownership
        <3>2. Stores(q)["user_id"] = actor.user
            BY <2>1, <3>1, OverSays
        <3> QED
            BY <1>3, <2>2, <3>2 DEF InScope
    <2>3. CASE scope = "tenant"
        <3>1. Ownership(r, scope, actor) = [c \in {"tenant_id"} |-> actor.tenant]
            BY <1>3, <2>3 DEF Ownership
        <3>2. Stores(q)["tenant_id"] = actor.tenant
            BY <2>1, <3>1, OverSays
        <3> QED
            BY <1>1, <1>3, <2>3, <3>2 DEF InScope
    <2>4. CASE scope = "system"
        BY <2>4 DEF InScope
    <2> QED
        BY <1>1, <2>2, <2>3, <2>4
<1>5. CASE Call(q).op = "update"
    <2>1. Stores(q) = Over(Clean(r, scope, values), Current(q))
        BY <1>5 DEF Stores, Updated
    <2>2. DOMAIN Current(q) = Columns /\ InScope(r, scope, actor, Current(q))
        BY <1>5 DEF Row, Columns, Reached
    <2>3. CASE scope = "system"
        BY <2>3 DEF InScope
    <2>4. CASE scope # "system"
        <3>1. /\ Stores(q)["user_id"] = Current(q)["user_id"]
              /\ Stores(q)["tenant_id"] = Current(q)["tenant_id"]
            BY <1>1, <1>2, <1>3, <2>1, <2>2, <2>4, CleanSparesOwnership, OverSays DEF Columns
        <3> QED
            BY <1>1, <1>3, <2>2, <2>4, <3>1 DEF InScope
    <2> QED
        BY <2>3, <2>4
<1> QED
    BY <1>4, <1>5 DEF Writes

\* A row changes only by a write that reaches it.
LEMMA ChangeIsWrite ==
    ASSUME Next, NEW n \in DOMAIN Resources, rows'[n] # rows[n]
    PROVE  \E q \in Requests : Write(q) /\ Hits(q)
<1>1. PICK q \in Requests : Write(q)
    BY DEF Next, Arrive, BootFails, Register, RegisterFails, Evict, Assign, SetAdmin, SetBreaker,
           RequestStep, Identify, AdminBoundary, Gate, Route, ContextStarts, ReadTenants,
           ReadGrants, ContextReads, ContextFails, Require, Read, Refuse, Reread, CallFails,
           OnlyRequest
<1>2. Hits(q)
    BY <1>1, WriteIs
<1> QED
    BY <1>1, <1>2

\* What a write that reaches its row does to it, and what it was entitled to.
LEMMA HitIsEntitled ==
    ASSUME Inv, NEW q \in Requests, Write(q), Hits(q)
    PROVE  LET n == Call(q).resource IN
           /\ n \in DOMAIN Resources /\ rows[n] = Current(q) /\ rows'[n] = Stores(q)
           /\ \A m \in DOMAIN Resources \ {n} : rows'[m] = rows[m]
           /\ Current(q) # Absent => Entitled(q, Resource(q), Current(q))
           /\ Stores(q) # Absent => Entitled(q, Resource(q), Stores(q))
<1>1. /\ TypeOK /\ Sound(q) /\ At(q, "call") /\ Writes(Call(q)) /\ ~ Refused(q)
      /\ rows' = [rows EXCEPT ![Call(q).resource] = Stores(q)]
    BY WriteIs DEF Inv
<1>2. /\ Permitted(q, Call(q).op) /\ Call(q).op \in DATA_OPERATIONS \ {"read"}
      /\ Call(q).resource \in DOMAIN Resources /\ ~ Requires(Call(q))
    BY <1>1, WriterIsNotPublic DEF Writes, Requires
<1>3. Current(q) \in Row \cup {Absent}
    BY <1>1, <1>2 DEF TypeOK, Current
<1>4. Call(q).op # "create" => Current(q) \in Row /\ Reached(q, Current(q))
    BY <1>3 DEF Hits, Reached
<1>5. Current(q) # Absent => Entitled(q, Resource(q), Current(q))
    <2> SUFFICES ASSUME Current(q) # Absent PROVE Entitled(q, Resource(q), Current(q))
        OBVIOUS
    <2>1. Current(q) \in Row /\ InScope(Resource(q), Call(q).scope, req[q].ctx, Current(q))
        BY <1>3, <1>4 DEF Hits, Reached
    <2> QED
        BY <1>1, <1>2, <2>1, PermittedIsEntitled DEF At
<1>6. Stores(q) # Absent => Entitled(q, Resource(q), Stores(q))
    <2> SUFFICES ASSUME Stores(q) # Absent PROVE Entitled(q, Resource(q), Stores(q))
        OBVIOUS
    <2>1. Stores(q) \in Row
        BY <1>1, <1>4, StoresIsRow
    <2>2. Call(q).op # "delete"
        BY DEF Stores
    <2>3. InScope(Resource(q), Call(q).scope, req[q].ctx, Stores(q))
        BY <1>1, <1>4, <2>2, StoresInScope
    <2> QED
        BY <1>1, <1>2, <2>1, <2>3, PermittedIsEntitled DEF At
<1>7. rows[Call(q).resource] = Current(q) /\ rows'[Call(q).resource] = Stores(q)
    BY <1>1, <1>2 DEF TypeOK, Current
<1>8. \A m \in DOMAIN Resources \ {Call(q).resource} : rows'[m] = rows[m]
    BY <1>1, <1>2 DEF TypeOK
<1> QED
    BY <1>2, <1>5, <1>6, <1>7, <1>8

\* The scopes an operation needs stood for the user the write speaks for, and that user's
\* writes leave the owner and the tenant of a row as they were.
LEMMA HitIsScoped ==
    ASSUME Inv, NEW q \in Requests, Write(q), Hits(q),
           ~ (WasAdmin(q) /\ ~ req[q].ctx.impersonated)
    PROVE  /\ \E u \in Speakers(q) :
                  \A s \in Needs(Resource(q), Call(q).op) : <<u, s>> \in stood[q].granted
           /\ Absent \notin {Current(q), Stores(q)} =>
                 /\ Stores(q).user_id = Current(q).user_id
                 /\ Stores(q).tenant_id = Current(q).tenant_id
<1> DEFINE actor == req[q].ctx
<1>1. /\ TypeOK /\ Sound(q) /\ At(q, "call") /\ Writes(Call(q)) /\ ~ Refused(q)
    BY WriteIs DEF Inv
<1>2. Stood(q, actor) /\ ~ actor.system
    BY <1>1 DEF Sound, Acted, Stood
<1>3. /\ Permitted(q, Call(q).op) /\ Call(q).resource \in DOMAIN Resources
      /\ Call(q).scope # "system" /\ actor.user # Nobody
    BY <1>1, <1>2, WriterIsNotPublic
<1>4. actor.user \in Speakers(q)
    BY <1>2, <1>3 DEF Stood
<1>5. \A s \in Needs(Resource(q), Call(q).op) : <<actor.user, s>> \in stood[q].granted
    BY <1>2, <1>3 DEF Stood, Permitted, Allowed
<1>6. ASSUME Absent \notin {Current(q), Stores(q)}
      PROVE  /\ Stores(q).user_id = Current(q).user_id
             /\ Stores(q).tenant_id = Current(q).tenant_id
    <2>1. Call(q).op = "update"
        BY <1>1, <1>6 DEF Hits, Stores, Writes
    <2>2. Stores(q) = Over(Clean(Resource(q), Call(q).scope, Call(q).values), Current(q))
        BY <2>1 DEF Stores, Updated
    <2>3. Current(q) \in Row
        BY <1>1, <1>3, <1>6 DEF TypeOK, Current
    <2>4. DOMAIN Current(q) = Columns
        BY <2>3 DEF Row, Columns
    <2>5. Call(q).values \in Changes
        BY <1>1, CallIsOne DEF Sound, Serving, Calling, At, Writes, Calls
    <2>6. /\ "user_id" \notin DOMAIN Clean(Resource(q), Call(q).scope, Call(q).values)
          /\ "tenant_id" \notin DOMAIN Clean(Resource(q), Call(q).scope, Call(q).values)
        BY <1>3, <2>5, CleanSparesOwnership DEF Resource
    <2>7. /\ Stores(q)["user_id"] = Current(q)["user_id"]
          /\ Stores(q)["tenant_id"] = Current(q)["tenant_id"]
        BY <2>2, <2>4, <2>6, OverSays DEF Columns
    <2> QED
        BY <2>7
<1> QED
    BY <1>4, <1>5, <1>6

LEMMA WriteMakes ==
    ASSUME Inv, NEW q \in Requests, Write(q), Hits(q)
    PROVE  req'[q] # req[q] /\ Visit(q).calls # <<>>
<1>1. TypeOK /\ Sound(q) /\ At(q, "call") /\ req[q] \in Request
    BY WriteIs DEF Inv, TypeOK
<1>2. Visit(q).calls # <<>>
    BY <1>1 DEF Sound, Serving, Calling, At, TypeOK, Request
<1>3. CASE Completed(q, {})
    <2>1. req'[q].made = req[q].made + 1 /\ req[q].made \in Nat
        BY <1>1, <1>3, ProceedsEdits DEF Completed, Request
    <2> QED
        BY <1>2, <2>1
<1>4. CASE Goes(q, "reread")
    <2>1. req'[q].pc = "reread"
        BY <1>1, <1>4, GoesEdits DEF PC
    <2> QED
        BY <1>1, <1>2, <2>1 DEF At
<1> QED
    BY <1>3, <1>4, WriteIs

\* A row is written only by a request that was entitled to it before and after, with the
\* scopes the operation needs, and changes hands only by an administrator: for every
\* catalogue of resources, every visit and any number of faults (src/data/reader.ts).
THEOREM WritesEntitled == Spec => WritesAreEntitled
<1>1. Inv /\ [Next]_vars => [WriteIsEntitled]_vars
    <2> SUFFICES ASSUME Inv, Next, NEW n \in DOMAIN Resources, rows'[n] # rows[n]
                 PROVE  \E q \in Requests :
            LET r == Resources[n] IN
            /\ req'[q] # req[q] /\ Visit(q).calls # <<>> /\ Call(q).resource = n
            /\ rows[n] # Absent => Entitled(q, r, rows[n])
            /\ rows'[n] # Absent => Entitled(q, r, rows'[n])
            /\ \/ WasAdmin(q) /\ ~ req[q].ctx.impersonated
               \/ /\ \E u \in Speakers(q) : \A s \in Needs(r, Call(q).op) : <<u, s>> \in stood[q].granted
                  /\ Absent \notin {rows[n], rows'[n]} =>
                        /\ rows'[n].user_id = rows[n].user_id
                        /\ rows'[n].tenant_id = rows[n].tenant_id
        BY DEF WriteIsEntitled
    <2>1. PICK q \in Requests : Write(q) /\ Hits(q)
        BY ChangeIsWrite
    <2>2. /\ Call(q).resource = n /\ rows[n] = Current(q) /\ rows'[n] = Stores(q)
          /\ Current(q) # Absent => Entitled(q, Resource(q), Current(q))
          /\ Stores(q) # Absent => Entitled(q, Resource(q), Stores(q))
        BY <2>1, HitIsEntitled
    <2>3. req'[q] # req[q] /\ Visit(q).calls # <<>> /\ Resource(q) = Resources[n]
        BY <2>1, <2>2, WriteMakes DEF Resource
    <2>4. \/ WasAdmin(q) /\ ~ req[q].ctx.impersonated
          \/ /\ \E u \in Speakers(q) :
                    \A s \in Needs(Resource(q), Call(q).op) : <<u, s>> \in stood[q].granted
             /\ Absent \notin {Current(q), Stores(q)} =>
                   /\ Stores(q).user_id = Current(q).user_id
                   /\ Stores(q).tenant_id = Current(q).tenant_id
        BY <2>1, HitIsScoped
    <2> QED
        BY <2>2, <2>3, <2>4
<1> QED
    BY <1>1, Invariance, PTL DEF Spec, WritesAreEntitled

-----------------------------------------------------------------------------
(* The manifest                                                             *)

Waiting == {"idle", "initialize", "done"}

\* What is stored of a common entitlement stays stored, a request gets past initialization
\* only where the registration is done.
LEMMA OnlyIdentifyPasses ==
    ASSUME Inv, NEW q \in Requests, RequestStep(q), NEW p \in Requests,
           req'[p].pc \notin Waiting, req[p].pc \in Waiting
    PROVE  registration[Visit(p).isolate].state = "done" /\ Visit(p) \in Incoming
<1>1. Moves(q)
    BY WriteMoves, IdentifyMoves, AdminBoundaryMoves, GateMoves, RouteMoves, ContextStartsMoves,
       ReadTenantsMoves, ReadGrantsMoves, FailuresMove, RequireMoves, ReadMoves
    DEF RequestStep
<1>2. p = q
    BY <1>1 DEF Moves, Others
<1>3. Identify(q)
    BY <1>2 DEF RequestStep, AdminBoundary, Gate, Route, ContextStarts, ReadTenants, ReadGrants,
                ContextReads, ContextFails, Require, Read, Refuse, Write, Reread, CallFails,
                At, Waiting
<1> QED
    BY <1>2, <1>3, VisitTyped DEF Identify, Inv

Served == ServedWithManifest /\ Written

LEMMA UpsertHolds ==
    ASSUME Inv, NEW i \in Isolates, Register(i), NEW e \in Names, Holds(e)
    PROVE  Holds(e)'
<1> SUFFICES ASSUME e \in Common, stored[e] # Absent PROVE stored'[e] # Absent
    BY DEF Holds, Common, Names, Declared
<1> DEFINE k == registration[i].written + 1
<1>1. k \in Nat \ {0} /\ e \in Declared(i) /\ stored \in [Names -> Values \cup {Absent}]
    BY DEF Inv, TypeOK, Common
<1>2. CASE k > Len(Manifest[i])
    <2>1. stored' = [x \in Names |-> IF x \in Declared(i) THEN stored[x] ELSE Absent]
        BY <1>2 DEF Register, Upserted
    <2> QED
        BY <1>1, <2>1
<1>3. CASE ~ (k > Len(Manifest[i]))
    <2>1. stored' = [stored EXCEPT ![Manifest[i][k][1]] = Manifest[i][k][2]]
        BY <1>3 DEF Register, Upserted
    <2>2. Manifest[i][k][1] \in Names /\ Manifest[i][k][2] \in Values
        BY <1>1, <1>3, ManifestTyped
    <2> QED
        BY <1>1, <2>1, <2>2, RequestsAssumption
<1> QED
    BY <1>2, <1>3

LEMMA RegisterServed ==
    ASSUME Inv, Served, NEW i \in Isolates, Register(i)
    PROVE  Served'
<1> DEFINE k == registration[i].written + 1
<1>1. /\ registration \in [Isolates -> States] /\ stored \in [Names -> Values \cup {Absent}]
      /\ registration[i].state = "writing" /\ UNCHANGED req
      /\ registration' = [registration EXCEPT ![i] = Rest(i)]
    BY DEF Inv, TypeOK, Register, States
<1>2. /\ registration[i].written \in 0..Len(Manifest[i]) /\ k \in Nat \ {0}
      /\ \A j \in 1..registration[i].written : Holds(Manifest[i][j][1])
      /\ Len(Manifest[i]) \in Nat
    BY <1>1, ManifestTyped DEF Served, Written, States
<1>3. \A e \in Names : Holds(e) => Holds(e)'
    BY UpsertHolds
<1>4. ServedWithManifest'
    BY <1>1, <1>3 DEF Served, ServedWithManifest, Holds, Common
<1>5. CASE k > Len(Manifest[i])
    <2>1. registration'[i] = Registered(i) /\ registration[i].written = Len(Manifest[i])
        BY <1>1, <1>2, <1>5 DEF Rest
    <2>2. ASSUME NEW e \in Names PROVE Holds(e)
        <3> SUFFICES ASSUME e \in Common PROVE Holds(e)
            BY DEF Holds
        <3>1. e \in Declared(i)
            BY DEF Common
        <3>2. PICK j \in DOMAIN Manifest[i] : e = Manifest[i][j][1]
            BY <3>1 DEF Declared
        <3>3. j \in 1..Len(Manifest[i])
            BY ManifestTyped
        <3> QED
            BY <1>2, <2>1, <3>2, <3>3
    <2>3. ASSUME NEW j \in Isolates
          PROVE  /\ registration'[j].state = "done" => \A e \in Names : Holds(e)'
                 /\ registration'[j].state = "writing" =>
                       /\ registration'[j].written \in 0..Len(Manifest[j])
                       /\ \A l \in 1..registration'[j].written : Holds(Manifest[j][l][1])'
        <3>1. CASE j = i
            BY <1>3, <2>1, <2>2, <3>1 DEF Registered
        <3>2. CASE j # i
            <4>1. registration'[j] = registration[j] /\ registration[j].written \in Nat
                BY <1>1, <3>2 DEF States
            <4> QED
                BY <1>3, <4>1, ManifestTyped DEF Served, Written
        <3> QED
            BY <3>1, <3>2
    <2> QED
        BY <1>4, <2>3 DEF Served, Written
<1>6. CASE ~ (k > Len(Manifest[i]))
    <2>1. registration'[i] = [state |-> "writing", written |-> k]
        BY <1>1, <1>6 DEF Rest
    <2>2. k \in 1..Len(Manifest[i]) /\ 1..k = 1..registration[i].written \cup {k}
        BY <1>2, <1>6
    <2>3. Manifest[i][k][1] \in Names /\ Manifest[i][k][2] \in Values
        BY <2>2, ManifestTyped
    <2>4. stored' = [stored EXCEPT ![Manifest[i][k][1]] = Manifest[i][k][2]]
        BY <1>6 DEF Register, Upserted
    <2>5. ASSUME NEW l \in 1..Len(Manifest[i]), l = k PROVE Holds(Manifest[i][l][1])'
        BY <1>1, <2>3, <2>4, <2>5, RequestsAssumption DEF Holds
    <2>6. ASSUME NEW j \in Isolates
          PROVE  /\ registration'[j].state = "done" => \A e \in Names : Holds(e)'
                 /\ registration'[j].state = "writing" =>
                       /\ registration'[j].written \in 0..Len(Manifest[j])
                       /\ \A l \in 1..registration'[j].written : Holds(Manifest[j][l][1])'
        <3>1. CASE j = i
            <4>1. ASSUME NEW l \in 1..k PROVE Holds(Manifest[i][l][1])'
                <5>1. CASE l = k
                    BY <2>2, <2>5, <5>1
                <5>2. CASE l # k
                    <6>1. l \in 1..registration[i].written /\ l \in 1..Len(Manifest[i])
                        BY <2>2, <5>2
                    <6> QED
                        BY <1>2, <1>3, <6>1, ManifestTyped
                <5> QED
                    BY <5>1, <5>2
            <4> QED
                BY <2>1, <2>2, <3>1, <4>1
        <3>2. CASE j # i
            <4>1. registration'[j] = registration[j] /\ registration[j].written \in Nat
                BY <1>1, <3>2 DEF States
            <4> QED
                BY <1>3, <4>1, ManifestTyped DEF Served, Written
        <3> QED
            BY <3>1, <3>2
    <2> QED
        BY <1>4, <2>6 DEF Served, Written
<1> QED
    BY <1>5, <1>6

\* Steps that write nothing of a manifest, and start or drop registrations at most.
LEMMA ElsewhereServed ==
    ASSUME Inv, Served, UNCHANGED stored,
           \A i \in Isolates : \/ registration'[i] = registration[i]
                               \/ registration'[i] \in {Unregistered,
                                                        [state |-> "writing", written |-> 0]},
           \A p \in Requests :
               \/ req'[p].pc \in Waiting \/ req[p].pc \notin Waiting
               \/ registration[Visit(p).isolate].state = "done" /\ Visit(p) \in Incoming
    PROVE  Served'
<1>1. ServedWithManifest'
    <2> SUFFICES ASSUME NEW p \in Requests, req'[p].pc \notin Waiting, NEW e \in Common
                 PROVE  stored'[e] # Absent
        BY DEF ServedWithManifest, Waiting, Common, Names, Declared
    <2>1. CASE req[p].pc \notin Waiting
        BY <2>1 DEF Served, ServedWithManifest, Waiting
    <2>2. CASE registration[Visit(p).isolate].state = "done" /\ Visit(p) \in Incoming
        <3>1. Visit(p).isolate \in Isolates /\ e \in Names
            BY <2>2 DEF Incoming, Common
        <3> QED
            BY <2>2, <3>1 DEF Served, Written, Holds
    <2> QED
        BY <2>1, <2>2
<1>2. \A e \in Names : Holds(e) => Holds(e)'
    BY DEF Holds, Common, Names, Declared
<1>3. ASSUME NEW i \in Isolates
      PROVE  /\ registration'[i].state = "done" => \A e \in Names : Holds(e)'
             /\ registration'[i].state = "writing" =>
                   /\ registration'[i].written \in 0..Len(Manifest[i])
                   /\ \A k \in 1..registration'[i].written : Holds(Manifest[i][k][1])'
    <2>1. CASE registration'[i] = registration[i]
        <3>1. registration[i].written \in Nat
            BY DEF Inv, TypeOK
        <3> QED
            BY <1>2, <2>1, <3>1, ManifestTyped DEF Served, Written
    <2>2. CASE registration'[i] = Unregistered
        BY <2>2 DEF Unregistered
    <2>3. CASE registration'[i] = [state |-> "writing", written |-> 0]
        BY <2>3, ManifestTyped
    <2> QED
        BY <2>1, <2>2, <2>3
<1> QED
    BY <1>1, <1>3 DEF Served, Written

LEMMA StepServed == Inv /\ Served /\ [Next]_vars => Served'
<1> SUFFICES ASSUME Inv, Served, [Next]_vars PROVE Served'
    OBVIOUS
<1>1. registration \in [Isolates -> States] /\ req \in [Requests -> Request]
    BY DEF Inv, TypeOK, States
<1>2. CASE UNCHANGED <<stored, registration, req>>
    BY <1>2, ElsewhereServed
<1>3. ASSUME NEW q \in Requests, RequestStep(q) PROVE Served'
    <2>1. UNCHANGED <<stored, registration>>
        BY <1>3 DEF RequestStep, Identify, AdminBoundary, Gate, Route, ContextStarts, ReadTenants,
                    ReadGrants, ContextReads, ContextFails, Require, Read, Refuse, Write, Reread,
                    CallFails, OnlyRequest
    <2> QED
        BY <1>3, <2>1, OnlyIdentifyPasses, ElsewhereServed
<1>4. ASSUME NEW q \in Requests, Arrive(q) \/ BootFails(q) PROVE Served'
    <2>1. PICK v \in Visits[q] :
              /\ \/ req' = [req EXCEPT ![q].visit = v, ![q].pc = "initialize"]
                 \/ req' = [req EXCEPT ![q].visit = v, ![q].pc = "done", ![q].status = "500"]
              /\ \/ UNCHANGED registration
                 \/ registration' = [registration EXCEPT ![v.isolate] =
                                        [state |-> "writing", written |-> 0]]
        BY <1>4 DEF Arrive, BootFails
    <2>2. req'[q].pc \in Waiting /\ Others(q)
        BY <2>1, ArrivesEdits DEF Inv, Waiting
    <2>3. \A i \in Isolates : \/ registration'[i] = registration[i]
                              \/ registration'[i] = [state |-> "writing", written |-> 0]
        BY <1>1, <2>1
    <2> QED
        BY <1>4, <2>2, <2>3, ElsewhereServed DEF Others, Arrive, BootFails
<1>5. ASSUME NEW i \in Isolates, RegisterFails(i) \/ Evict(i) PROVE Served'
    <2>1. UNCHANGED stored /\ registration' = [registration EXCEPT ![i] = Unregistered]
        BY <1>5 DEF RegisterFails, Evict, Dropped
    <2>2. ASSUME NEW p \in Requests PROVE req'[p].pc \in Waiting \/ req[p].pc \notin Waiting
        <3>1. \/ req'[p] = req[p]
              \/ req'[p] = Ended(req[p], "500") \/ req'[p] = Ended(req[p], "lost")
            <4>1. CASE RegisterFails(i)
                BY <4>1, Zenon DEF RegisterFails, Ended
            <4>2. CASE Evict(i)
                BY <4>2, Zenon DEF Evict, Ended
            <4> QED
                BY <1>5, <4>1, <4>2
        <3>2. Ended(req[p], "500").pc = "done" /\ Ended(req[p], "lost").pc = "done"
            BY <1>1, EndedIsOne DEF Status
        <3> QED
            BY <3>1, <3>2 DEF Waiting
    <2> QED
        BY <1>1, <2>1, <2>2, ElsewhereServed
<1>6. ASSUME NEW i \in Isolates, Register(i) PROVE Served'
    BY <1>6, RegisterServed
<1>7. CASE Next
    BY <1>2, <1>3, <1>4, <1>5, <1>6, <1>7 DEF Next, Assign, SetAdmin, SetBreaker
<1> QED
    BY <1>2, <1>7 DEF vars

\* Whatever manifests the deployments declare, in whatever order their statements, failures
\* and evictions come, a request past initialization finds every entitlement that all of
\* them declare (src/auth/subscriptions/d1.ts, service.ts).
THEOREM ManifestServed == Spec => []ServedWithManifest
<1>1. Init => Served
    BY DEF Init, Served, ServedWithManifest, Written, Idle, Unregistered
<1>2. Served => ServedWithManifest
    BY DEF Served
<1> QED
    BY <1>1, <1>2, StepServed, Invariance, PTL DEF Spec

-----------------------------------------------------------------------------
(* What a request waits for                                                 *)

\* A request waits for a registration that is under way or done, and runs only where it is
\* done: whoever fails or evicts it ends those who relied on it.
Attended ==
    \A q \in Requests :
        /\ At(q, "initialize") => registration[Visit(q).isolate].state # "none"
        /\ req[q].pc \notin Waiting => registration[Visit(q).isolate].state = "done"

LEMMA VisitKept ==
    ASSUME TypeOK, NEW q \in Requests, RequestStep(q)
    PROVE  Others(q) /\ req'[q].visit = req[q].visit
<1>1. req[q] \in Request /\ req \in [Requests -> Request]
    BY DEF TypeOK
<1>2. ASSUME NEW pc, Goes(q, pc) \/ \E status : Answers(q, status)
      PROVE  Others(q) /\ req'[q].visit = req[q].visit
    BY <1>1, <1>2 DEF Goes, Answers, Others, Request
<1>3. ASSUME NEW user, NEW system, NEW pc, Known(q, user, system, pc)
      PROVE  Others(q) /\ req'[q].visit = req[q].visit
    BY <1>1, <1>3 DEF Known, Others, Request
<1>4. ASSUME NEW made, NEW found, Proceeds(q, made, found)
      PROVE  Others(q) /\ req'[q].visit = req[q].visit
    BY <1>1, <1>4 DEF Proceeds, Others, Request
<1>5. ASSUME NEW ctx, NEW pending, NEW pc, ContextIs(q, ctx, pending, pc)
      PROVE  Others(q) /\ req'[q].visit = req[q].visit
    BY <1>1, <1>5 DEF ContextIs, Others, Request
<1>6. CASE Identify(q) \/ AdminBoundary(q)
    BY <1>2, <1>3, <1>6 DEF Identify, AdminBoundary
<1>7. CASE Gate(q) \/ Refuse(q) \/ ContextFails(q) \/ CallFails(q)
    BY <1>2, <1>7 DEF Gate, Refuse, ContextFails, CallFails
<1>8. CASE Route(q)
    BY <1>2, <1>4, <1>8 DEF Route
<1>9. CASE ContextStarts(q) \/ ReadTenants(q) \/ ReadGrants(q)
    BY <1>2, <1>5, <1>9 DEF ContextStarts, ReadTenants, ReadGrants, ContextReads
<1>10. CASE Require(q) \/ Read(q) \/ Reread(q)
    BY <1>2, <1>4, <1>10 DEF Require, Read, Reread, Completed
<1>11. CASE Write(q)
    BY <1>2, <1>4, <1>11, WriteIs DEF Completed
<1> QED
    BY <1>6, <1>7, <1>8, <1>9, <1>10, <1>11 DEF RequestStep

LEMMA RequestStepAttended ==
    ASSUME Inv, Attended, NEW q \in Requests, RequestStep(q)
    PROVE  Attended'
<1>1. Others(q) /\ req'[q].visit = req[q].visit /\ ~ At(q, "idle") /\ ~ At(q, "done")
    <2>1. ~ At(q, "idle") /\ ~ At(q, "done")
        BY DEF RequestStep, Identify, AdminBoundary, Gate, Route, ContextStarts, ReadTenants,
               ReadGrants, ContextReads, ContextFails, Require, Read, Refuse, Write, Reread,
               CallFails, At
    <2> QED
        BY <2>1, VisitKept DEF Inv
<1>2. UNCHANGED registration
    BY DEF RequestStep, Identify, AdminBoundary, Gate, Route, ContextStarts, ReadTenants,
           ReadGrants, ContextReads, ContextFails, Require, Read, Refuse, Write, Reread,
           CallFails, OnlyRequest
<1>3. req'[q].pc \notin Waiting => registration[Visit(q).isolate].state = "done"
    BY <1>1, OnlyIdentifyPasses DEF Attended
<1>4. req'[q].pc = "initialize" => registration[Visit(q).isolate].state # "none"
    BY <1>1 DEF Attended, Waiting, At
<1>5. ASSUME NEW p \in Requests
      PROVE  /\ Visit(p)' = Visit(p)
             /\ p # q => req'[p] = req[p]
    BY <1>1 DEF Others, Visit
<1> QED
    BY <1>2, <1>3, <1>4, <1>5 DEF Attended, At

LEMMA StepAttended == Inv /\ Attended /\ [Next]_vars => Attended'
<1> SUFFICES ASSUME Inv, Attended, [Next]_vars PROVE Attended'
    OBVIOUS
<1>1. registration \in [Isolates -> States] /\ req \in [Requests -> Request]
    BY DEF Inv, TypeOK, States
<1>2. CASE UNCHANGED <<registration, req>>
    BY <1>2 DEF Attended, At, Visit
<1>3. ASSUME NEW q \in Requests, Arrive(q) \/ BootFails(q) PROVE Attended'
    <2>1. PICK v \in Visits[q] :
              \/ /\ req' = [req EXCEPT ![q].visit = v, ![q].pc = "initialize"]
                 /\ registration' = IF registration[v.isolate].state # "none" THEN registration
                                    ELSE [registration EXCEPT ![v.isolate] =
                                             [state |-> "writing", written |-> 0]]
              \/ /\ req' = [req EXCEPT ![q].visit = v, ![q].pc = "done", ![q].status = "500"]
                 /\ UNCHANGED registration
        BY <1>3 DEF Arrive, BootFails
    <2>2. /\ Others(q) /\ req'[q].pc \in {"initialize", "done"} /\ req'[q].visit = v
          /\ v.isolate \in Isolates
        <3>1. v \in Incoming
            BY VisitsAreIncoming DEF AllVisits
        <3>2. TypeOK
            BY DEF Inv
        <3>3. \/ req' = [req EXCEPT ![q].visit = v, ![q].pc = "initialize"]
              \/ req' = [req EXCEPT ![q].visit = v, ![q].pc = "done", ![q].status = "500"]
            BY <2>1
        <3>4. v.isolate \in Isolates
            BY <3>1 DEF Incoming
        <3>5. Others(q) /\ req'[q].pc \in {"initialize", "done"} /\ req'[q].visit = v
            BY <3>2, <3>3, ArrivesEdits
        <3> QED
            BY <3>4, <3>5
    <2>3. \A i \in Isolates : registration[i].state # "none" => registration'[i] = registration[i]
        BY <1>1, <2>1, <2>2
    <2>4. req'[q].pc = "initialize" => registration'[v.isolate].state # "none"
        <3>1. CASE req' = [req EXCEPT ![q].visit = v, ![q].pc = "done", ![q].status = "500"]
            <4>1. req'[q].pc = "done"
                BY <1>1, <3>1 DEF Request
            <4> QED
                BY <4>1
        <3>2. CASE registration' = IF registration[v.isolate].state # "none" THEN registration
                                   ELSE [registration EXCEPT ![v.isolate] =
                                            [state |-> "writing", written |-> 0]]
            BY <1>1, <2>2, <3>2
        <3> QED
            BY <2>1, <3>1, <3>2
    <2>5. ASSUME NEW p \in Requests \ {q}
          PROVE  Visit(p)' = Visit(p) /\ req'[p] = req[p] /\ Visit(p).isolate \in Isolates
        BY <2>2, VisitTyped DEF Others, Visit, Inv, Incoming
    <2>6. Visit(q)' = v
        BY <2>2 DEF Visit
    <2> QED
        BY <2>2, <2>3, <2>4, <2>5, <2>6 DEF Attended, At, Waiting
<1>4. ASSUME NEW q \in Requests, RequestStep(q) PROVE Attended'
    BY <1>4, RequestStepAttended
\* A registration that goes on stays under way or gets done; nobody runs on one under way.
<1>5. ASSUME NEW i \in Isolates, Register(i) PROVE Attended'
    <2>1. /\ UNCHANGED req /\ registration[i].state = "writing"
          /\ registration' = [registration EXCEPT ![i] = Rest(i)]
        BY <1>5 DEF Register
    <2>2. Rest(i).state # "none"
        BY DEF Rest, Registered
    <2>3. \A j \in Isolates : registration'[j] = IF j = i THEN Rest(i) ELSE registration[j]
        BY <1>1, <2>1
    <2>4. \A p \in Requests : Visit(p)' = Visit(p) /\ Visit(p).isolate \in Isolates
        BY <2>1, VisitTyped DEF Visit, Inv, Incoming
    <2> QED
        BY <2>1, <2>2, <2>3, <2>4 DEF Attended, At
<1>6. ASSUME NEW i \in Isolates, RegisterFails(i) \/ Evict(i) PROVE Attended'
    <2>1. registration' = [registration EXCEPT ![i] = Unregistered]
        BY <1>6 DEF RegisterFails, Evict, Dropped
    <2>2. ASSUME NEW p \in Requests
          PROVE  \/ req'[p].pc = "done"
                 \/ req'[p] = req[p] /\ (Visit(p).isolate = i => At(p, "idle"))
        <3>1. req[p] \in Request /\ "500" \in Status /\ "lost" \in Status
            BY <1>1 DEF Status
        <3>2. Ended(req[p], "500").pc = "done" /\ Ended(req[p], "lost").pc = "done"
            BY <3>1, EndedIsOne
        <3>3. CASE RegisterFails(i)
            <4>1. req'[p] = IF At(p, "initialize") /\ Visit(p).isolate = i
                            THEN Ended(req[p], "500") ELSE req[p]
                BY <3>3, Zenon DEF RegisterFails, Ended
            <4>2. registration[i].state = "writing"
                BY <3>3 DEF RegisterFails
            <4> QED
                BY <3>2, <4>1, <4>2 DEF Attended, Waiting, At
        <3>4. CASE Evict(i)
            <4>1. req'[p] = IF Visit(p).isolate = i /\ ~ At(p, "idle") /\ ~ At(p, "done")
                            THEN Ended(req[p], "lost") ELSE req[p]
                BY <3>4, Zenon DEF Evict, Ended
            <4> QED
                BY <3>2, <4>1 DEF At
        <3> QED
            BY <1>6, <3>3, <3>4
    <2>3. \A j \in Isolates \ {i} : registration'[j] = registration[j]
        BY <1>1, <2>1
    <2>4. \A p \in Requests : Visit(p).isolate \in Isolates
        BY VisitTyped DEF Inv, Incoming
    <2>5. \A p \in Requests : req'[p] = req[p] => Visit(p)' = Visit(p)
        BY DEF Visit
    <2> QED
        BY <2>2, <2>3, <2>4, <2>5 DEF Attended, At, Waiting
<1>7. CASE Next
    BY <1>2, <1>3, <1>4, <1>5, <1>6, <1>7 DEF Next, Assign, SetAdmin, SetBreaker
<1> QED
    BY <1>2, <1>7 DEF vars

\* No request waits for a registration that nobody is writing, and none goes on in an isolate
\* that is not registered: the promise is shared, and dropped only with those who awaited it
\* (ensureSubscriptionManifest, src/auth/subscriptions/service.ts:69).
THEOREM NobodyWaitsInVain == Spec => []Attended
<1>1. Init => Attended
    BY DEF Init, Attended, Idle, At, Waiting
<1> QED
    BY <1>1, StepAttended, Invariance, PTL DEF Spec
=============================================================================
