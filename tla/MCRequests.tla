----------------------------- MODULE MCRequests -----------------------------
(* A visitor of a site with a private, a shared and a catalog resource, and *)
(* the first request of the next deployment.                                *)
EXTENDS Requests, TLC

CONSTANTS u1, u2, t0, t1, s1, q1, q2, i1, i2

Columned == [columns |-> Columns, owner |-> "user_id", tenant |-> "tenant_id",
             operations |-> {}, needs |-> [op \in {} |-> {}], guarded |-> [c \in {} |-> {}],
             writable |-> {"visibility"}, publicRead |-> "no", scope |-> "user"]
MCResources ==
    [notes |-> Columned,
     recipes |-> [Columned EXCEPT !.scope = "tenant", !.publicRead = "shown",
                                  !.needs = [op \in {"update"} |-> {s1}],
                                  !.guarded = [c \in {"visibility"} |-> {s1}]],
     catalog |-> [Columned EXCEPT !.scope = "public", !.operations = {"read"}]]
MCInitialRows ==
    [notes |-> [user_id |-> u2, tenant_id |-> NoTenant, visibility |-> "private"],
     recipes |-> [user_id |-> Nobody, tenant_id |-> t1, visibility |-> "private"],
     catalog |-> [user_id |-> Nobody, tenant_id |-> t0, visibility |-> "private"]]

Does(n, scope, op, values) == [resource |-> n, scope |-> scope, op |-> op, values |-> values]
NoValues == [c \in {} |-> ""]
Publish == [visibility |-> "public"]
Seize == [visibility |-> "public", user_id |-> u1]

Plain == [isolate |-> i1, path |-> "api", protected |-> TRUE, strategy |-> "oauth",
          credentials |-> FALSE, origin |-> "same", site |-> "same-origin", mutates |-> TRUE,
          user |-> u1, tenant |-> NoTenant, token |-> NoToken, route |-> "open", calls |-> <<>>]
MCDomains ==
    {[name |-> "site", options |-> [auth |-> "public"],
      routes |-> {[key |-> "open", input |-> NoValues],
                  [key |-> "guarded", input |-> [csrf |-> TRUE, auth |-> "user", scopes |-> {s1}]]}],
     [name |-> "platform", options |-> [auth |-> "admin", scopes |-> {s1}],
      routes |-> {[key |-> "manage", input |-> [scopeMode |-> "any", authorize |-> TRUE]]}]}
Forged == [admin |-> u2, target |-> u1]
Genuine == [admin |-> u1, target |-> u2]
Makes(cs) == [Plain EXCEPT !.calls = cs]

Asks(e, values) == [tenant |-> t1, entitlement |-> e, accepts |-> values, op |-> "require"]
Health == [Plain EXCEPT !.path = "health", !.user = Nobody, !.protected = FALSE]
MCVisits ==
    (q1 :> {[Makes(<<Does("recipes", "tenant", "read", NoValues), Does("recipes", "tenant", "update", Publish)>>)
                EXCEPT !.tenant = t1],
            [Makes(<<Does("recipes", "tenant", "read", NoValues), Does("catalog", "public", "read", NoValues)>>)
                EXCEPT !.user = Nobody],
            [Makes(<<Does("notes", "user", "delete", NoValues), Does("notes", "user", "create", Seize)>>)
                EXCEPT !.token = Genuine, !.tenant = t0],
            [Makes(<<Does("notes", "user", "update", NoValues)>>) EXCEPT !.token = Forged],
            [Makes(<<Does("notes", "system", "update", Seize)>>)
                EXCEPT !.token = Genuine, !.route = "guarded", !.path = "admin"],
            [Makes(<<Does("recipes", "tenant", "create", Publish)>>)
                EXCEPT !.route = "guarded", !.site = "other", !.tenant = t1],
            [Plain EXCEPT !.path = "admin", !.origin = "other"],
            [Makes(<<Does("recipes", "system", "delete", NoValues), Does("recipes", "tenant", "create", NoValues)>>)
                EXCEPT !.path = "admin", !.strategy = "http_basic", !.credentials = TRUE,
                       !.route = "manage"],
            [Plain EXCEPT !.isolate = i2]}) @@
    (q2 :> {Health, [Health EXCEPT !.isolate = i2],
            [Makes(<<Asks("seats", {"old", "new"}), Does("recipes", "tenant", "delete", NoValues)>>)
                EXCEPT !.user = u2]})

MCEnvironment == (i1 :> OAuthEnvironment \cup {"DB"}) @@ (i2 :> {"DB"})
MCManifest == (i1 :> <<<<"vip", "old">>, <<"seats", "old">>>>) @@ (i2 :> <<<<"seats", "new">>>>)
Members == {<<u1, {t1}, {s1}>>, <<u1, {t0}, {}>>, <<u2, {t1}, {}>>}
Initial == {<<u1, {t1}, {s1}>>, <<u2, {t1}, {}>>}
=============================================================================
