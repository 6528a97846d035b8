----------------------------- MODULE DataPolicy -----------------------------
(***************************************************************************)
(* What the scoped data reader lets an actor do: src/data/resources.ts,    *)
(* which accepts a resource when the application is composed, and          *)
(* src/data/policy.ts, which decides each call of src/data/reader.ts.      *)
(*                                                                         *)
(* A row is a function from columns to values.  A resource is a record:    *)
(* scope, columns, owner and tenant (the columns that hold them), writable *)
(* and operations (as declared), needs (operationScopes), guarded          *)
(* (columnScopes) and publicRead: "no", "all", or "shown" for the rows     *)
(* whose Shown column says so.                                             *)
(***************************************************************************)
CONSTANTS Nobody, NoTenant   \* null

DATA_SCOPES == {"user", "tenant", "public", "system"}
DATA_OPERATIONS == {"read", "create", "update", "delete"}
Shown == [column |-> "visibility", value |-> "public"]

-----------------------------------------------------------------------------
(* Resources                                                                *)

WritableColumns(r) == r.writable \ {r.owner, r.tenant}

Operations(r) ==
    IF r.operations # {} THEN r.operations
    ELSE {"read"} \cup (IF WritableColumns(r) # {} THEN DATA_OPERATIONS ELSE {})

\* normalizeDataResource throws for anything else.
Accepted(r) ==
    /\ r.scope \in DATA_SCOPES
    /\ r.columns # {}
    /\ r.scope = "user" => r.owner \in r.columns
    /\ r.scope \in {"tenant", "public"} => r.tenant \in r.columns
    /\ WritableColumns(r) \subseteq r.columns
    /\ DOMAIN r.guarded \subseteq r.columns
    /\ DOMAIN r.needs \subseteq DATA_OPERATIONS
    /\ "read" \in Operations(r) /\ Operations(r) \subseteq DATA_OPERATIONS
    /\ r.publicRead = "shown" => Shown.column \in r.columns

-----------------------------------------------------------------------------
(* Actors: the DataActorContext of src/data/model.ts                        *)

Needs(r, op) == IF op \in DOMAIN r.needs THEN r.needs[op] ELSE {}
Guards(r, column) == IF column \in DOMAIN r.guarded THEN r.guarded[column] ELSE {}

ScopeAllowed(r, scope, actor, op) ==
    \/ scope = "system" /\ actor.system
    \/ scope = "user" /\ r.scope = "user" /\ actor.user # Nobody
    \/ /\ scope = "public" /\ r.scope = "public"
       /\ actor.publicTenant # NoTenant /\ op = "read"
    \/ /\ scope = "tenant" /\ r.scope = "tenant" /\ actor.tenant # NoTenant
       /\ IF actor.public THEN r.publicRead # "no" /\ op = "read" ELSE actor.user # Nobody

Allowed(r, scope, actor, op) ==
    /\ ScopeAllowed(r, scope, actor, op)
    /\ op \in Operations(r)
    /\ actor.system \/ Needs(r, op) \subseteq actor.scopes

ColumnsAllowed(r, actor, columns) ==
    actor.system \/ \A c \in columns : Guards(r, c) \subseteq actor.scopes

\* The predicates every statement of the reader carries (addScopePredicate).
InScope(r, scope, actor, row) ==
    /\ scope = "user" => row[r.owner] = actor.user
    /\ scope = "public" => row[r.tenant] = actor.publicTenant
    /\ scope = "tenant" =>
          /\ row[r.tenant] = actor.tenant
          /\ actor.public /\ r.publicRead = "shown" => row[Shown.column] = Shown.value

\* cleanWritableValues: ownership is writable in system scope only.
Clean(r, scope, values) ==
    [c \in {c \in DOMAIN values :
               \/ c \in WritableColumns(r)
               \/ scope = "system" /\ c \in {r.owner, r.tenant}} |-> values[c]]

\* f, and g where f says nothing.
Over(f, g) == [c \in DOMAIN f \cup DOMAIN g |-> IF c \in DOMAIN f THEN f[c] ELSE g[c]]

\* The ownership of a new row comes from the actor, never from the caller (addOwnedValue).
Ownership(r, scope, actor) ==
    CASE scope = "user" -> [c \in {r.owner} |-> actor.user]
      [] scope = "tenant" -> [c \in {r.tenant} |-> actor.tenant]
      [] OTHER -> [c \in {} |-> Nobody]

\* What an INSERT stores (a column without a value is at its table's default) and what an
\* UPDATE leaves of a row.
Inserted(r, scope, actor, values, default) ==
    Over(Ownership(r, scope, actor), Over(Clean(r, scope, values), default))
Updated(r, scope, values, row) == Over(Clean(r, scope, values), row)
=============================================================================
