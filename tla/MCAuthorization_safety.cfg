SPECIFICATION Spec
CONSTANTS
    u1 = u1
    g1 = g1
    t0 = t0
    t1 = t1
    s1 = s1
    b1 = b1
    c1 = c1
    c2 = c2
    NoId = NoId
    Users = {u1}
    Groups = {g1}
    Tenants = {t0, t1}
    DefaultTenant = t0
    Scopes = {s1}
    Subscriptions = {b1}
    Callers = {c1, c2}
    Wanted <- AllOrNothing
    OperatorParts <- TenantsOrRest
    Busy = {t1}
    Faults = {"store"}
SYMMETRY CallerSymmetry
INVARIANTS TypeOK SystemScopesUngranted SignInsAgree StandingRowsSurvive
PROPERTY RecreatedStartsEmpty
CHECK_DEADLOCK FALSE
