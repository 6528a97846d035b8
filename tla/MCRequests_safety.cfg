SPECIFICATION FairSpec
CONSTANTS
    u1 = u1
    u2 = u2
    t0 = t0
    t1 = t1
    s1 = s1
    q1 = q1
    q2 = q2
    i1 = i1
    i2 = i2
    Nobody = Nobody
    NoTenant = NoTenant
    Absent = Absent
    NoToken = NoToken
    Users = {u1, u2}
    Tenants = {t0, t1}
    Scopes = {s1}
    Values = {"old", "new"}
    Requests = {q1, q2}
    Isolates = {i1, i2}
    Environment <- MCEnvironment
    RequiredBindings = {"DB"}
    Domains <- MCDomains
    Subscribers = {t1}
    BasicAdmin = u2
    PublicTenant = t0
    Resources <- MCResources
    InitialRows <- MCInitialRows
    Visits <- MCVisits
    Manifest <- MCManifest
    Assignments <- Members
    Initially <- Initial
    Administrators = {u1}
    Disturbances = 2
INVARIANTS TypeOK AnswersAreEntitled ServedWithManifest
PROPERTIES WritesAreEntitled Recovers
CHECK_DEADLOCK FALSE
