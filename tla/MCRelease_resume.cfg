SPECIFICATION FairSpec
CONSTANTS
    Maintainers = {m1}
    Bases = 3
    Pres = 1
    MaxCommits = 4
    Nobody = Nobody
PROPERTY ReleasesGoOn
CHECK_DEADLOCK FALSE
