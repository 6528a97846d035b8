SPECIFICATION Spec
CONSTANTS
    Maintainers = {m1, m2}
    Bases = 2
    Pres = 1
    MaxCommits = 3
    Nobody = Nobody
SYMMETRY Symmetry
INVARIANTS TagsAreOnMain PublishedFromTag ReportsAreTrue
CHECK_DEADLOCK FALSE
