SPECIFICATION BuildersSpec
CONSTANTS
    b1 = b1
    b2 = b2
    Builders = {b1, b2}
    Project <- Same
    Groups <- OneBase
    Files = {"header", "program"}
    Rules <- NoRules
    MaxRuns = 2
INVARIANTS BuildsSound PackagesTrue
CONSTRAINT Bounded
SYMMETRY Alike
CHECK_DEADLOCK FALSE
