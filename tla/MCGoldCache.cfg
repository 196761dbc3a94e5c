\* Two processes, two versions of the questions, two seeds.
SPECIFICATION FairSpec
CONSTANTS
    p1 = p1  p2 = p2  v1 = v1  v2 = v2  standard = standard  other = other
    None = None  Torn = Torn
    Procs = {p1, p2}
    Seeds = {standard, other}
    DefaultSeed = standard
    Versions = {v1, v2}
INVARIANTS
    ServedGoldIsRight
PROPERTIES
    EveryBuildIsServed
