\* A process that lives through an edit, and one that starts after it.
SPECIFICATION Spec
CONSTANTS
    p1 = p1  p2 = p2  v1 = v1  v2 = v2  standard = standard  other = other
    None = None  Torn = Torn
    Procs = {p1, p2}
    Seeds = {standard}
    DefaultSeed = standard
    Versions = {v1, v2}
INVARIANT EditsInvalidateTheCache
