\* One frontier and one worker cell, two runs, two sweeps that may overlap.
SPECIFICATION Spec
CONSTANTS
    f1 = f1  w1 = w1  s1 = s1  s2 = s2
    item1 = item1  item2 = item2
    head1 = head1  head2 = head2  gold = gold
    NoEdits = NoEdits  Unknown = Unknown  None = None  Torn = Torn
    Frontier = {f1}
    Worker = {w1}
    Items = {item1, item2}
    OutcomesOf <- TheOutcomes
    Setups <- TwoCommits
    Sweeps = {s1, s2}
    MaxRuns = 2
SYMMETRY Alike
INVARIANTS
    StampsNameTheSetup
    CheckedCellsCarryTheFingerprint
    PairedTestsAgreeWithTheBars
