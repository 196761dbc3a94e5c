\* The pipeline is tried with smoke, then delivery is run.
SPECIFICATION Spec
CONSTANTS
    oneShot = oneShot  loop = loop
    item1 = item1  item2 = item2
    smoke = smoke  delivery = delivery
    NoFile = NoFile  Torn = Torn
    Items = {item1, item2}
    PlanOf <- PlanOfProfiles
    ItemsOf <- ItemsOfProfiles
    CapOf <- Caps
    MaxItemCost = 2
    Cells = {oneShot, loop}
    Profiles = {smoke, delivery}
    Projection <- Honest
    MaxDeaths = 0
INVARIANT ReportsCoverTheProfile
