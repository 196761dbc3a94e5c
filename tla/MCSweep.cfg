\* A small profile and a full one in one directory, two deaths in a cell.
SPECIFICATION FairSpec
CONSTANTS
    oneShot = oneShot  loop = loop
    item1 = item1  item2 = item2
    smoke = smoke  delivery = delivery
    NoFile = NoFile  Torn = Torn
    Items = {item1, item2}
    PlanOf <- PlanOfProfiles
    ItemsOf <- ItemsOfProfiles
    CapOf <- TightCaps
    MaxItemCost = 2
    Cells = {oneShot, loop}
    Profiles = {smoke, delivery}
    Projection <- Underrated
    MaxDeaths = 2
INVARIANTS
    TypeOK
    SpendingIsAccountedFor
    LossIsOneCellPerDeath
PROPERTIES
    ImplementsMeasuredOnce
    EveryInvocationEnds
