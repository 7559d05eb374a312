CONSTANTS
    Inst = {k1, k2}
    Device = {d1, d2}
    Spoke = {s1, s2}
    Cfg = {c1}
    Nil = Nil
    MaxFaults = 1
    MaxCrashes = 0
    MaxRemoves = 1
    MaxTrouble = 2
    usesIpam = {d1}
    d1 = d1
    d2 = d2
    s1 = s1
    s2 = s2
    c1 = c1
    k1 = k1
    k2 = k2
    spokeOf <- OwnSpokes
    cfgOf <- OneCfg
SPECIFICATION PodFairSpec
INVARIANTS
    PodTypeOK
    PodsOnLan
    UndisturbedPodsRun
PROPERTIES
    PodsAnswered
    LinkKept
    AddressReturned
