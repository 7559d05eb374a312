CONSTANTS
    Inst = {k1, k2, k3}
    Device = {d1, d2}
    Spoke = {s1, s2}
    Cfg = {c1, c2}
    Nil = Nil
    MaxFaults = 2
    MaxCrashes = 1
    MaxRemoves = 1
    d1 = d1
    d2 = d2
    s1 = s1
    s2 = s2
    c1 = c1
    c2 = c2
    k1 = k1
    k2 = k2
    k3 = k3
    spokeOf <- SameSpokes
    cfgOf <- StaleCfg
SYMMETRY InstSymmetry
SPECIFICATION Spec
INVARIANTS
    TypeOK
    OneMount
    SpokeServed
    UndisturbedMakesAll
PROPERTIES
    VxlanKept
    NamespaceSpec
