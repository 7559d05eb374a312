CONSTANTS
    Inst = {k1, k2}
    Device = {d1, d2}
    Spoke = {s1, s2}
    Cfg = {c1, c2}
    Nil = Nil
    MaxFaults = 1
    MaxCrashes = 0
    MaxRemoves = 0
    d1 = d1
    d2 = d2
    s1 = s1
    s2 = s2
    c1 = c1
    c2 = c2
    k1 = k1
    k2 = k2
    k3 = k3
    spokeOf <- SameSpokes
    cfgOf <- SameCfg
SPECIFICATION Spec
INVARIANTS
    EnsureMakesAll
