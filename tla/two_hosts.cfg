CONSTANTS
    Host = {h1, h2}
    PodHost = {h1, h2}
    Lan = {l1}
    Name = {n1}
    Spoke = {s1}
    Ns = {ns1}
    Kind = {macvtap}
    ChanDepth = 1
    MaxEvents = 1
    None = None
    h1 = h1
    h2 = h2
    l1 = l1
    l2 = l2
    l3 = l3
    n1 = n1
    n2 = n2
    s1 = s1
    s2 = s2
    ns1 = ns1
    ns2 = ns2
    ns3 = ns3
    nameOf <- OneName
    spokesOf <- OneSpoke
    nsOf <- OneNs
SPECIFICATION Spec
SYMMETRY HostSymmetry
CHECK_DEADLOCK FALSE
INVARIANTS
    NoHostSkipped
    EveryTraceAnswered
PROPERTIES
    ReleaseAfterCleanup
    NoHoldAfterDelete
    LifecycleSpec
