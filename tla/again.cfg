CONSTANTS
    Host = {h1}
    PodHost = {h1}
    Lan = {l1, l2, l3}
    Name = {n1, n2}
    Spoke = {s1, s2}
    Ns = {ns1, ns2}
    Kind = {macvtap}
    ChanDepth = 1
    MaxEvents = 0
    None = None
    h1 = h1
    h2 = h2
    l1 = l1
    l2 = l2
    l3 = l3
    n1 = n1
    n2 = n2
    s1 = s1
    s2 = s2
    ns1 = ns1
    ns2 = ns2
    ns3 = ns3
    nameOf <- ThreeNames
    spokesOf <- ThreeSpokes
    nsOf <- ThreeNs
SPECIFICATION Spec
CHECK_DEADLOCK FALSE
INVARIANTS
    EveryTraceAnswered
    CopiesAreSafe
    TypeOK
PROPERTIES
    LiveNamespaceKept
