CONSTANTS
    Host = {h1}
    PodHost = {}
    Lan = {l1, l2}
    Name = {n1}
    Spoke = {s1}
    Ns = {ns1, ns2}
    Kind = {macvtap}
    ChanDepth = 2
    MaxEvents = 0
    None = None
    h1 = h1
    h2 = h2
    l1 = l1
    l2 = l2
    l3 = l3
    n1 = n1
    n2 = n2
    s1 = s1
    s2 = s2
    ns1 = ns1
    ns2 = ns2
    ns3 = ns3
    nameOf <- AgainNames
    spokesOf <- AgainSpokes
    nsOf <- TwoNs
SPECIFICATION FairSpec
CHECK_DEADLOCK FALSE
PROPERTIES
    EventuallyServed
