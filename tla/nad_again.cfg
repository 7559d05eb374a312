CONSTANTS
    Host = {h1}
    Lan = {l1, l2}
    Name = {n1}
    Spoke = {s1}
    Ns = {ns1}
    Kind = {macvtap, veth}
    Space = {a}
    NoLan = NoLan
    MaxFailures = 1
    MaxRestarts = 1
    MaxFeed = 4
    h1 = h1
    l1 = l1
    l2 = l2
    n1 = n1
    s1 = s1
    ns1 = ns1
    a = a
    nameOf <- AgainNames
    spokesOf <- OneSpoke
    nsOf <- OneNs
    spaceOf <- OneSpace
SPECIFICATION FairSpec
CHECK_DEADLOCK FALSE
INVARIANTS
    TypeOK
    NoneForgotten
PROPERTIES
    EventuallyDefined
    NothingStays
