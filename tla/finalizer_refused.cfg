CONSTANTS
    Host = {h1, h2}
    Foreign = {other}
    DefaultVxGrp = "ff02::14"
    DefaultVxPort = 4789
    MaxSpokes = 2
    Absent = Absent
    h1 = h1
    h2 = h2
    other = other
    Word <- Words
    width <- Widths
    Wanted <- EmptyMap
    Multicast <- Groups
SPECIFICATION Spec
CHECK_DEADLOCK FALSE
PROPERTIES
    FinalizersAdded
