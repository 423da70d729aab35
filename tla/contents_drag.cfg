SPECIFICATION OrderSpec
CONSTANTS
    s1 = s1
    s2 = s2
    s3 = s3
    o1 = o1
    r1 = r1
    r2 = r2
    Contents = {s1, s2, s3, o1}
    Tutorials = {s1, s2, s3}
    Starts <- MCStarts
    AdminRequests = {r1, r2}
    MaxPosition = 4
    MaxRequests = 3
    Null = Null
SYMMETRY Symmetry
CHECK_DEADLOCK FALSE
PROPERTY DragAccepted
