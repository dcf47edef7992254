SPECIFICATION ReliableSpec
CONSTANTS
    alice = alice
    bob = bob
    o1 = o1
    o2 = o2
    w1 = w1
    w2 = w2
    up1 = up1
    up2 = up2
    get1 = get1
    IntMax = 499
    MaxLength = 3
    Null = Null
    Task = Task
    Users <- MCUsers
    Orders <- MCOrders
    ValidOrders <- MCValidOrders
    TextOf <- MCTextOf
    Sums <- MCSums
    Opening <- MCOpening
    Reads = {}
    Uploads <- TwoUploads
    Withdraws = {}
INVARIANT
    NoInternalError
