SPECIFICATION FairSpec
CONSTANTS
    alice = alice
    bob = bob
    o1 = o1
    o2 = o2
    w1 = w1
    w2 = w2
    up1 = up1
    up2 = up2
    Null = Null
    Task = Task
    Users <- OneUser
    Opening <- NoOpeningOneUser
    Orders <- TwoOrders
    ValidOrders <- TwoOrders
    Uploads <- TwoUploads
    Withdraws = {}
    Sums <- MCSums
    Replies <- PayingService
    Poison = {o2}
PROPERTY
    DecidedIsCredited
