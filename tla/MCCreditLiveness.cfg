SPECIFICATION TwoUsersSpec
CONSTANTS
    alice = alice
    bob = bob
    o1 = o1
    o2 = o2
    w1 = w1
    w2 = w2
    up1 = up1
    up2 = up2
    Null = Null
    Task = Task
    Users <- MCUsers
    Opening <- OpeningOne
    Orders <- TwoOrders
    ValidOrders <- TwoOrders
    Uploads = {}
    Withdraws <- TwoWithdraws
    Sums = {14}
    Replies <- SlowService
    Poison = {}
PROPERTIES
    DecidedIsCredited
    EveryRequestEnds
