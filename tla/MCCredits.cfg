SPECIFICATION Spec
CONSTANTS
    alice = alice
    bob = bob
    o1 = o1
    o2 = o2
    w1 = w1
    w2 = w2
    up1 = up1
    up2 = up2
    Null = Null
    Task = Task
    Users <- MCUsers
    Opening <- NoOpening
    Orders <- TwoOrders
    ValidOrders <- TwoOrders
    Uploads <- OneUpload
    Withdraws <- OneWithdraw
    Sums <- MCSums
    Replies <- ConformingService
    Poison = {}
SYMMETRY MCSymmetry
INVARIANTS
    TypeOK
    CreditedExactlyOnce
    BatchInv
    CreditInv
    RowsFollowService
    PointsConserved
    LocksAreLive
PROPERTIES
    FinalRowsNeverChange
    ImplementsLedger
