------------------------------- MODULE MCLoyalty -------------------------------
(* The composed service for TLC.                                             *)
EXTENDS Loyalty, TLC

CONSTANTS alice, bob, o1, o2, w1, w2, up1, up2

MCUsers == {alice, bob}
OneUser == {alice}
TwoOrders == {o1, o2}
OneUpload == {up1}
TwoUploads == {up1, up2}
OneWithdraw == {w1}
TwoWithdraws == {w1, w2}
NoOpening == [u \in MCUsers |-> 0]
NoOpeningOneUser == [u \in OneUser |-> 0]
OpeningOne == [u \in MCUsers |-> 1]

MCSums == {14, 0 - 6}

\* What the accrual service may answer, as SPECIFICATION.md describes it.
Registered == [status |-> "REGISTERED", accrual |-> Null]
InProcess == [status |-> "PROCESSING", accrual |-> Null]
Invalid == [status |-> "INVALID", accrual |-> Null]
Processed(amount) == [status |-> "PROCESSED", accrual |-> amount]

ConformingService == {Registered, InProcess, Invalid, Processed(Null), Processed(14)}
SlowService == {InProcess, Processed(16)}
PayingService == {InProcess, Invalid, Processed(16)}

MCSymmetry == Permutations(MCUsers) \cup Permutations(TwoOrders)

\* Each user withdraws for an order of the user's own.
OrdersOfTheirOwn ==
    /\ withdraw[w1].user = alice /\ withdraw[w1].order = o1
    /\ withdraw[w2].user = bob /\ withdraw[w2].order = o2

TwoUsersInit == Init /\ OrdersOfTheirOwn

TwoUsersSpec == TwoUsersInit /\ [][Next]_vars /\ Fairness
=============================================================================
