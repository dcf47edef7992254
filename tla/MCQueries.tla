------------------------------- MODULE MCQueries -------------------------------
(* Queries for TLC: two users who start with points, concurrent withdrawals of *)
(* as many points, of one hundredth more or of less than none, uploads that   *)
(* compete for the same order numbers, of which one passes the check and one *)
(* would without its minus sign, and a read.                                 *)
EXTENDS NumberedQueries, TLC

CONSTANTS alice, bob, o1, o2, w1, w2, up1, up2, get1

MCUsers == {alice, bob}
MCOrders == {o1, o2}
MCTextOf == [o \in MCOrders |-> IF o = o1 THEN <<5, 9>> ELSE <<Minus, 1, 8>>]
MCValidOrders == {o1}
OneWithdraw == {w1}
TwoWithdraws == {w1, w2}
TwoUploads == {up1, up2}
OneRead == {get1}
MCOpening == [u \in MCUsers |-> 2]
MCSums == {24, 26, 0 - 14}

\* The check of the numbers is the Luhn check, over all short texts.
ASSUME MCLuhnAssumption == DigitsFollowLuhn /\ TyposAreCaught

MCSymmetry ==
    Permutations(MCUsers) \cup Permutations(TwoWithdraws) \cup Permutations(TwoUploads)
=============================================================================
