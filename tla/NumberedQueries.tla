----------------------------- MODULE NumberedQueries -----------------------------
(***************************************************************************)
(* Order numbers as texts: the numbers that IsValid accepts are the ones the *)
(* handlers let through (internal/entity/order.go and the services).        *)
(***************************************************************************)
EXTENDS Queries, Number

CONSTANT TextOf       \* the text of an order number

ASSUME NumberedAssumption ==
    /\ TextOf \in [Orders -> Texts]
    /\ ValidOrders = {o \in Orders : IsValid(TextOf[o])}

\* The number of an order passes the Luhn check as it is defined.
PassesLuhn(o) == LuhnHolds(Unsigned(TextOf[o]))

\* What a number that is let through looks like.  The loop of the check is not
\* entered for a number with a minus sign: its last digit alone decides.
Acceptable(o) ==
    /\ Parses(TextOf[o])
    /\ IF IsMinus(TextOf[o]) THEN Magnitude(TextOf[o]) % 10 = 0 ELSE PassesLuhn(o)

(* Whatever way a number comes in, an upload or a withdrawal, and however the *)
(* requests race: a stored number fits into an int and passes the Luhn check *)
(* as it is defined, and no such number is refused as a wrong one            *)
(* (Service.Create, IsValid); with a minus sign, those ending in 0.          *)
NumbersAreChecked ==
    /\ \A o \in Orders : Exists(o) => Acceptable(o)
    /\ \A r \in Uploads : upload[r].resp = 422 => ~Acceptable(upload[r].order)
=============================================================================
