--------------------------------- MODULE Ledger ---------------------------------
(***************************************************************************)
(* What the service promises its users, without tables, statements,         *)
(* transactions or processes: who owns which order number, what each order  *)
(* earned, and which payments were made.  Loyalty implements it.            *)
(***************************************************************************)
EXTENDS Integers

CONSTANTS
    Users,      \* who owns orders and pays
    Orders,     \* order numbers
    Payments,   \* names of payments
    Null

VARIABLES
    owner,      \* order -> the user who claimed it, or Null
    credit,     \* order -> the points it earned, or Null
    payments    \* the payments made

ledgerVars == <<owner, credit, payments>>

Payment == [id: Payments, user: Users, order: Orders, sum: Int]

LedgerInit ==
    /\ owner = [o \in Orders |-> Null]
    /\ credit = [o \in Orders |-> Null]
    /\ payments = {}

\* A number belongs to the first user who claims it, for good.
Claim(u, o) ==
    /\ owner[o] = Null
    /\ owner' = [owner EXCEPT ![o] = u]
    /\ UNCHANGED <<credit, payments>>

\* Any number of claimed orders earn points, each of them once.
Grant ==
    /\ credit' \in [Orders -> Nat \cup {Null}]
    /\ \A o \in Orders :
           credit'[o] # credit[o] => credit[o] = Null /\ owner[o] # Null
    /\ UNCHANGED <<owner, payments>>

\* A user pays for an order of the user's own; no payment is made twice,
\* changed or taken back.  Nothing is said of the sum, a negative one included.
Pay(p) ==
    /\ p \in Payment
    /\ \A q \in payments : q.id # p.id
    /\ owner[p.order] = p.user
    /\ payments' = payments \cup {p}
    /\ UNCHANGED <<owner, credit>>

LedgerNext ==
    \/ \E u \in Users, o \in Orders : Claim(u, o)
    \/ Grant
    \/ \E p \in payments' : Pay(p)

LedgerSpec == LedgerInit /\ [][LedgerNext]_ledgerVars
=============================================================================
