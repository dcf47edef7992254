------------------------------ MODULE OrderService ------------------------------
(***************************************************************************)
(* Uploading an order number: POST /api/user/orders.  The handler           *)
(* (internal/handler/order/handler.go) calls Service.Create                 *)
(* (internal/service/order/service.go), which reads the order's row and,    *)
(* when there is none, inserts one: two statements, no transaction, any     *)
(* number of requests at a time.  Each request of Uploads runs once; its    *)
(* user and order are chosen in the initial state.                          *)
(***************************************************************************)
EXTENDS LoyaltyStore

CONSTANT Uploads      \* requests POST /api/user/orders

VARIABLE upload       \* request -> its user, order, next call and answer

NoAnswer == 0

UploadCodes == {200, 202, 409, 422, 500}

UploadTypeOK ==
    upload \in [Uploads -> [pc: {"Order", "Create", "done"}, user: Users,
                            order: Orders, resp: UploadCodes \cup {NoAnswer}]]

\* Type correctness of the tables and the upload requests.
OrderTypeOK == StoreTypeOK /\ UploadTypeOK

UploadInit ==
    upload \in [Uploads -> [pc: {"Order"}, user: Users, order: Orders,
                            resp: {NoAnswer}]]

-----------------------------------------------------------------------------
(* Mutant: the owner of the row is not compared.                             *)
LookupOutcomeAnyUser(u, o) ==
    IF o \notin ValidOrders THEN "ErrWrongOrderNumber"
    ELSE IF ~Exists(o) THEN "insert"
    ELSE "ErrOrderAlreadyExists"

(* Mutant: the number is looked up, but not checked.                         *)
LookupOutcomeUnchecked(u, o) ==
    IF ~Exists(o) THEN "insert"
    ELSE IF orders[o].user # u THEN "ErrWrongUser"
    ELSE "ErrOrderAlreadyExists"

(* Service.Create up to the insert: what the request learns from IsValid and *)
(* from the row it reads.  The withdraw handler calls it too.                *)
LookupOutcome(u, o) ==
    IF o \notin ValidOrders THEN "ErrWrongOrderNumber"
    ELSE IF ~Exists(o) THEN "insert"
    ELSE IF orders[o].user # u THEN "ErrWrongUser"
    ELSE "ErrOrderAlreadyExists"

UploadCode == [ErrWrongOrderNumber |-> 422, ErrWrongUser |-> 409,
               ErrOrderAlreadyExists |-> 200]

UploadAnswer(r, code) ==
    upload' = [upload EXCEPT ![r].pc = "done", ![r].resp = code]

UploadLookup(r) ==
    /\ upload[r].pc = "Order"
    /\ LET outcome == LookupOutcome(upload[r].user, upload[r].order)
       IN  \/ /\ outcome = "insert"
              /\ upload' = [upload EXCEPT ![r].pc = "Create"]
           \/ /\ outcome # "insert"
              /\ UploadAnswer(r, UploadCode[outcome])
    /\ UNCHANGED storeVars

UploadInsert(r) ==
    /\ upload[r].pc = "Create"
    /\ InsertOrder(upload[r].user, upload[r].order)
    /\ UploadAnswer(r, 202)
    /\ UNCHANGED <<balanceVars, withdrawals>>

\* Mutant: the insert does nothing on a conflict, and the answer is 202.
UploadInsertDuplicateIgnored(r) ==
    /\ upload[r].pc = "Create"
    /\ Exists(upload[r].order)
    /\ UploadAnswer(r, 202)
    /\ UNCHANGED storeVars

\* Another request inserted the number after the lookup: the unique violation
\* is an error Create returns as it is.
UploadInsertDuplicate(r) ==
    /\ upload[r].pc = "Create"
    /\ Exists(upload[r].order)
    /\ UploadAnswer(r, 500)
    /\ UNCHANGED storeVars

\* A statement fails or its one-second timeout expires before it takes effect.
UploadFails(r) ==
    /\ upload[r].pc # "done"
    /\ UploadAnswer(r, 500)
    /\ UNCHANGED storeVars

\* The insert takes effect but its result is lost.
UploadInsertUnconfirmed(r) ==
    /\ upload[r].pc = "Create"
    /\ InsertOrder(upload[r].user, upload[r].order)
    /\ UploadAnswer(r, 500)
    /\ UNCHANGED <<balanceVars, withdrawals>>

UploadStep(r) == UploadLookup(r) \/ UploadInsert(r) \/ UploadInsertDuplicate(r)

UploadFault(r) == UploadFails(r) \/ UploadInsertUnconfirmed(r)

UploadsDone == \A r \in Uploads : upload[r].pc = "done"

-----------------------------------------------------------------------------
(* What an answer tells the caller stays true for good, whatever other       *)
(* requests do: 202 and 200 mean that the number is stored as the caller's,  *)
(* 409 that it is stored as somebody else's, 422 that it is not stored.      *)
AnswersStayTrue ==
    \A r \in Uploads :
        LET o == upload[r].order
        IN  /\ upload[r].resp \in {200, 202} =>
                   Exists(o) /\ orders[o].user = upload[r].user
            /\ upload[r].resp = 409 =>
                   Exists(o) /\ orders[o].user # upload[r].user
            /\ upload[r].resp = 422 => ~Exists(o)

\* A number is accepted (202) for at most one request, however the lookups and
\* the inserts of concurrent requests interleave.
AcceptedOnce ==
    \A r1, r2 \in Uploads :
        /\ upload[r1].resp = 202
        /\ upload[r2].resp = 202
        /\ upload[r1].order = upload[r2].order
        => r1 = r2

\* An order, once stored, is never deleted and never changes hands.
OwnerNeverChanges ==
    [][\A o \in Orders : Exists(o) =>
           Exists(o)' /\ orders'[o].user = orders[o].user]_orders

\* As SPECIFICATION.md has it: a request for a number that is already uploaded
\* is answered 200 or 409, and 500 is for internal errors.  Checked without
\* database errors.
NoInternalError == \A r \in Uploads : upload[r].resp # 500
=============================================================================
