SPECIFICATION Spec
CONSTANTS
    q1 = q1
    q2 = q2
    Task = Task
    Requests = {q1, q2}
    Clients = {q1, q2, Task}
    Background = {Task}
    Conns = {k1}
    NoConn = NoConn
    Users = {u1}
INVARIANTS ServingTypeOK ConnectionsAccounted NoHoldAndWait OnlyBearersAct CodesTellOutcome
PROPERTIES EveryoneAnswered
