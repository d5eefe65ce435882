\* A logout while a token is being exchanged.
SPECIFICATION Spec
CONSTANTS
    u1 = u1
    u2 = u2
    u3 = u3
    Users = {u3}
    Email <- OneEmailForTwo
    Calls = {c1, c2}
    None = None
INVARIANTS
    LogoutEndsSessions
\* Requests are not repeated: when all are over nothing more may happen.
CHECK_DEADLOCK FALSE
