CONSTANTS
    U1 = U1
    U2 = U2
    Tasks <- MCTasks
    First = U1
    Rounds = 3

SPECIFICATION Spec

INVARIANTS
    ThirdArgumentArrives
