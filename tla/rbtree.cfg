\* Ten timers, two pairs of them with equal deadlines: trees of four levels.
CONSTANTS
    Node = {1, 2, 3, 4, 5, 6, 7, 8, 9, 10}
    Sentinel = Sentinel
    Callback = Callback
    Null = Null
    KeyOf <- Ties
SPECIFICATION Spec
INVARIANTS
    TypeOK
    LinksAgree
    RedBlack
    SuccessorInOrder
PROPERTIES
    ImplementsQueue
    FixupClimbs
