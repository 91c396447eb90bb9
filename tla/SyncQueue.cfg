SPECIFICATION FairSpec
CONSTANTS
    Client = {c1, c2, c3}
    Cap = 2
    MaxVer = 3
    MaxManual = 2
INVARIANTS
    TypeOK
    NoChangeForgotten
PROPERTIES
    ServedInOrder
    EveryChangeServed
    EveryCallAnswered
