SPECIFICATION Spec
CONSTANTS
    f1 = f1
    n1 = n1
    ShortName = {r1}
    DiscordName = {n1}
    Filter = {f1, wild}
    Wildcard = wild
    SyncValue = {"0", "1"}
    Color = {"0"}
    RoleSpec <- MCRoleSpec
    FieldUpdate <- MCFieldUpdate
    Absent = Absent
    User = {u1, u2}
    Client = {c1, c2}
    NoCommand = NoCommand
SYMMETRY MCSymmetry
INVARIANTS
    TypeOK
    ChangesAskedFor
    SIGAnswerTrue
    RemoveAllEmpties
PROPERTIES
    KindRespected
