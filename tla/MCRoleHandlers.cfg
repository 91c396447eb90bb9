SPECIFICATION Spec
CONSTANTS
    f1 = f1
    n1 = n1
    ShortName = {r1}
    DiscordName = {n1}
    Filter = {f1, wild}
    Wildcard = wild
    SyncValue = {"0", "1"}
    Color = {"0"}
    RoleSpec <- MCRoleSpec
    FieldUpdate <- MCFieldUpdate
    Absent = Absent
    User = {u1}
    Worker = {w1, w2}
    Faults = {"lost", "late"}
    Nothing = Nothing
SYMMETRY MCSymmetry
INVARIANTS
    TypeOK
    RoleFromOneRequest
    SoundUnlessRaced
PROPERTIES
    AtomicUnlessStale
    HandlersWriteRegistry
    RacesThatHurt
