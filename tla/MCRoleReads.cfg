SPECIFICATION Spec
CONSTANTS
    f1 = f1
    f2 = f2
    n1 = n1
    u1 = u1
    ShortName = {r1, r2}
    DiscordName = {n1}
    Filter = {f1, f2, wild}
    Wildcard = wild
    SyncValue = {"0", "1"}
    Color = {"0"}
    RoleSpec <- MCRoleSpec
    FieldUpdate <- MCFieldUpdate
    Absent = Absent
    User = {u1, u2}
    InitialMembers <- MCInitialMembers
    MaxChanges = 3
INVARIANTS
    TypeOK
    ListingTrue
    ListedByKind
    FailureExplained
    OnlyStrangersOmitted
